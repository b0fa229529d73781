-------------------------- MODULE JourneysProofs --------------------------
(***************************************************************************)
(* Proofs about the journeys of a user.  About Onboarding, for every       *)
(* number of tabs and staff, start date, number of months and idempotency  *)
(* key: the types, the invariant of the confirmations under way, that the  *)
(* lease passes its stages as LeaseProgress says, and what one tab that    *)
(* hears all its answers is entitled to: the tenant signs what was         *)
(* accepted, and a unit secured through the wizard was paid for, whatever  *)
(* the staff confirm, correct or undo meanwhile.  About the plan: what     *)
(* SubscriptionsProofs proves holds of every journey.                      *)
(***************************************************************************)
EXTENDS MCJourneys, TLAPS, FiniteSetTheorems

Leases == [status : Statuses, start : Starts, months : Months,
           deposit : BOOLEAN, snapshot : Agreements, accepted : BOOLEAN]
Ledger == [Payments -> {"none", "pending", "settled", "returned", "dead"}]
Trails == [agreed : Agreements, signed : Agreements, opened : SUBSET Tabs,
           astray : BOOLEAN, before : BOOLEAN]

\* TypeOK in three parts: what the service, the tabs and the staff change.
ServiceOK ==
  /\ tenant \in {"approved", "activated"} /\ lease \in Leases
  /\ pay \in Ledger /\ trail \in Trails
TabsOK == tab \in [Tabs -> Wizards] /\ late \subseteq Requests
StaffOK ==
  /\ conf \in [Staff -> [of : SUBSET Payments, secures : BOOLEAN]]
  /\ scope \in Scopes
  /\ troubles \in 0..scope.troubles /\ fixes \in 0..scope.fixes

LEMMA TypeParts == TypeOK <=> ServiceOK /\ TabsOK /\ StaffOK
BY DEF TypeOK, ServiceOK, TabsOK, StaffOK, Leases, Ledger, Trails

LEMMA TypeParts2 == TypeOK' <=> ServiceOK' /\ TabsOK' /\ StaffOK'
BY TypeParts, PTL

LEMMA ScopeBounds ==
    ASSUME NEW bound \in Scopes
    PROVE  bound.troubles \in Nat /\ bound.fixes \in Nat
BY OnboardingAssumption

LEMMA TermsTyped ==
    ASSUME ServiceOK
    PROVE  Current \in Agreements /\ lease.snapshot \in Agreements /\ NoTerms \in Agreements
BY DEF ServiceOK, Leases, Current, Agreements, Terms

\* What a request of the wizard does keeps the tables' types.
LEMMA HandleTyped ==
    ASSUME ServiceOK, NEW r \in Requests, NEW answer \in Answers, Handle(r, answer)
    PROVE  ServiceOK'
<1>1. r.shown \in Agreements
  BY DEF Requests
<1>2. CASE Preview(answer)
  BY <1>2, TermsTyped DEF Preview, Refuse, ServiceOK, Leases, Statuses
<1>3. CASE Accept(r, answer)
  BY <1>1, <1>3 DEF Accept, Refuse, ServiceOK, Leases, Statuses, Trails
<1>4. CASE Submit(r, answer)
  <2>1. CASE Refuse(answer)
    BY <2>1 DEF Refuse, ServiceOK
  <2>2. CASE ~ Refuse(answer)
    <3>1. pay' \in Ledger
      <4>1. PICK instant \in BOOLEAN :
              pay' = [p \in Payments |->
                        IF p \in {r.key} \X Due(r.shown) /\ pay[p] = "none"
                        THEN IF instant THEN "settled" ELSE "pending"
                        ELSE pay[p]]
        BY <1>4, <2>2 DEF Submit
      <4> QED
        BY <4>1 DEF ServiceOK, Ledger
    <3>2. lease' = [lease EXCEPT !.status =
                      IF AllSettled(pay') THEN "payment_secured" ELSE "payment_pending"]
          /\ UNCHANGED <<tenant, trail>>
      BY <1>4, <2>2 DEF Submit
    <3> QED
      BY <3>1, <3>2 DEF ServiceOK, Leases, Statuses
  <2> QED
    BY <2>1, <2>2
<1>5. CASE SignAgreement(r, answer)
  BY <1>1, <1>5 DEF SignAgreement, Refuse, ServiceOK, Leases, Statuses, Trails
<1> QED
  BY <1>2, <1>3, <1>4, <1>5 DEF Handle

LEMMA TabTyped ==
    ASSUME TabsOK, NEW t \in Tabs
    PROVE  /\ tab[t] \in Wizards
           /\ tab[t].key \in {0} \cup Keys /\ tab[t].shown \in Agreements
           /\ tab[t].request \in Requests \cup {NoRequest}
           /\ tab[t].answer \in Answers \cup {Unanswered}
BY DEF TabsOK, Wizards

LEMMA PageTyped == ServiceOK => Closed \in Wizards /\ Page \in Wizards
<1> SUFFICES ASSUME ServiceOK PROVE Closed \in Wizards /\ Page \in Wizards
  OBVIOUS
<1>1. Closed \in Wizards
  BY DEF Closed, Wizards, Steps, Agreements
<1>2. StepOf(lease.status) \in Steps
  BY DEF StepOf, Steps
<1>3. Page \in Wizards
  BY <1>1, <1>2, TermsTyped DEF Page, Closed, Wizards, Steps
<1> QED
  BY <1>1, <1>3

\* A tab goes to another page.
LEMMA GoesTyped ==
    ASSUME TypeOK, NEW t \in Tabs, NEW page \in Wizards, Goes(t, page), trail' \in Trails
    PROVE  TypeOK'
BY TypeParts, TypeParts2 DEF Goes, ServiceOK, TabsOK, StaffOK, counts

LEMMA GoesToTyped ==
    ASSUME TypeOK, NEW t \in Tabs, NEW step \in Steps, GoesTo(t, step)
    PROVE  TypeOK'
<1>1. [tab[t] EXCEPT !.at = step] \in Wizards
  BY TypeParts, TabTyped DEF Wizards
<1> QED
  BY <1>1, TypeParts, GoesTyped DEF GoesTo, ServiceOK

LEMMA AsksTyped ==
    ASSUME TypeOK, NEW t \in Tabs, NEW what \in {"preview", "accept", "submit", "sign"},
           NEW key \in {0} \cup Keys, what = "submit" <=> key # 0,
           Asks(t, what, key), UNCHANGED trail
    PROVE  TypeOK'
<1> DEFINE asked == [what |-> what, shown |-> tab[t].shown, key |-> key]
<1>1. tab[t] \in Wizards /\ tab[t].shown \in Agreements
  BY TypeParts, TabTyped
<1>2. asked \in Requests
  <2>1. CASE what = "submit"
    <3>1. key \in Keys
      BY <2>1
    <3> QED
      BY <1>1, <2>1, <3>1 DEF Requests
  <2>2. CASE what # "submit"
    <3>1. key = 0 /\ what \in {"preview", "accept", "sign"}
      BY <2>2
    <3> QED
      BY <1>1, <3>1 DEF Requests
  <2> QED
    BY <2>1, <2>2
<1>3. [tab[t] EXCEPT !.told = FALSE, !.key = key, !.request = asked] \in Wizards
  BY <1>1, <1>2 DEF Wizards
<1> QED
  BY <1>3, TypeParts, GoesTyped DEF Asks, ServiceOK

LEMMA TypeForward == ASSUME TypeOK, NEW t \in Tabs, Forward(t) PROVE TypeOK'
<1>0. tab[t].key \in {0} \cup Keys /\ 0 \notin Keys
  BY TypeParts, TabTyped, OnboardingAssumption
<1>1. CASE SeesLease(t)
  BY <1>1, GoesToTyped DEF SeesLease, Steps
<1>2. CASE AskPreview(t)
  BY <1>2, AsksTyped DEF AskPreview
<1>3. CASE ReadsAgreement(t)
  BY <1>3, GoesToTyped DEF ReadsAgreement, Steps
<1>4. CASE AskAccept(t)
  BY <1>4, AsksTyped DEF AskAccept
<1>5. CASE AskSubmit(t)
  <2>1. PICK k \in Keys : Asks(t, "submit", k) /\ UNCHANGED trail
    BY <1>0, <1>5 DEF AskSubmit, Unused
  <2>2. k # 0
    BY <1>0
  <2> QED
    BY <2>1, <2>2, AsksTyped
<1>6. CASE SeesPayment(t)
  BY <1>6, GoesToTyped DEF SeesPayment, Steps
<1>7. CASE GoesToSign(t)
  BY <1>7, GoesToTyped DEF GoesToSign, Steps
<1>8. CASE AskSign(t)
  BY <1>8, AsksTyped DEF AskSign
<1> QED
  BY <1>1, <1>2, <1>3, <1>4, <1>5, <1>6, <1>7, <1>8 DEF Forward

LEMMA TypeReads ==
    ASSUME TypeOK, NEW t \in Tabs, Open(t) \/ SeesSnapshot(t) \/ Return(t)
    PROVE  TypeOK'
<1>1. tab[t] \in Wizards /\ ServiceOK
  BY TypeParts, TabTyped
<1>2. CASE Open(t)
  <2>1. trail' \in Trails
    BY <1>1, <1>2 DEF Open, ServiceOK, Trails
  <2> QED
    BY <1>1, <1>2, <2>1, PageTyped, GoesTyped DEF Open
<1>3. CASE SeesSnapshot(t)
  <2>1. [tab[t] EXCEPT !.shown = lease.snapshot, !.document = FALSE] \in Wizards
    BY <1>1, TermsTyped DEF Wizards
  <2> QED
    BY <1>1, <1>3, <2>1, GoesTyped DEF SeesSnapshot, ServiceOK
<1>4. CASE Return(t)
  BY <1>1, <1>4, PageTyped, GoesTyped DEF Return, ServiceOK
<1> QED
  BY <1>2, <1>3, <1>4

LEMMA TypeHear == ASSUME TypeOK, NEW t \in Tabs, Hear(t) PROVE TypeOK'
<1> DEFINE page == [tab[t] EXCEPT !.request = NoRequest, !.answer = Unanswered]
           what == tab[t].request.what
<1>1. tab[t] \in Wizards /\ ServiceOK
  BY TypeParts, TabTyped
<1>2. page \in Wizards
  BY <1>1 DEF Wizards
<1>3. tab[t].request \in Requests /\ tab[t].answer \in Answers
  BY <1>1 DEF Hear, Idle, Wizards
<1>4. what \in {"preview", "accept", "submit", "sign"} /\ tab[t].answer.terms \in Agreements
  BY <1>3 DEF Requests, Answers
<1>5. [page EXCEPT !.told = TRUE] \in Wizards
  BY <1>2 DEF Wizards
<1>6. [page EXCEPT !.shown = tab[t].answer.terms, !.document = TRUE] \in Wizards
  BY <1>2, <1>4 DEF Wizards
<1>7. ASSUME what # "preview"
      PROVE  [page EXCEPT !.key = 0, !.at = CASE what = "accept" -> "payment"
                                             [] what = "submit" -> "payment_pending"
                                             [] what = "sign" -> "done"] \in Wizards
  <2>1. (CASE what = "accept" -> "payment"
           [] what = "submit" -> "payment_pending"
           [] what = "sign" -> "done") \in Steps
    BY <1>4, <1>7 DEF Steps
  <2> QED
    BY <1>2, <2>1 DEF Wizards
<1>8. UNCHANGED trail /\ trail \in Trails
  BY <1>1 DEF Hear, ServiceOK
<1>9. PICK next \in Wizards : Goes(t, next)
  <2>1. CASE tab[t].answer = Refused
    BY <1>5, <2>1 DEF Hear
  <2>2. CASE tab[t].answer # Refused /\ what = "preview"
    BY <1>6, <2>2 DEF Hear
  <2>3. CASE tab[t].answer # Refused /\ what # "preview"
    BY <1>7, <2>3 DEF Hear
  <2> QED
    BY <2>1, <2>2, <2>3
<1> QED
  BY <1>8, <1>9, GoesTyped

LEMMA TypeServe == ASSUME TypeOK, NEW t \in Tabs, Serve(t) PROVE TypeOK'
<1>1. tab[t].request \in Requests /\ ServiceOK
  BY TypeParts, TabTyped DEF Serve, Idle
<1>2. PICK answer \in Answers :
        Handle(tab[t].request, answer) /\ tab' = [tab EXCEPT ![t].answer = answer]
  BY DEF Serve
<1>3. ServiceOK'
  BY <1>1, <1>2, HandleTyped
<1>4. TabsOK'
  <2>1. [tab[t] EXCEPT !.answer = answer] \in Wizards
    BY TypeParts, TabTyped DEF Wizards
  <2> QED
    BY <1>2, <2>1, TypeParts DEF TabsOK, Serve
<1> QED
  BY <1>3, <1>4, TypeParts, TypeParts2 DEF Serve, StaffOK, counts

LEMMA TypeServeLate == ASSUME TypeOK, ServeLate PROVE TypeOK'
<1>1. PICK r \in late : /\ \E answer \in Answers : Handle(r, answer)
                        /\ late' = late \ {r}
                        /\ UNCHANGED <<tab, conf, troubles, counts>>
  BY DEF ServeLate
<1>2. r \in Requests /\ ServiceOK
  BY TypeParts DEF TabsOK
<1>3. ServiceOK'
  BY <1>1, <1>2, HandleTyped
<1> QED
  BY <1>1, <1>3, TypeParts, TypeParts2 DEF TabsOK, StaffOK, counts

LEMMA TypeAstray == ASSUME TypeOK, NEW t \in Tabs, Astray(t) PROVE TypeOK'
<1>1. /\ tab[t] \in Wizards /\ ServiceOK /\ TabsOK /\ StaffOK
      /\ Closed \in Wizards /\ Page \in Wizards
  BY TypeParts, TabTyped, PageTyped
<1>2. StaffOK'
  <2>1. scope.troubles \in Nat
    BY <1>1, ScopeBounds DEF StaffOK
  <2> QED
    BY <1>1, <2>1 DEF Astray, Fail, LosesPage, Reload, Back, Abandons, Spend, StaffOK, counts
<1>3. ASSUME Abandons(t) PROVE ServiceOK' /\ late' \subseteq Requests
  <2>1. trail' \in Trails
    BY <1>1, <1>3 DEF Abandons, ServiceOK, Trails
  <2>2. late' \subseteq Requests
    BY <1>1, <1>3 DEF Abandons, Idle, TabsOK, Wizards
  <2> QED
    BY <1>1, <1>3, <2>1, <2>2 DEF Abandons, ServiceOK
<1>4. CASE Fail(t)
  <2>1. [[[tab[t] EXCEPT !.request = NoRequest] EXCEPT !.answer = Unanswered]
           EXCEPT !.told = TRUE] \in Wizards
    BY <1>1 DEF Wizards
  <2>2. tab' = [tab EXCEPT ![t] = [[[@ EXCEPT !.request = NoRequest]
                  EXCEPT !.answer = Unanswered] EXCEPT !.told = TRUE]]
    BY <1>1, <1>4 DEF Fail, TabsOK
  <2> QED
    BY <1>1, <1>2, <1>3, <1>4, <2>1, <2>2, TypeParts2 DEF Fail, TabsOK
<1>5. CASE LosesPage(t)
  <2>1. [Closed EXCEPT !.at = "invalid"] \in Wizards
    BY <1>1 DEF Wizards, Steps
  <2> QED
    BY <1>1, <1>2, <1>3, <1>5, <2>1, TypeParts2 DEF LosesPage, TabsOK
<1>6. CASE Reload(t)
  BY <1>1, <1>2, <1>3, <1>6, TypeParts2 DEF Reload, TabsOK
<1>7. CASE Back(t)
  <2>1. PICK step \in Steps :
          tab' = [tab EXCEPT ![t].at = step, ![t].key = 0, ![t].told = FALSE]
    <3>1. PICK move \in {<<"terms_acceptance", "agreement_preview">>,
                          <<"payment", "terms_acceptance">>,
                          <<"signature", "payment_success">>} :
            tab' = [tab EXCEPT ![t].at = move[2], ![t].key = 0, ![t].told = FALSE]
      BY <1>7 DEF Back
    <3>2. move[2] \in Steps
      BY DEF Steps
    <3> QED
      BY <3>1, <3>2
  <2>2. [[[tab[t] EXCEPT !.at = step] EXCEPT !.key = 0] EXCEPT !.told = FALSE] \in Wizards
    <3>1. [tab[t] EXCEPT !.at = step] \in Wizards
      BY <1>1 DEF Wizards
    <3>2. [[tab[t] EXCEPT !.at = step] EXCEPT !.key = 0] \in Wizards
      BY <3>1 DEF Wizards
    <3> QED
      BY <3>2 DEF Wizards
  <2>3. tab' = [tab EXCEPT ![t] = [[[@ EXCEPT !.at = step] EXCEPT !.key = 0]
                  EXCEPT !.told = FALSE]]
    BY <1>1, <2>1 DEF TabsOK
  <2>4. TabsOK'
    BY <1>1, <1>7, <2>2, <2>3 DEF Back, TabsOK
  <2> QED
    BY <1>1, <1>2, <1>7, <2>4, TypeParts2 DEF Back, ServiceOK
<1> QED
  BY <1>4, <1>5, <1>6, <1>7 DEF Astray

Managed == Link \/ Activate \/ CorrectStart \/ CorrectMonths \/ LookAgain

LEMMA TypeManaged == ASSUME TypeOK, Managed PROVE TypeOK'
<1>1. ServiceOK /\ TabsOK /\ StaffOK /\ scope.fixes \in Nat
  BY TypeParts, ScopeBounds DEF StaffOK
<1>2. ServiceOK'
  <2> USE <1>1 DEF ServiceOK, Leases, Statuses, Manages
  <2>1. CASE Link
    BY <2>1 DEF Link
  <2>2. CASE Activate
    BY <2>2 DEF Activate
  <2>3. CASE CorrectStart
    BY <2>3 DEF CorrectStart
  <2>4. CASE CorrectMonths
    BY <2>4 DEF CorrectMonths, Agreements
  <2>5. CASE LookAgain
    BY <2>5 DEF LookAgain
  <2> QED
    BY <2>1, <2>2, <2>3, <2>4, <2>5 DEF Managed
<1>3. StaffOK'
  <2>1. fixes' = fixes \/ (fixes < scope.fixes /\ fixes' = fixes + 1)
    BY DEF Managed, Link, Activate, CorrectStart, CorrectMonths, LookAgain
  <2>2. fixes' \in 0..scope.fixes
    BY <1>1, <2>1 DEF StaffOK
  <2>3. UNCHANGED <<conf, scope, troubles>>
    BY DEF Managed, Link, Activate, CorrectStart, CorrectMonths, LookAgain, Manages
  <2> QED
    BY <1>1, <2>2, <2>3 DEF StaffOK
<1>4. TabsOK'
  BY <1>1 DEF Managed, Link, Activate, CorrectStart, CorrectMonths, LookAgain, Manages, TabsOK
<1> QED
  BY <1>2, <1>3, <1>4, TypeParts2

LEMMA TypeConfirm ==
    ASSUME TypeOK, NEW s \in Staff, NEW these \in SUBSET Payments, Confirm(s, these)
    PROVE  TypeOK'
<1>1. StaffOK'
  BY TypeParts DEF Confirm, StaffOK, counts
<1> QED
  BY <1>1, TypeParts, TypeParts2 DEF Confirm, ServiceOK, TabsOK

Confirms(s) == \E these \in SUBSET Payments : Confirm(s, these)

LEMMA ConfirmsSome == ASSUME NEW s, ConfirmAll(s) \/ ConfirmOne(s) PROVE Confirms(s)
BY DEF ConfirmAll, ConfirmOne, Confirms

LEMMA TypeCommit == ASSUME TypeOK, NEW s \in Staff, Commit(s) PROVE TypeOK'
<1>1. ServiceOK /\ TabsOK /\ StaffOK
  BY TypeParts
<1>2. pay' \in Ledger
  BY <1>1 DEF Commit, ServiceOK, Ledger
<1>3. lease' \in Leases
  BY <1>1 DEF Commit, ServiceOK, Leases, Statuses
<1>4. StaffOK'
  BY <1>1 DEF Commit, StaffOK, NoConf, counts
<1> QED
  BY <1>1, <1>2, <1>3, <1>4, TypeParts2 DEF Commit, ServiceOK, TabsOK

LEMMA TypeUndo == ASSUME TypeOK, Undo PROVE TypeOK'
<1>1. ServiceOK /\ TabsOK /\ StaffOK /\ scope.troubles \in Nat
  BY TypeParts, ScopeBounds DEF StaffOK
<1>2. ServiceOK'
  BY <1>1 DEF Undo, ServiceOK, Ledger
<1>3. StaffOK'
  BY <1>1 DEF Undo, StaffOK, counts
<1> QED
  BY <1>1, <1>2, <1>3, TypeParts2 DEF Undo, TabsOK

LEMMA TypeInit == Init => TypeOK
<1> SUFFICES ASSUME Init PROVE TypeOK
  OBVIOUS
<1>1. ServiceOK
  BY OnboardingAssumption
     DEF Init, ServiceOK, Leases, Statuses, Agreements, Ledger, Trails
<1>2. TabsOK
  BY <1>1, PageTyped DEF Init, TabsOK
<1>3. StaffOK
  BY ScopeBounds DEF Init, StaffOK, NoConf
<1> QED
  BY <1>1, <1>2, <1>3, TypeParts

\* The actions, by what they may change.
LEMMA NextCases ==
    ASSUME Next
    PROVE  \/ \E t \in Tabs : \/ Open(t) \/ SeesSnapshot(t) \/ Return(t)
                             \/ Forward(t) \/ Hear(t) \/ Astray(t)
           \/ \E t \in Tabs : Serve(t)
           \/ ServeLate \/ Managed \/ Undo
           \/ \E s \in Staff : Confirms(s) \/ Commit(s)
BY ConfirmsSome DEF Next, Managed

LEMMA TypeStep == TypeOK /\ [Next]_vars => TypeOK'
<1> SUFFICES ASSUME TypeOK, [Next]_vars PROVE TypeOK'
  OBVIOUS
<1>1. CASE Next
  BY <1>1, NextCases, TypeReads, TypeForward, TypeHear, TypeAstray, TypeServe,
     TypeServeLate, TypeManaged, TypeUndo, TypeConfirm, TypeCommit DEF Confirms
<1>2. CASE UNCHANGED vars
  BY <1>2 DEF vars, TypeOK
<1> QED
  BY <1>1, <1>2

\* The lease, the payments, the tabs and the confirmations keep their types.
THEOREM OnboardingTyped == Spec => []TypeOK
BY TypeInit, TypeStep, PTL DEF Spec

-----------------------------------------------------------------------------
(* The confirmations under way                                              *)

\* A confirmation holds payments that nobody else settles meanwhile, so at most
\* one of those under way has found everything else settled.
ConfInv ==
  /\ \A s \in Staff : /\ conf[s] # NoConf => conf[s].of # {}
                      /\ \A p \in conf[s].of : pay[p] = "pending"
                      /\ conf[s].secures => lease.status = "payment_pending"
  /\ \A s, u \in Staff : s # u => /\ conf[s].of \cap conf[u].of = {}
                                 /\ ~ (conf[s].secures /\ conf[u].secures)

LEMMA ConfInit == Init => ConfInv
BY DEF Init, ConfInv, NoConf

\* It is enough that a step leaves the confirmations alone, the payments they
\* hold pending, and a lease waiting while one of them is going to secure it.
LEMMA ConfFrame ==
    ASSUME ConfInv, UNCHANGED conf,
           \A s \in Staff : \A p \in conf[s].of : pay[p] = "pending" => pay'[p] = "pending",
           \A s \in Staff : conf[s].secures => lease'.status = lease.status
    PROVE  ConfInv'
BY DEF ConfInv, NoConf

\* A payment held is asked for and not settled.
LEMMA HeldIsOpen ==
    ASSUME TypeOK, ConfInv, NEW s \in Staff, conf[s].secures
    PROVE  \E p \in Payments : pay[p] = "pending" /\ p \in conf[s].of
<1>1. conf[s] # NoConf /\ conf[s].of \subseteq Payments
  BY TypeParts DEF NoConf, StaffOK
<1> QED
  BY <1>1 DEF ConfInv

LEMMA ConfHandle ==
    ASSUME TypeOK, ConfInv, NEW r \in Requests, NEW answer \in Answers,
           Handle(r, answer), UNCHANGED conf
    PROVE  ConfInv'
<1>1. ASSUME NEW s \in Staff, NEW p \in conf[s].of, pay[p] = "pending"
      PROVE  pay'[p] = "pending"
  <2>1. p \in Payments
    BY <1>1, TypeParts DEF StaffOK
  <2> QED
    BY <1>1, <2>1 DEF Handle, Preview, Accept, Submit, SignAgreement, Refuse
<1>2. ASSUME NEW s \in Staff, conf[s].secures
      PROVE  lease'.status = lease.status
  <2>1. lease.status = "payment_pending" /\ lease \in Leases
    BY <1>2, TypeParts DEF ConfInv, ServiceOK
  <2>2. CASE Preview(answer)
    BY <2>1, <2>2 DEF Preview, Refuse
  <2>3. CASE Accept(r, answer)
    BY <2>1, <2>3 DEF Accept, Refuse
  <2>4. CASE Submit(r, answer)
    <3>1. PICK p \in Payments : pay[p] = "pending" /\ p \in conf[s].of
      BY <1>2, HeldIsOpen
    <3>2. ~ AllSettled(pay')
      BY <1>1, <3>1 DEF AllSettled
    <3> QED
      BY <2>1, <2>4, <3>2 DEF Submit, Refuse, Leases
  <2>5. CASE SignAgreement(r, answer)
    BY <2>1, <2>5 DEF SignAgreement, Refuse
  <2> QED
    BY <2>2, <2>3, <2>4, <2>5 DEF Handle
<1> QED
  BY <1>1, <1>2, ConfFrame

LEMMA ConfConfirm ==
    ASSUME TypeOK, ConfInv, NEW s \in Staff, NEW these \in SUBSET Payments, Confirm(s, these)
    PROVE  ConfInv'
<1>1. /\ conf[s] = NoConf /\ these # {} /\ these \cap Confirming = {}
      /\ \A p \in these : pay[p] = "pending"
      /\ UNCHANGED <<lease, pay>>
  BY DEF Confirm
<1>2. /\ conf' \in [Staff -> [of : SUBSET Payments, secures : BOOLEAN]]
      /\ conf \in [Staff -> [of : SUBSET Payments, secures : BOOLEAN]]
  BY TypeConfirm, TypeParts, TypeParts2 DEF StaffOK
<1>3. conf'[s].of = these
      /\ (conf'[s].secures => /\ lease.status = "payment_pending"
                              /\ \A p \in Asked \ these : pay[p] = "settled")
  BY <1>2 DEF Confirm
<1>4. \A u \in Staff \ {s} : conf'[u] = conf[u]
  BY <1>2 DEF Confirm
<1>5. ASSUME NEW u \in Staff \ {s}
      PROVE  conf[u].of \cap these = {} /\ ~ (conf[u].secures /\ conf'[s].secures)
  <2>1. conf[u].of \cap these = {}
    BY <1>1 DEF Confirming
  <2>2. ASSUME conf[u].secures, conf'[s].secures PROVE FALSE
    <3>1. PICK p \in Payments : pay[p] = "pending" /\ p \in conf[u].of
      BY <2>2, HeldIsOpen
    <3>2. p \in Asked \ these
      BY <2>1, <3>1 DEF Asked
    <3> QED
      BY <1>3, <2>2, <3>1, <3>2
  <2> QED
    BY <2>1, <2>2
<1>6. ASSUME NEW u \in Staff
      PROVE  /\ conf'[u] # NoConf => conf'[u].of # {}
             /\ \A p \in conf'[u].of : pay'[p] = "pending"
             /\ conf'[u].secures => lease'.status = "payment_pending"
  BY <1>1, <1>3, <1>4, <1>6 DEF ConfInv
<1>7. ASSUME NEW u \in Staff, NEW v \in Staff, u # v
      PROVE  conf'[u].of \cap conf'[v].of = {} /\ ~ (conf'[u].secures /\ conf'[v].secures)
  BY <1>3, <1>4, <1>5, <1>7 DEF ConfInv
<1>8. NoConf' = NoConf
  BY DEF NoConf
<1> QED
  BY <1>6, <1>7, <1>8 DEF ConfInv

LEMMA ConfCommit ==
    ASSUME TypeOK, ConfInv, NEW s \in Staff, Commit(s)
    PROVE  ConfInv'
<1>1. conf \in [Staff -> [of : SUBSET Payments, secures : BOOLEAN]] /\ lease \in Leases
  BY TypeParts DEF StaffOK, ServiceOK
<1>2. conf'[s] = NoConf /\ \A u \in Staff \ {s} : conf'[u] = conf[u]
  BY <1>1 DEF Commit
<1>3. ASSUME NEW u \in Staff \ {s}, NEW p \in conf[u].of PROVE pay'[p] = "pending"
  <2>1. p \in Payments /\ p \notin conf[s].of /\ pay[p] = "pending"
    BY <1>1, <1>3 DEF ConfInv
  <2> QED
    BY <2>1 DEF Commit
<1>4. ASSUME NEW u \in Staff \ {s}, conf[u].secures PROVE lease'.status = "payment_pending"
  BY <1>4 DEF Commit, ConfInv
<1> QED
  BY <1>2, <1>3, <1>4 DEF ConfInv, NoConf

LEMMA ConfManaged == ASSUME TypeOK, ConfInv, Managed PROVE ConfInv'
<1>1. UNCHANGED <<conf, pay>> /\ lease \in Leases
  BY TypeParts DEF Managed, Link, Activate, CorrectStart, CorrectMonths, LookAgain, Manages,
                   ServiceOK
<1>2. ASSUME NEW s \in Staff, conf[s].secures PROVE lease'.status = lease.status
  <2>1. lease.status = "payment_pending"
    BY <1>2 DEF ConfInv
  <2>2. ~ AllSettled(pay)
    BY <1>2, HeldIsOpen DEF AllSettled
  <2> QED
    BY <1>1, <2>1, <2>2
       DEF Managed, Link, Activate, CorrectStart, CorrectMonths, LookAgain, Leases
<1> QED
  BY <1>1, <1>2, ConfFrame

LEMMA ConfUndo == ASSUME TypeOK, ConfInv, Undo PROVE ConfInv'
<1>1. UNCHANGED <<conf, lease>> /\ pay \in Ledger
  BY TypeParts DEF Undo, ServiceOK
<1>2. ASSUME NEW s \in Staff, NEW p \in conf[s].of PROVE pay'[p] = pay[p]
  <2>1. p \in Confirming /\ p \in Payments
    BY <1>2, TypeParts DEF Confirming, StaffOK
  <2> QED
    BY <1>1, <2>1 DEF Undo, Ledger
<1> QED
  BY <1>1, <1>2, ConfFrame

\* Of the tabs only what is served changes the lease or a payment.
LEMMA TabsAlone ==
    ASSUME NEW t, Open(t) \/ SeesSnapshot(t) \/ Return(t) \/ Forward(t) \/ Hear(t) \/ Astray(t)
    PROVE  UNCHANGED <<lease, pay, conf>>
BY DEF Open, SeesSnapshot, Return, Forward, SeesLease, AskPreview, ReadsAgreement,
       AskAccept, AskSubmit, SeesPayment, GoesToSign, AskSign, Asks, Hear, Astray, Fail,
       LosesPage, Reload, Back, Abandons, Goes, GoesTo

\* A request is one the tabs may make.
LEMMA Served ==
    ASSUME TypeOK, (\E t \in Tabs : Serve(t)) \/ ServeLate
    PROVE  /\ \E r \in Requests : \E answer \in Answers : Handle(r, answer)
           /\ UNCHANGED conf
BY TypeParts, TabTyped DEF Serve, Idle, ServeLate, TabsOK

LEMMA ConfStep == TypeOK /\ ConfInv /\ [Next]_vars => ConfInv'
<1> SUFFICES ASSUME TypeOK, ConfInv, [Next]_vars PROVE ConfInv'
  OBVIOUS
<1>1. CASE UNCHANGED vars
  BY <1>1, ConfFrame DEF vars
<1>2. CASE \E t \in Tabs : Open(t) \/ SeesSnapshot(t) \/ Return(t)
                         \/ Forward(t) \/ Hear(t) \/ Astray(t)
  BY <1>2, TabsAlone, ConfFrame
<1>3. CASE (\E t \in Tabs : Serve(t)) \/ ServeLate
  BY <1>3, Served, ConfHandle
<1>4. CASE Managed \/ Undo \/ \E s \in Staff : Confirms(s) \/ Commit(s)
  BY <1>4, ConfManaged, ConfUndo, ConfConfirm, ConfCommit DEF Confirms
<1> QED
  BY <1>1, <1>2, <1>3, <1>4, NextCases

THEOREM ConfirmationsApart == Spec => [](TypeOK /\ ConfInv)
<1>1. Init => TypeOK /\ ConfInv
  BY TypeInit, ConfInit
<1>2. TypeOK /\ ConfInv /\ [Next]_vars => (TypeOK /\ ConfInv)'
  BY TypeStep, ConfStep
<1> QED
  BY <1>1, <1>2, PTL DEF Spec

-----------------------------------------------------------------------------
(* The refinement                                                           *)

Received == {p \in Payments : pay[p] \in {"settled", "returned"}}

\* A request takes the lease on as LeaseProgress says, or leaves it.
LEMMA HandleProgress ==
    ASSUME TypeOK, NEW r \in Requests, NEW answer \in Answers, Handle(r, answer)
    PROVE  [Progress!Next]_Progress!vars
<1>1. lease \in Leases /\ pay \in Ledger
  BY TypeParts DEF ServiceOK
<1>2. CASE Preview(answer)
  BY <1>1, <1>2 DEF Preview, Refuse, Progress!Next, Progress!Agree, Progress!Moves,
                    Progress!vars, Asked, Leases
<1>3. CASE Accept(r, answer)
  BY <1>1, <1>3 DEF Accept, Refuse, Progress!Next, Progress!Agree, Progress!Moves,
                    Progress!vars, Asked, Leases
<1>4. CASE r.what = "submit" /\ Submit(r, answer)
  <2>1. CASE Refuse(answer)
    BY <2>1 DEF Refuse, Progress!vars, Asked
  <2>2. CASE ~ Refuse(answer)
    <3> DEFINE items == {r.key} \X Due(r.shown)
    <3>1. /\ lease.status \in {"terms_accepted", "payment_pending"} /\ items # {}
          /\ lease' = [lease EXCEPT !.status =
                         IF AllSettled(pay') THEN "payment_secured" ELSE "payment_pending"]
      BY <1>4, <2>2 DEF Submit
    <3>2. PICK instant \in BOOLEAN :
            pay' = [p \in Payments |->
                      IF p \in items /\ pay[p] = "none"
                      THEN IF instant THEN "settled" ELSE "pending"
                      ELSE pay[p]]
      BY <1>4, <2>2 DEF Submit
    <3>3. r.key \in Keys
      BY <1>4 DEF Requests
    <3>4. items \subseteq Payments
      BY <3>3 DEF Payments, Due
    <3>5. Asked \subseteq Asked' /\ Asked' \subseteq Payments /\ Asked' # {}
      BY <3>1, <3>2, <3>4 DEF Asked
    <3>6. Received \subseteq Received' /\ Received' \subseteq Asked'
      BY <3>2 DEF Received, Asked
    <3>7. AllSettled(pay') => Asked' \subseteq Received'
      BY DEF AllSettled, Asked, Received
    <3>8. lease'.status = IF AllSettled(pay') THEN "payment_secured" ELSE "payment_pending"
      BY <1>1, <3>1 DEF Leases
    <3> QED
      BY <3>1, <3>5, <3>6, <3>7, <3>8 DEF Progress!Next, Progress!Ask, Received
  <2> QED
    BY <2>1, <2>2
<1>5. CASE SignAgreement(r, answer)
  BY <1>1, <1>5 DEF SignAgreement, Refuse, Progress!Next, Progress!Sign, Progress!Moves,
                    Progress!vars, Asked, Leases
<1> QED
  BY <1>2, <1>3, <1>4, <1>5 DEF Handle

LEMMA ManagedProgress ==
    ASSUME TypeOK, Managed
    PROVE  [Progress!Next]_Progress!vars
<1>1. lease \in Leases /\ pay \in Ledger
  BY TypeParts DEF ServiceOK
<1>2. UNCHANGED <<Asked, Received>>
  BY DEF Managed, Link, Activate, CorrectStart, CorrectMonths, LookAgain, Manages,
         Asked, Received
<1>3. CASE LookAgain
  <2>1. Asked \subseteq Received /\ Asked # {} /\ Asked \subseteq Payments
    BY <1>3 DEF LookAgain, AllSettled, Asked, Received
  <2>2. Received \subseteq Asked
    BY DEF Asked, Received
  <2> QED
    BY <1>1, <1>2, <1>3, <2>1, <2>2
       DEF LookAgain, Progress!Next, Progress!Ask, Leases, Received
<1>4. CASE Link \/ Activate
  BY <1>1, <1>2, <1>4 DEF Link, Activate, Progress!Next, Progress!Agree, Progress!Moves,
                          Leases, Received
<1>5. CASE CorrectStart \/ CorrectMonths
  BY <1>1, <1>2, <1>5 DEF CorrectStart, CorrectMonths, Progress!Next, Progress!Agree,
                          Progress!Moves, Progress!vars, Leases, Received
<1> QED
  BY <1>3, <1>4, <1>5 DEF Managed

\* Confirmed payments were asked for and had not been received.
LEMMA CommitProgress ==
    ASSUME TypeOK, ConfInv, NEW s \in Staff, Commit(s)
    PROVE  [Progress!Next]_Progress!vars
<1>1. /\ lease \in Leases /\ conf[s].of # {} /\ conf[s].of \subseteq Payments
      /\ \A p \in conf[s].of : pay[p] = "pending"
  BY TypeParts DEF ServiceOK, StaffOK, ConfInv, Commit
<1>2. Received' = Received \cup conf[s].of
  BY <1>1 DEF Commit, Received
<1>3. Asked' = Asked
  BY <1>1 DEF Commit, Asked
<1>4. Received \subseteq Asked /\ conf[s].of \subseteq Asked
  BY <1>1 DEF Received, Asked
<1>5. conf[s].of \cap Received = {}
  BY <1>1 DEF Received
<1>6. \/ lease'.status = lease.status
      \/ lease.status = "payment_pending" /\ lease'.status = "payment_secured"
  BY <1>1 DEF Commit, ConfInv, Leases
<1> QED
  BY <1>1, <1>2, <1>3, <1>4, <1>5, <1>6
     DEF Progress!Next, Progress!Settle, Progress!Moves, Received

LEMMA UndoProgress == ASSUME TypeOK, Undo PROVE UNCHANGED Progress!vars
<1>1. pay \in Ledger
  BY TypeParts DEF ServiceOK
<1>2. Asked' = Asked /\ Received' = Received /\ lease' = lease
  BY <1>1 DEF Undo, Asked, Received, Ledger
<1> QED
  BY <1>2 DEF Progress!vars, Received

LEMMA ProgressStep == TypeOK /\ ConfInv /\ [Next]_vars => [Progress!Next]_Progress!vars
<1> SUFFICES ASSUME TypeOK, ConfInv, [Next]_vars PROVE [Progress!Next]_Progress!vars
  OBVIOUS
<1>1. CASE UNCHANGED <<lease, pay>>
  BY <1>1 DEF Progress!vars, Asked
<1>2. CASE UNCHANGED vars
  BY <1>1, <1>2 DEF vars
<1>3. CASE \E t \in Tabs : Open(t) \/ SeesSnapshot(t) \/ Return(t)
                         \/ Forward(t) \/ Hear(t) \/ Astray(t)
  BY <1>1, <1>3, TabsAlone
<1>4. CASE (\E t \in Tabs : Serve(t)) \/ ServeLate
  BY <1>4, Served, HandleProgress
<1>5. CASE \E s \in Staff : Confirms(s)
  BY <1>1, <1>5 DEF Confirms, Confirm
<1>6. CASE Managed \/ Undo \/ \E s \in Staff : Commit(s)
  BY <1>6, ManagedProgress, UndoProgress, CommitProgress
<1> QED
  BY <1>2, <1>3, <1>4, <1>5, <1>6, NextCases

\* Onboarding implements LeaseProgress: each step of a tab, of the staff or of the
\* network moves the lease along its stages, or leaves it where it is.
THEOREM StagesInOrder == Spec => InOrder
<1>1. Init => Progress!Init
  BY DEF Init, Progress!Init, Asked
<1>2. Spec => [](TypeOK /\ ConfInv)
  BY ConfirmationsApart
<1>3. Spec => [][Progress!Next]_Progress!vars
  BY <1>2, ProgressStep, PTL DEF Spec
<1> QED
  BY <1>1, <1>3, PTL DEF Spec, InOrder, Progress!Spec

-----------------------------------------------------------------------------
(* One tab that hears all its answers                                       *)


\* The agreement can no longer be replaced by an unread one.
Fixed == lease.status \in Previewed /\ lease.snapshot # NoTerms

\* How far the lease is tells whether there is a snapshot and an acceptance.
LeaseInv ==
  /\ lease.snapshot # NoTerms => lease.status \in Previewed
  /\ lease.status = "agreement_previewed" => lease.snapshot # NoTerms
  /\ lease.status \in {"terms_accepted", "payment_pending", "payment_secured"} => lease.accepted
  /\ lease.accepted => lease.status \in Accepted /\ lease.snapshot # NoTerms

\* A tab that was not opened has done nothing.
OpenedInv ==
  /\ IsFiniteSet(trail.opened)
  /\ ~ trail.astray => late = {}
  /\ \A t \in Tabs \ trail.opened : tab[t] = Closed

\* A wizard shows the snapshot, or is about to, and asks for what it shows.
Faithful(w) ==
  /\ w.at \notin {"closed", "invalid"} \/ w.request # NoRequest =>
       IF w.request.what = "preview" /\ w.answer # Unanswered
       THEN w.answer = Ok(lease.snapshot) ELSE w.shown = lease.snapshot
  /\ w.request.what \notin {"none", "preview"} => w.request.shown = lease.snapshot
  /\ w.request = NoRequest => w.answer = Unanswered

ShownInv == Fixed => \A t \in Tabs : Faithful(tab[t])

AgreedInv ==
  /\ lease.accepted => trail.agreed = lease.snapshot
  /\ trail.signed # NoTerms => lease.accepted /\ trail.signed = lease.snapshot

\* What the accepted agreement asks for.
Owed == Due(lease.snapshot)

Paying == lease.accepted /\ lease.status \in {"payment_pending", "payment_secured", "active"}

\* One request asked for everything the agreement does.
AskedInv ==
  Paying => \E k \in Keys : \A item \in Owed : pay[<<k, item>>] # "none"

\* What a confirmation that will secure the lease found, and what it holds.
SecuringInv ==
  \A s \in Staff : conf[s].secures =>
    \A item \in Owed :
      \E k \in Keys : \/ pay[<<k, item>>] \in {"settled", "returned"}
                      \/ <<k, item>> \in conf[s].of

SecuredInv ==
  Paying /\ lease.status # "payment_pending" =>
    \A item \in Owed :
      \E k \in Keys : pay[<<k, item>>] \in {"settled", "returned"}

PaidInv == AskedInv /\ SecuringInv /\ SecuredInv

AgreementInv ==
  /\ TypeOK /\ ConfInv /\ LeaseInv /\ OpenedInv
  /\ Plain => ShownInv /\ AgreedInv /\ PaidInv

-----------------------------------------------------------------------------
(* The lease                                                                *)

LEMMA StartsFromOne == ASSUME TypeOK PROVE Current # NoTerms
<1>1. lease.start \in Nat \ {0}
  BY TypeParts, OnboardingAssumption DEF ServiceOK, Leases
<1>2. Current.start = lease.start /\ NoTerms.start = 0
  BY DEF Current, NoTerms
<1> QED
  BY <1>1, <1>2

LEMMA LeaseHandle ==
    ASSUME TypeOK, LeaseInv, NEW r, NEW answer, Handle(r, answer)
    PROVE  LeaseInv'
<1>1. lease \in Leases /\ NoTerms' = NoTerms
  BY TypeParts DEF ServiceOK, NoTerms
<1> USE <1>1 DEF LeaseInv, Refuse, Leases, Previewed, Accepted
<1>2. CASE Preview(answer)
  BY <1>2, StartsFromOne DEF Preview
<1>3. CASE Accept(r, answer)
  BY <1>3 DEF Accept
<1>4. CASE Submit(r, answer)
  BY <1>4 DEF Submit
<1>5. CASE SignAgreement(r, answer)
  BY <1>5 DEF SignAgreement
<1> QED
  BY <1>2, <1>3, <1>4, <1>5 DEF Handle

LEMMA LeaseManaged == ASSUME TypeOK, LeaseInv, Managed PROVE LeaseInv'
<1>1. lease \in Leases /\ NoTerms' = NoTerms
  BY TypeParts DEF ServiceOK, NoTerms
<1> USE <1>1 DEF LeaseInv, Leases, Previewed, Accepted
<1>2. CASE Link
  BY <1>2 DEF Link
<1>3. CASE Activate
  BY <1>3 DEF Activate
<1>4. CASE CorrectStart
  BY <1>4 DEF CorrectStart
<1>5. CASE CorrectMonths
  BY <1>5 DEF CorrectMonths
<1>6. CASE LookAgain
  BY <1>6 DEF LookAgain
<1> QED
  BY <1>2, <1>3, <1>4, <1>5, <1>6 DEF Managed

LEMMA LeaseCommit ==
    ASSUME TypeOK, ConfInv, LeaseInv, NEW s \in Staff, Commit(s)
    PROVE  LeaseInv'
<1>1. lease \in Leases /\ NoTerms' = NoTerms
  BY TypeParts DEF ServiceOK, NoTerms
<1>2. conf[s].secures => lease.status = "payment_pending"
  BY DEF ConfInv
<1> QED
  BY <1>1, <1>2 DEF LeaseInv, Leases, Previewed, Accepted, Commit

LEMMA LeaseStep == ASSUME TypeOK, ConfInv, LeaseInv, Next PROVE LeaseInv'
<1>1. CASE UNCHANGED lease
  BY <1>1 DEF LeaseInv, NoTerms
<1>2. CASE \E t \in Tabs : Open(t) \/ SeesSnapshot(t) \/ Return(t)
                         \/ Forward(t) \/ Hear(t) \/ Astray(t)
  BY <1>1, <1>2, TabsAlone
<1>3. CASE (\E t \in Tabs : Serve(t)) \/ ServeLate
  BY <1>3, Served, LeaseHandle
<1>4. CASE Undo \/ \E s \in Staff : Confirms(s)
  BY <1>1, <1>4 DEF Undo, Confirms, Confirm
<1>5. CASE Managed \/ \E s \in Staff : Commit(s)
  BY <1>5, LeaseManaged, LeaseCommit
<1> QED
  BY <1>2, <1>3, <1>4, <1>5, NextCases

-----------------------------------------------------------------------------
(* The tabs that were opened                                                *)

LEMMA HandleTrail ==
    ASSUME TypeOK, NEW r, NEW answer, Handle(r, answer)
    PROVE  trail'.opened = trail.opened /\ trail'.astray = trail.astray
<1>1. trail \in Trails
  BY TypeParts DEF ServiceOK
<1> QED
  BY <1>1 DEF Handle, Preview, Accept, Submit, SignAgreement, Refuse, Trails

\* What a step may add to the history.
Grows ==
  /\ trail.opened \subseteq trail'.opened
  /\ trail.astray => trail'.astray
  /\ \E t : trail'.opened \subseteq trail.opened \cup {t}

LEMMA TrailKept ==
    ASSUME NEW t, SeesSnapshot(t) \/ Return(t) \/ Forward(t) \/ Hear(t)
    PROVE  UNCHANGED trail
<1>1. CASE Hear(t)
  BY <1>1 DEF Hear
<1>2. CASE Forward(t)
  BY <1>2 DEF Forward, SeesLease, AskPreview, ReadsAgreement, AskAccept, AskSubmit,
              SeesPayment, GoesToSign, AskSign, GoesTo
<1>3. CASE SeesSnapshot(t) \/ Return(t)
  BY <1>3 DEF SeesSnapshot, Return
<1> QED
  BY <1>1, <1>2, <1>3

LEMMA TrailGrows == ASSUME TypeOK, Next PROVE trail' = trail \/ Grows
<1>1. trail \in Trails
  BY TypeParts DEF ServiceOK
<1>2. ASSUME NEW t \in Tabs, Open(t) PROVE Grows
  BY <1>1, <1>2 DEF Open, Trails, Grows
<1>3. ASSUME NEW t \in Tabs, Astray(t) PROVE trail' = trail \/ Grows
  BY <1>1, <1>3 DEF Astray, Fail, LosesPage, Reload, Back, Abandons, Trails, Grows
<1>4. CASE (\E t \in Tabs : Serve(t)) \/ ServeLate
  <2>1. trail'.opened = trail.opened /\ trail'.astray = trail.astray
    BY <1>4, Served, HandleTrail
  <2>2. trail'.opened \subseteq trail.opened \cup {0}
    BY <2>1
  <2> QED
    BY <2>1, <2>2 DEF Grows
<1>5. CASE Managed \/ Undo \/ \E s \in Staff : Confirms(s) \/ Commit(s)
  BY <1>5 DEF Managed, Link, Activate, CorrectStart, CorrectMonths, LookAgain, Manages,
              Undo, Confirms, Confirm, Commit
<1> QED
  BY <1>2, <1>3, <1>4, <1>5, TrailKept, NextCases

\* A step leaves alone the tabs other than one that is open, or opens.
LEMMA OthersKept ==
    ASSUME TypeOK, NEW t \in Tabs,
           \/ Open(t) \/ SeesSnapshot(t) \/ Return(t) \/ Forward(t) \/ Hear(t) \/ Astray(t)
           \/ Serve(t)
    PROVE  \A u \in Tabs \ {t} : tab'[u] = tab[u]
<1>1. tab \in [Tabs -> Wizards]
  BY TypeParts DEF TabsOK
<1>2. CASE Forward(t)
  BY <1>1, <1>2 DEF Forward, SeesLease, AskPreview, ReadsAgreement, AskAccept, AskSubmit,
              SeesPayment, GoesToSign, AskSign, Asks, GoesTo, Goes
<1>3. CASE Hear(t)
  BY <1>1, <1>3 DEF Hear, Goes
<1>4. CASE Astray(t)
  BY <1>1, <1>4 DEF Astray, Fail, LosesPage, Reload, Back
<1>5. CASE Open(t) \/ SeesSnapshot(t) \/ Return(t)
  BY <1>1, <1>5 DEF Open, SeesSnapshot, Return, Goes
<1>6. CASE Serve(t)
  BY <1>1, <1>6 DEF Serve
<1> QED
  BY <1>2, <1>3, <1>4, <1>5, <1>6

\* A tab that is closed can only be opened.
LEMMA ClosedIdle ==
    ASSUME NEW t, tab[t] = Closed
    PROVE  ~ (SeesSnapshot(t) \/ Return(t) \/ Forward(t) \/ Hear(t) \/ Astray(t) \/ Serve(t))
<1>1. Idle(t) /\ ~ Mounted(t) /\ tab[t].at = "closed" /\ ~ tab[t].told
  BY DEF Idle, Mounted, Closed
<1> QED
  BY <1>1 DEF SeesSnapshot, Return, Forward, Hear, Astray, Serve, SeesLease, AskPreview,
              ReadsAgreement, AskAccept, AskSubmit, SeesPayment, GoesToSign, AskSign,
              Fail, LosesPage, Reload, Back

LEMMA OpenedGrows ==
    ASSUME TypeOK, OpenedInv, Next
    PROVE  /\ IsFiniteSet(trail'.opened) /\ trail.opened \subseteq trail'.opened
           /\ trail.astray => trail'.astray
<1>1. CASE trail' = trail
  BY <1>1 DEF OpenedInv
<1>2. CASE Grows
  <2>1. PICK t : trail'.opened \subseteq trail.opened \cup {t}
    BY <1>2 DEF Grows
  <2>2. IsFiniteSet(trail.opened \cup {t})
    BY FS_AddElement DEF OpenedInv
  <2>3. IsFiniteSet(trail'.opened)
    BY <2>1, <2>2, FS_Subset
  <2> QED
    BY <1>2, <2>3 DEF Grows
<1> QED
  BY <1>1, <1>2, TrailGrows

LEMMA LateAlone ==
    ASSUME TypeOK, OpenedInv, Next, ~ trail'.astray
    PROVE  late' = {}
<1>1. late = {} /\ trail \in Trails
  BY OpenedGrows, TypeParts DEF OpenedInv, ServiceOK
<1>2. ASSUME NEW t \in Tabs, Astray(t) PROVE late' = {}
  <2>1. CASE Back(t)
    BY <1>1, <2>1 DEF Back
  <2>2. CASE Abandons(t)
    BY <1>1, <2>2 DEF Abandons, Trails
  <2> QED
    BY <1>2, <2>1, <2>2 DEF Astray, Fail, LosesPage, Reload
<1>3. ASSUME NEW t \in Tabs, Open(t) \/ SeesSnapshot(t) \/ Return(t) PROVE late' = late
  BY <1>3 DEF Open, SeesSnapshot, Return, Goes
<1>4. ASSUME NEW t \in Tabs, Forward(t) PROVE late' = late
  BY <1>4 DEF Forward, SeesLease, AskPreview, ReadsAgreement, AskAccept, AskSubmit,
              SeesPayment, GoesToSign, AskSign, Asks, GoesTo, Goes
<1>5. ASSUME NEW t \in Tabs, Hear(t) \/ Serve(t) PROVE late' = late
  BY <1>5 DEF Hear, Goes, Serve
<1>6. ~ ServeLate
  BY <1>1 DEF ServeLate
<1>7. CASE Managed \/ Undo \/ \E s \in Staff : Confirms(s) \/ Commit(s)
  BY <1>1, <1>7 DEF Managed, Link, Activate, CorrectStart, CorrectMonths, LookAgain, Manages,
              Undo, Confirms, Confirm, Commit
<1> QED
  BY <1>1, <1>2, <1>3, <1>4, <1>5, <1>6, <1>7, NextCases

LEMMA OpenedStep == ASSUME TypeOK, OpenedInv, Next PROVE OpenedInv'
<1>1. Closed' = Closed
  BY DEF Closed, NoTerms, NoRequest, Unanswered
<1>2. ASSUME NEW u \in Tabs \ trail'.opened PROVE tab'[u] = Closed
  <2>1. tab[u] = Closed
    BY <1>2, OpenedGrows DEF OpenedInv
  <2>2. ~ Open(u)
    <3>1. trail \in Trails
      BY TypeParts DEF ServiceOK
    <3>2. Open(u) => u \in trail'.opened
      BY <3>1 DEF Open, Trails
    <3> QED
      BY <1>2, <3>2
  <2>3. ASSUME NEW t \in Tabs,
               \/ Open(t) \/ SeesSnapshot(t) \/ Return(t) \/ Forward(t) \/ Hear(t)
               \/ Astray(t) \/ Serve(t)
        PROVE  tab'[u] = tab[u]
    <3>1. t # u
      BY <2>1, <2>2, <2>3, ClosedIdle
    <3> QED
      BY <2>3, <3>1, OthersKept
  <2>4. CASE ServeLate \/ Managed \/ Undo \/ \E s \in Staff : Confirms(s) \/ Commit(s)
    BY <2>1, <2>4 DEF ServeLate, Managed, Link, Activate, CorrectStart, CorrectMonths, LookAgain,
                Manages, Undo, Confirms, Confirm, Commit
  <2> QED
    BY <2>1, <2>3, <2>4, NextCases
<1> QED
  BY <1>1, <1>2, OpenedGrows, LateAlone DEF OpenedInv

\* What is plain after a step was plain before.
LEMMA PlainBefore == ASSUME TypeOK, OpenedInv, Next, Plain' PROVE Plain
<1>1. IsFiniteSet(trail'.opened) /\ trail.opened \in SUBSET trail'.opened
  BY OpenedGrows
<1>2. Cardinality(trail.opened) <= Cardinality(trail'.opened)
  BY <1>1, FS_Subset
<1>3. Cardinality(trail.opened) \in Nat /\ Cardinality(trail'.opened) \in Nat
  BY <1>1, FS_CardinalityType DEF OpenedInv
<1>4. ~ trail'.astray /\ Cardinality(trail'.opened) <= 1
  BY DEF Plain
<1> QED
  BY <1>2, <1>3, <1>4, OpenedGrows DEF Plain

\* Of two tabs one is closed.
LEMMA OneOpen ==
    ASSUME OpenedInv, Plain, NEW t \in Tabs, NEW u \in Tabs, t # u, tab[t] # Closed
    PROVE  tab[u] = Closed
<1> SUFFICES ASSUME u \in trail.opened PROVE FALSE
  BY DEF OpenedInv
<1>1. t \in trail.opened /\ IsFiniteSet(trail.opened)
  BY DEF OpenedInv
<1>2. {t, u} \in SUBSET trail.opened
  BY <1>1
<1>3. Cardinality({t, u}) <= Cardinality(trail.opened)
  BY <1>1, <1>2, FS_Subset
<1>4. Cardinality({t, u}) = 2
  <2>1. IsFiniteSet({t}) /\ Cardinality({t}) = 1
    BY FS_Singleton
  <2>2. Cardinality({t} \cup {u}) = 1 + 1
    BY <2>1, FS_AddElement
  <2> QED
    BY <2>2
<1>5. Cardinality(trail.opened) \in Nat
  BY <1>1, FS_CardinalityType
<1> QED
  BY <1>3, <1>4, <1>5 DEF Plain

-----------------------------------------------------------------------------
(* What the tabs show                                                       *)

\* The agreement that is fixed after a step was fixed before, and is the same.
Kept == Fixed' => Fixed /\ lease'.snapshot = lease.snapshot

LEMMA ShownFrame ==
    ASSUME ShownInv, Kept, UNCHANGED tab
    PROVE  ShownInv'
BY DEF ShownInv, Kept, Faithful, Ok, Unanswered, NoRequest, NoTerms

\* Every step but the first preview keeps the agreement.
LEMMA StaffKeep ==
    ASSUME TypeOK, ConfInv, LeaseInv,
           Managed \/ Undo \/ \E s \in Staff : Confirms(s) \/ Commit(s)
    PROVE  Kept /\ UNCHANGED tab
<1>1. lease \in Leases /\ NoTerms' = NoTerms
  BY TypeParts DEF ServiceOK, NoTerms
<1> USE <1>1 DEF Kept, Fixed, Leases
<1>2. CASE Link \/ Activate
  BY <1>2 DEF Link, Activate, Manages, LeaseInv, Previewed
<1>3. CASE CorrectStart \/ CorrectMonths
  BY <1>3 DEF CorrectStart, CorrectMonths, Manages
<1>4. CASE LookAgain
  BY <1>4 DEF LookAgain, Manages, Previewed
<1>5. ASSUME NEW s \in Staff, Commit(s) PROVE Kept /\ UNCHANGED tab
  <2>1. conf[s].secures => lease.status = "payment_pending"
    BY DEF ConfInv
  <2> QED
    BY <1>5, <2>1 DEF Commit, Previewed
<1>6. CASE Undo \/ \E s \in Staff : Confirms(s)
  BY <1>6 DEF Undo, Confirms, Confirm
<1> QED
  BY <1>2, <1>3, <1>4, <1>5, <1>6 DEF Managed

\* A tab at rest shows the agreement, once it is fixed.
LEMMA PageFaithful == Fixed => Faithful(Page)
BY DEF Faithful, Page, Closed, NoRequest, Unanswered

LEMMA NotOnPage ==
    ASSUME NEW w, w = Closed \/ w = [Closed EXCEPT !.at = "invalid"]
    PROVE  Faithful(w)
BY DEF Faithful, Closed, NoRequest, Unanswered

\* The wizard of tab t goes to a faithful page while the lease stays.
LEMMA ShownGoes ==
    ASSUME TypeOK, ShownInv, NEW t \in Tabs, NEW w,
           tab' = [tab EXCEPT ![t] = w], UNCHANGED lease, Fixed => Faithful(w)
    PROVE  ShownInv'
<1>1. tab \in [Tabs -> Wizards]
  BY TypeParts DEF TabsOK
<1>2. \A u \in Tabs : tab'[u] = IF u = t THEN w ELSE tab[u]
  BY <1>1
<1>3. Fixed' = Fixed
  BY DEF Fixed, NoTerms
<1> QED
  BY <1>2, <1>3 DEF ShownInv, Faithful, Ok, Unanswered, NoRequest, NoTerms

LEMMA FaithfulAsks ==
    ASSUME TypeOK, NEW t \in Tabs, Faithful(tab[t]), Idle(t), Mounted(t),
           NEW what \in {"preview", "accept", "submit", "sign"}, NEW key
    PROVE  Faithful([tab[t] EXCEPT !.told = FALSE, !.key = key,
             !.request = [what |-> what, shown |-> tab[t].shown, key |-> key]])
<1> DEFINE r == [what |-> what, shown |-> tab[t].shown, key |-> key]
           w == [tab[t] EXCEPT !.told = FALSE, !.key = key, !.request = r]
<1>1. /\ w.request = r /\ w.shown = tab[t].shown
      /\ w.answer = tab[t].answer /\ w.at = tab[t].at
  BY TypeParts, TabTyped DEF Wizards
<1>2. tab[t].answer = Unanswered /\ tab[t].shown = lease.snapshot
  BY DEF Faithful, Idle, Mounted, NoRequest
<1>3. r.what = what /\ r.shown = tab[t].shown /\ r # NoRequest
  BY DEF NoRequest
<1> HIDE DEF w, r
<1>4. Faithful(w)
  BY <1>1, <1>2, <1>3 DEF Faithful
<1> QED
  BY <1>4 DEF w, r

LEMMA FaithfulMoves ==
    ASSUME TypeOK, NEW t \in Tabs, Faithful(tab[t]), Mounted(t), NEW step
    PROVE  Faithful([tab[t] EXCEPT !.at = step])
<1>1. tab[t] \in Wizards
  BY TypeParts, TabTyped
<1> QED
  BY <1>1 DEF Faithful, Mounted, Wizards

LEMMA ShownForward ==
    ASSUME TypeOK, ShownInv, NEW t \in Tabs, Forward(t)
    PROVE  ShownInv'
<1>1. UNCHANGED lease
  BY TabsAlone
<1>2. ASSUME NEW step, Mounted(t), GoesTo(t, step) PROVE ShownInv'
  <2>1. Fixed => Faithful([tab[t] EXCEPT !.at = step])
    BY <1>2, FaithfulMoves DEF ShownInv
  <2> QED
    BY <1>1, <1>2, <2>1, ShownGoes DEF GoesTo, Goes
<1>3. ASSUME NEW what \in {"preview", "accept", "submit", "sign"}, NEW key,
             Mounted(t), Idle(t), Asks(t, what, key)
      PROVE  ShownInv'
  <2>1. Fixed => Faithful([tab[t] EXCEPT !.told = FALSE, !.key = key,
                    !.request = [what |-> what, shown |-> tab[t].shown, key |-> key]])
    BY <1>3, FaithfulAsks DEF ShownInv
  <2> QED
    BY <1>1, <1>3, <2>1, ShownGoes DEF Asks, Goes
<1>4. CASE SeesLease(t) \/ ReadsAgreement(t) \/ SeesPayment(t) \/ GoesToSign(t)
  BY <1>2, <1>4 DEF SeesLease, ReadsAgreement, SeesPayment, GoesToSign, Mounted
<1>5. CASE AskPreview(t)
  BY <1>3, <1>5 DEF AskPreview, Mounted
<1>6. CASE AskAccept(t)
  BY <1>3, <1>6 DEF AskAccept, Mounted
<1>7. CASE AskSubmit(t)
  BY <1>3, <1>7 DEF AskSubmit, Mounted
<1>8. CASE AskSign(t)
  BY <1>3, <1>8 DEF AskSign, Mounted
<1> QED
  BY <1>4, <1>5, <1>6, <1>7, <1>8 DEF Forward

LEMMA ShownReads ==
    ASSUME TypeOK, ShownInv, NEW t \in Tabs, Open(t) \/ SeesSnapshot(t) \/ Return(t)
    PROVE  ShownInv'
<1>1. UNCHANGED lease
  BY TabsAlone
<1>2. CASE Open(t) \/ Return(t)
  BY <1>1, <1>2, PageFaithful, ShownGoes DEF Open, Return, Goes
<1>3. CASE SeesSnapshot(t)
  <2> DEFINE w == [tab[t] EXCEPT !.shown = lease.snapshot, !.document = FALSE]
  <2>1. tab[t] \in Wizards
    BY TypeParts, TabTyped
  <2>2. /\ w.request = tab[t].request /\ w.shown = lease.snapshot
        /\ w.answer = tab[t].answer /\ w.at = tab[t].at
    BY <2>1 DEF Wizards
  <2>3. tab' = [tab EXCEPT ![t] = w]
    BY <1>3 DEF SeesSnapshot, Goes
  <2> HIDE DEF w
  <2>4. Fixed => Faithful(w)
    BY <2>2 DEF ShownInv, Faithful
  <2> QED
    BY <1>1, <2>3, <2>4, ShownGoes
<1> QED
  BY <1>2, <1>3

LEMMA ShownHear ==
    ASSUME TypeOK, ShownInv, NEW t \in Tabs, Hear(t)
    PROVE  ShownInv'
<1>1. UNCHANGED lease
  BY TabsAlone
<1>2. PICK w : /\ tab' = [tab EXCEPT ![t] = w]
               /\ w.request = NoRequest /\ w.answer = Unanswered
               /\ w.shown = IF tab[t].answer # Refused /\ tab[t].request.what = "preview"
                            THEN tab[t].answer.terms ELSE tab[t].shown
  <2> DEFINE page == [tab[t] EXCEPT !.request = NoRequest, !.answer = Unanswered]
             what == tab[t].request.what
  <2>1. /\ page \in Wizards /\ page.request = NoRequest /\ page.answer = Unanswered
        /\ page.shown = tab[t].shown
    BY TypeParts, TabTyped DEF Wizards
  <2>2. CASE tab[t].answer = Refused
    <3> DEFINE w == [page EXCEPT !.told = TRUE]
    <3>1. w.request = NoRequest /\ w.answer = Unanswered /\ w.shown = tab[t].shown
      BY <2>1 DEF Wizards
    <3>2. tab' = [tab EXCEPT ![t] = w]
      BY <2>2 DEF Hear, Goes
    <3> QED
      BY <2>2, <3>1, <3>2
  <2>3. CASE tab[t].answer # Refused /\ what = "preview"
    <3> DEFINE w == [page EXCEPT !.shown = tab[t].answer.terms, !.document = TRUE]
    <3>1. w.request = NoRequest /\ w.answer = Unanswered /\ w.shown = tab[t].answer.terms
      BY <2>1 DEF Wizards
    <3>2. tab' = [tab EXCEPT ![t] = w]
      BY <2>3 DEF Hear, Goes
    <3> QED
      BY <2>3, <3>1, <3>2
  <2>4. CASE tab[t].answer # Refused /\ what # "preview"
    <3>1. PICK step : tab' = [tab EXCEPT ![t] = [page EXCEPT !.key = 0, !.at = step]]
      BY <2>4 DEF Hear, Goes
    <3> DEFINE w == [page EXCEPT !.key = 0, !.at = step]
    <3>2. w.request = NoRequest /\ w.answer = Unanswered /\ w.shown = tab[t].shown
      BY <2>1 DEF Wizards
    <3> QED
      BY <2>4, <3>1, <3>2
  <2> QED
    BY <2>2, <2>3, <2>4
<1>3. ASSUME Fixed PROVE Faithful(w)
  <2>1. Faithful(tab[t]) /\ tab[t].request # NoRequest /\ tab[t].answer # Unanswered
    BY <1>3 DEF ShownInv, Hear, Idle
  <2>2. Ok(lease.snapshot) # Refused /\ Ok(lease.snapshot).terms = lease.snapshot
    BY DEF Ok, Refused
  <2>3. w.shown = lease.snapshot
    BY <1>2, <2>1, <2>2 DEF Faithful
  <2> QED
    BY <1>2, <2>3 DEF Faithful, NoRequest
<1> QED
  BY <1>1, <1>2, <1>3, ShownGoes

LEMMA ShownAstray ==
    ASSUME TypeOK, ShownInv, NEW t \in Tabs, Astray(t), ~ trail'.astray
    PROVE  ShownInv'
<1>1. UNCHANGED lease
  BY TabsAlone
<1>2. trail \in Trails /\ tab \in [Tabs -> Wizards] /\ tab[t] \in Wizards
  BY TypeParts, TabTyped DEF ServiceOK, TabsOK
<1>3. ~ Fail(t)
  BY <1>2 DEF Fail, Abandons, Trails
<1>4. CASE LosesPage(t)
  BY <1>1, <1>4, NotOnPage, ShownGoes DEF LosesPage
<1>5. CASE Reload(t)
  BY <1>1, <1>5, PageFaithful, ShownGoes DEF Reload
<1>6. CASE Back(t)
  <2>1. PICK step : tab' = [tab EXCEPT ![t].at = step, ![t].key = 0, ![t].told = FALSE]
    BY <1>6 DEF Back
  <2> DEFINE w == [[[tab[t] EXCEPT !.at = step] EXCEPT !.key = 0] EXCEPT !.told = FALSE]
  <2>2. tab' = [tab EXCEPT ![t] = w]
    BY <1>2, <2>1
  <2>3. w.request = tab[t].request /\ w.shown = tab[t].shown /\ w.answer = tab[t].answer
    BY <1>2 DEF Wizards
  <2>4. Idle(t) /\ Mounted(t)
    BY <1>6 DEF Back, Mounted
  <2> HIDE DEF w
  <2>5. Fixed => Faithful(w)
    BY <2>3, <2>4 DEF ShownInv, Faithful, Idle, Mounted
  <2> QED
    BY <1>1, <2>2, <2>5, ShownGoes
<1> QED
  BY <1>3, <1>4, <1>5, <1>6 DEF Astray

\* Only a preview fixes the agreement, and its answer says which it is.
LEMMA HandleKeeps ==
    ASSUME TypeOK, LeaseInv, NEW r \in Requests, NEW answer, Handle(r, answer)
    PROVE  /\ Kept \/ r.what = "preview"
           /\ r.what = "preview" /\ Fixed' => answer = Ok(lease'.snapshot)
<1>1. lease \in Leases /\ NoTerms' = NoTerms
  BY TypeParts DEF ServiceOK, NoTerms
<1> USE <1>1 DEF Kept, Fixed, Leases, Refuse, Previewed, Accepted
<1>2. CASE r.what = "preview" /\ Preview(answer)
  BY <1>2 DEF Preview
<1>3. CASE r.what = "accept" /\ Accept(r, answer)
  BY <1>3 DEF Accept
<1>4. CASE r.what = "submit" /\ Submit(r, answer)
  BY <1>4 DEF Submit
<1>5. CASE r.what = "sign" /\ SignAgreement(r, answer)
  BY <1>5 DEF SignAgreement
<1> QED
  BY <1>2, <1>3, <1>4, <1>5 DEF Handle

LEMMA ShownServe ==
    ASSUME TypeOK, LeaseInv, OpenedInv, Plain, ShownInv, NEW t \in Tabs, Serve(t)
    PROVE  ShownInv'
<1>1. /\ tab \in [Tabs -> Wizards] /\ tab[t] \in Wizards
      /\ tab[t].request \in Requests /\ tab[t].request # NoRequest
  BY TypeParts, TabTyped DEF TabsOK, Serve, Idle
<1>2. PICK answer \in Answers :
        Handle(tab[t].request, answer) /\ tab' = [tab EXCEPT ![t].answer = answer]
  BY DEF Serve
<1>3. /\ tab'[t].request = tab[t].request /\ tab'[t].shown = tab[t].shown
      /\ tab'[t].answer = answer
  BY <1>1, <1>2 DEF Wizards
<1>4. /\ Kept \/ tab[t].request.what = "preview"
      /\ tab[t].request.what = "preview" /\ Fixed' => answer = Ok(lease'.snapshot)
  BY <1>1, <1>2, HandleKeeps
<1>5. answer # Unanswered
  BY DEF Answers, Unanswered
<1>6. ASSUME Fixed' PROVE Faithful(tab[t])'
  <2>1. CASE tab[t].request.what = "preview"
    BY <1>1, <1>3, <1>4, <1>5, <1>6, <2>1 DEF Faithful, Ok, Unanswered, NoRequest, NoTerms
  <2>2. CASE tab[t].request.what # "preview"
    <3>1. Faithful(tab[t]) /\ lease'.snapshot = lease.snapshot
      BY <1>4, <1>6, <2>2 DEF Kept, ShownInv
    <3> QED
      BY <1>1, <1>3, <2>2, <3>1 DEF Faithful, Ok, Unanswered, NoRequest, NoTerms
  <2> QED
    BY <2>1, <2>2
<1>7. ASSUME Fixed', NEW u \in Tabs \ {t} PROVE Faithful(tab[u])'
  <2>1. tab[t] # Closed
    BY <1>1 DEF Closed
  <2>2. tab[u] = Closed
    BY <2>1, OneOpen
  <2>3. tab'[u] = Closed
    BY <1>1, <1>2, <2>2
  <2> QED
    BY <2>3 DEF Faithful, Closed, NoRequest, Unanswered, NoTerms
<1> QED
  BY <1>6, <1>7 DEF ShownInv

LEMMA NothingLate ==
    ASSUME OpenedInv, Plain
    PROVE  ~ ServeLate
BY DEF OpenedInv, Plain, ServeLate

LEMMA ShownStep ==
    ASSUME TypeOK, ConfInv, LeaseInv, OpenedInv, ShownInv, Next, Plain'
    PROVE  ShownInv'
<1>1. Plain /\ ~ trail'.astray
  BY PlainBefore DEF Plain
<1>2. CASE \E t \in Tabs : Serve(t)
  BY <1>1, <1>2, ShownServe
<1>3. CASE Managed \/ Undo \/ \E s \in Staff : Confirms(s) \/ Commit(s)
  BY <1>3, StaffKeep, ShownFrame
<1> QED
  BY <1>1, <1>2, <1>3, ShownForward, ShownReads, ShownHear, ShownAstray, NothingLate,
     NextCases

-----------------------------------------------------------------------------
(* What is agreed and paid                                                  *)

\* A request that is served was made with what is fixed.
LEMMA ServedFaithfully ==
    ASSUME TypeOK, OpenedInv, Plain, ShownInv, (\E t \in Tabs : Serve(t)) \/ ServeLate
    PROVE  \E r \in Requests, answer \in Answers :
             /\ Handle(r, answer) /\ UNCHANGED conf
             /\ Fixed /\ r.what # "preview" => r.shown = lease.snapshot
<1>1. PICK t \in Tabs : Serve(t)
  BY NothingLate
<1>2. tab[t].request \in Requests /\ \E answer \in Answers : Handle(tab[t].request, answer)
  BY <1>1, TypeParts, TabTyped DEF Serve, Idle
<1>3. tab[t].request.what # "none"
  BY <1>2 DEF Requests
<1> QED
  BY <1>1, <1>2, <1>3 DEF Serve, ShownInv, Faithful

LEMMA AgreedHandle ==
    ASSUME TypeOK, LeaseInv, AgreedInv, NEW r \in Requests, NEW answer, Handle(r, answer),
           Fixed /\ r.what # "preview" => r.shown = lease.snapshot
    PROVE  AgreedInv'
<1>1. lease \in Leases /\ trail \in Trails /\ NoTerms' = NoTerms
  BY TypeParts DEF ServiceOK, NoTerms
<1> USE <1>1 DEF AgreedInv, LeaseInv, Fixed, Leases, Trails, Refuse, Previewed, Accepted
<1>2. CASE r.what = "preview" /\ Preview(answer)
  BY <1>2 DEF Preview
<1>3. CASE r.what = "accept" /\ Accept(r, answer)
  BY <1>3 DEF Accept
<1>4. CASE r.what = "submit" /\ Submit(r, answer)
  BY <1>4 DEF Submit
<1>5. CASE r.what = "sign" /\ SignAgreement(r, answer)
  BY <1>5 DEF SignAgreement
<1> QED
  BY <1>2, <1>3, <1>4, <1>5 DEF Handle

\* Outside the service nobody touches what was agreed and signed.
LEMMA AgreedElsewhere ==
    ASSUME TypeOK, Next, ~ ServeLate, \A t \in Tabs : ~ Serve(t)
    PROVE  trail'.agreed = trail.agreed /\ trail'.signed = trail.signed
<1>1. trail \in Trails
  BY TypeParts DEF ServiceOK
<1>2. ASSUME NEW t \in Tabs, Open(t) \/ Astray(t)
      PROVE  trail'.agreed = trail.agreed /\ trail'.signed = trail.signed
  BY <1>1, <1>2 DEF Open, Astray, Fail, LosesPage, Reload, Back, Abandons, Trails
<1>3. CASE Managed \/ Undo \/ \E s \in Staff : Confirms(s) \/ Commit(s)
  BY <1>3 DEF Managed, Link, Activate, CorrectStart, CorrectMonths, LookAgain, Manages,
              Undo, Confirms, Confirm, Commit
<1> QED
  BY <1>2, <1>3, TrailKept, NextCases

\* The terms asked for at onboarding stay the same.
DueKept == lease'.snapshot = lease.snapshot /\ lease'.deposit = lease.deposit

\* After the acceptance nobody changes them.
LEMMA AcceptedKept ==
    ASSUME TypeOK, LeaseInv, Next, lease.accepted
    PROVE  DueKept /\ lease'.accepted
<1>1. lease \in Leases /\ lease.status \in Accepted
  BY TypeParts DEF ServiceOK, LeaseInv
<1> USE <1>1 DEF DueKept, Leases, Accepted, Previewed
<1>2. CASE \E t \in Tabs : Open(t) \/ SeesSnapshot(t) \/ Return(t)
                         \/ Forward(t) \/ Hear(t) \/ Astray(t)
  BY <1>2, TabsAlone
<1>3. ASSUME NEW r, NEW answer, Handle(r, answer) PROVE DueKept /\ lease'.accepted
  BY <1>3 DEF Handle, Preview, Accept, Submit, SignAgreement, Refuse
<1>4. CASE Managed
  BY <1>4 DEF Managed, Link, Activate, CorrectStart, CorrectMonths, LookAgain
<1>5. CASE Undo \/ \E s \in Staff : Confirms(s) \/ Commit(s)
  BY <1>5 DEF Undo, Confirms, Confirm, Commit
<1> QED
  BY <1>2, <1>3, <1>4, <1>5, Served, NextCases

\* Only accept_terms accepts.
LEMMA AcceptsAlone ==
    ASSUME TypeOK, Next, ~ ServeLate, \A t \in Tabs : ~ Serve(t)
    PROVE  lease'.accepted = lease.accepted
<1>1. lease \in Leases
  BY TypeParts DEF ServiceOK
<1>2. CASE Managed
  BY <1>1, <1>2 DEF Managed, Link, Activate, CorrectStart, CorrectMonths, LookAgain, Leases
<1>3. CASE Undo \/ \E s \in Staff : Confirms(s) \/ Commit(s)
  BY <1>1, <1>3 DEF Undo, Confirms, Confirm, Commit, Leases
<1> QED
  BY <1>2, <1>3, TabsAlone, NextCases

LEMMA AgreedStep ==
    ASSUME TypeOK, LeaseInv, OpenedInv, Plain, ShownInv, AgreedInv, Next
    PROVE  AgreedInv'
<1>1. CASE ServeLate \/ \E t \in Tabs : Serve(t)
  BY <1>1, ServedFaithfully, AgreedHandle
<1>2. CASE ~ ServeLate /\ \A t \in Tabs : ~ Serve(t)
  BY <1>2, AgreedElsewhere, AcceptsAlone, AcceptedKept DEF AgreedInv, DueKept, NoTerms
<1> QED
  BY <1>1, <1>2

\* A payment asked for stays so, and money received is not forgotten.
MoneyKept ==
  \A p \in Payments :
    /\ pay[p] # "none" => pay'[p] # "none"
    /\ pay[p] \in {"settled", "returned"} => pay'[p] \in {"settled", "returned"}

LEMMA MoneyStep == ASSUME TypeOK, ConfInv, Next PROVE MoneyKept
<1>1. pay \in Ledger
  BY TypeParts DEF ServiceOK
<1>2. CASE UNCHANGED pay
  BY <1>2 DEF MoneyKept
<1>3. ASSUME NEW r, NEW answer, Handle(r, answer) PROVE MoneyKept
  BY <1>2, <1>3 DEF MoneyKept, Handle, Preview, Accept, Submit, SignAgreement, Refuse
<1>4. CASE Managed \/ \E s \in Staff : Confirms(s)
  BY <1>2, <1>4 DEF Managed, Link, Activate, CorrectStart, CorrectMonths, LookAgain, Manages,
                    Confirms, Confirm
<1>5. CASE Undo \/ \E s \in Staff : Commit(s)
  BY <1>1, <1>5 DEF Undo, Commit, MoneyKept, Ledger
<1> QED
  BY <1>2, <1>3, <1>4, <1>5, TabsAlone, Served, NextCases

LEMMA OwedItems == ASSUME NEW k \in Keys, NEW item \in Owed PROVE <<k, item>> \in Payments
BY DEF Owed, Due, Payments

LEMMA SameOwed == DueKept => Owed' = Owed
BY DEF DueKept, Owed, Due

LEMMA AskedFrame ==
    ASSUME AskedInv, MoneyKept, lease.accepted => DueKept, Paying' => Paying
    PROVE  AskedInv'
<1> SUFFICES ASSUME Paying'
             PROVE  \E k \in Keys : \A item \in Owed' : pay'[<<k, item>>] # "none"
  BY DEF AskedInv
<1>1. Owed' = Owed
  BY SameOwed DEF Paying
<1>2. PICK k \in Keys : \A item \in Owed : pay[<<k, item>>] # "none"
  BY DEF AskedInv
<1> QED
  BY <1>1, <1>2, OwedItems DEF MoneyKept

LEMMA SecuredFrame ==
    ASSUME SecuredInv, MoneyKept, lease.accepted => DueKept, Paying' => Paying,
           Paying' /\ lease.status = "payment_pending" => lease'.status = "payment_pending"
    PROVE  SecuredInv'
<1> SUFFICES ASSUME Paying', lease'.status # "payment_pending", NEW item \in Owed'
             PROVE  \E k \in Keys : pay'[<<k, item>>] \in {"settled", "returned"}
  BY DEF SecuredInv
<1>1. item \in Owed
  BY SameOwed DEF Paying
<1>2. PICK k \in Keys : pay[<<k, item>>] \in {"settled", "returned"}
  BY <1>1 DEF SecuredInv
<1> QED
  BY <1>1, <1>2, OwedItems DEF MoneyKept

LEMMA SecuringFrame ==
    ASSUME ConfInv, LeaseInv, SecuringInv, MoneyKept, lease.accepted => DueKept,
           NEW s \in Staff, conf[s].secures, NEW item \in Owed'
    PROVE  \E k \in Keys : \/ pay'[<<k, item>>] \in {"settled", "returned"}
                           \/ <<k, item>> \in conf[s].of
<1>1. item \in Owed
  BY SameOwed DEF ConfInv, LeaseInv
<1>2. PICK k \in Keys : \/ pay[<<k, item>>] \in {"settled", "returned"}
                        \/ <<k, item>> \in conf[s].of
  BY <1>1 DEF SecuringInv
<1> QED
  BY <1>1, <1>2, OwedItems DEF MoneyKept

\* A step that neither asks for payments, nor looks at them, nor confirms.
LEMMA PaidFrame ==
    ASSUME ConfInv, LeaseInv, PaidInv, MoneyKept, lease.accepted => DueKept, UNCHANGED conf,
           Paying' => Paying /\ (lease.status = "payment_pending" =>
                                   lease'.status = "payment_pending")
    PROVE  PaidInv'
<1>1. AskedInv' /\ SecuredInv'
  BY AskedFrame, SecuredFrame DEF PaidInv
<1>2. SecuringInv'
  BY SecuringFrame DEF PaidInv, SecuringInv
<1> QED
  BY <1>1, <1>2 DEF PaidInv

\* A request for everything the agreement asks for.
LEMMA PaidSubmit ==
    ASSUME TypeOK, ConfInv, LeaseInv, PaidInv, MoneyKept, lease.accepted => DueKept,
           UNCHANGED conf, NEW r \in Requests, NEW answer,
           r.what = "submit", Submit(r, answer), ~ Refuse(answer),
           Fixed => r.shown = lease.snapshot
    PROVE  PaidInv'
<1>1. /\ lease \in Leases /\ r.key \in Keys
      /\ lease.status \in {"terms_accepted", "payment_pending"}
  BY TypeParts DEF ServiceOK, Requests, Submit
<1>2. lease.accepted /\ r.shown = lease.snapshot
  BY <1>1 DEF LeaseInv, Fixed, Accepted, Previewed
<1>3. Owed' = Owed /\ Due(r.shown) = Owed
  BY <1>2, SameOwed DEF Owed
<1>4. \A item \in Owed : pay'[<<r.key, item>>] # "none" /\ <<r.key, item>> \in Payments
  <2>1. PICK instant \in BOOLEAN :
          pay' = [p \in Payments |->
                    IF p \in {r.key} \X Due(r.shown) /\ pay[p] = "none"
                    THEN IF instant THEN "settled" ELSE "pending"
                    ELSE pay[p]]
    BY DEF Submit
  <2>2. ASSUME NEW item \in Owed
        PROVE  <<r.key, item>> \in Payments /\ <<r.key, item>> \in {r.key} \X Due(r.shown)
    BY <1>1, <1>3, <2>2, OwedItems
  <2> QED
    BY <2>1, <2>2
<1>5. lease' = [lease EXCEPT !.status =
                  IF AllSettled(pay') THEN "payment_secured" ELSE "payment_pending"]
  BY DEF Submit
<1>6. AskedInv'
  BY <1>1, <1>3, <1>4 DEF AskedInv
<1>7. SecuredInv'
  <2>1. CASE AllSettled(pay')
    BY <1>1, <1>3, <1>4, <2>1 DEF SecuredInv, AllSettled
  <2>2. CASE ~ AllSettled(pay')
    BY <1>1, <1>5, <2>2 DEF SecuredInv, Leases
  <2> QED
    BY <2>1, <2>2
<1>8. SecuringInv'
  BY SecuringFrame DEF PaidInv, SecuringInv
<1> QED
  BY <1>6, <1>7, <1>8 DEF PaidInv

LEMMA PaidHandle ==
    ASSUME TypeOK, ConfInv, LeaseInv, PaidInv, MoneyKept, lease.accepted => DueKept,
           UNCHANGED conf, NEW r \in Requests, NEW answer, Handle(r, answer),
           Fixed /\ r.what # "preview" => r.shown = lease.snapshot
    PROVE  PaidInv'
<1>1. lease \in Leases
  BY TypeParts DEF ServiceOK
<1>2. CASE Refuse(answer) /\ UNCHANGED lease
  BY <1>2, PaidFrame DEF Paying
<1> USE <1>1 DEF Paying, LeaseInv, Leases, Refuse, Previewed, Accepted
<1>3. CASE Preview(answer)
  BY <1>3, PaidFrame DEF Preview
<1>4. CASE Accept(r, answer)
  BY <1>4, PaidFrame DEF Accept
<1>5. CASE SignAgreement(r, answer)
  BY <1>5, PaidFrame DEF SignAgreement
<1>6. CASE r.what = "submit" /\ Submit(r, answer)
  BY <1>2, <1>6, PaidSubmit
<1> QED
  BY <1>3, <1>4, <1>5, <1>6 DEF Handle

LEMMA PaidManaged ==
    ASSUME TypeOK, ConfInv, LeaseInv, PaidInv, MoneyKept, lease.accepted => DueKept, Managed
    PROVE  PaidInv'
<1>1. lease \in Leases /\ UNCHANGED <<conf, pay>>
  BY TypeParts DEF ServiceOK, Managed, Link, Activate, CorrectStart, CorrectMonths,
                   LookAgain, Manages
<1>2. CASE LookAgain
  <2>1. Paying /\ Paying' /\ Owed' = Owed
    BY <1>1, <1>2, SameOwed DEF LookAgain, Paying, LeaseInv, Leases
  <2>2. AskedInv' /\ SecuringInv'
    BY <1>1, <2>1, AskedFrame, SecuringFrame DEF PaidInv, SecuringInv
  <2>3. PICK k \in Keys : \A item \in Owed : pay[<<k, item>>] # "none"
    BY <2>1 DEF PaidInv, AskedInv
  <2>4. \A item \in Owed : pay[<<k, item>>] = "settled"
    BY <1>2, <2>3, OwedItems DEF LookAgain, AllSettled
  <2>5. SecuredInv'
    BY <1>1, <2>1, <2>4 DEF SecuredInv
  <2> QED
    BY <2>2, <2>5 DEF PaidInv
<1> USE <1>1 DEF Paying, LeaseInv, Leases, Accepted, Previewed
<1>3. CASE Link \/ Activate
  BY <1>3, PaidFrame DEF Link, Activate
<1>4. CASE CorrectStart \/ CorrectMonths
  BY <1>4, PaidFrame DEF CorrectStart, CorrectMonths
<1> QED
  BY <1>2, <1>3, <1>4 DEF Managed

\* A confirmation that finds everything else settled holds what is missing.
LEMMA PaidConfirm ==
    ASSUME TypeOK, ConfInv, LeaseInv, PaidInv, MoneyKept,
           NEW s \in Staff, NEW these \in SUBSET Payments, Confirm(s, these)
    PROVE  PaidInv'
<1>1. conf \in [Staff -> [of : SUBSET Payments, secures : BOOLEAN]] /\ UNCHANGED <<lease, pay>>
  BY TypeParts DEF StaffOK, Confirm
<1>2. DueKept /\ Paying' = Paying /\ Owed' = Owed
  BY <1>1, SameOwed DEF DueKept, Paying
<1>3. AskedInv' /\ SecuredInv'
  BY <1>1, <1>2, AskedFrame, SecuredFrame DEF PaidInv
<1>4. /\ \A u \in Staff \ {s} : conf'[u] = conf[u]
      /\ conf'[s].of = these
      /\ conf'[s].secures => /\ lease.status = "payment_pending"
                             /\ \A p \in Asked \ these : pay[p] = "settled"
  BY <1>1 DEF Confirm
<1>5. ASSUME NEW u \in Staff \ {s}, conf'[u].secures, NEW item \in Owed'
      PROVE  \E k \in Keys : \/ pay'[<<k, item>>] \in {"settled", "returned"}
                             \/ <<k, item>> \in conf'[u].of
  BY <1>2, <1>4, <1>5, SecuringFrame DEF PaidInv
<1>6. ASSUME conf'[s].secures, NEW item \in Owed'
      PROVE  \E k \in Keys : \/ pay'[<<k, item>>] \in {"settled", "returned"}
                             \/ <<k, item>> \in conf'[s].of
  <2>1. Paying
    BY <1>4, <1>6 DEF LeaseInv, Paying
  <2>2. PICK k \in Keys : pay[<<k, item>>] # "none"
    BY <1>2, <1>6, <2>1 DEF PaidInv, AskedInv
  <2>3. <<k, item>> \in Asked
    BY <1>2, <1>6, <2>2, OwedItems DEF Asked
  <2> QED
    BY <1>1, <1>4, <1>6, <2>3
<1>7. SecuringInv'
  BY <1>5, <1>6 DEF SecuringInv
<1> QED
  BY <1>3, <1>7 DEF PaidInv

LEMMA PaidCommit ==
    ASSUME TypeOK, ConfInv, LeaseInv, PaidInv, MoneyKept, lease.accepted => DueKept,
           NEW s \in Staff, Commit(s)
    PROVE  PaidInv'
<1>1. /\ conf \in [Staff -> [of : SUBSET Payments, secures : BOOLEAN]] /\ lease \in Leases
      /\ conf[s].secures => lease.status = "payment_pending" /\ lease.accepted
  BY TypeParts DEF StaffOK, ServiceOK, ConfInv, LeaseInv
<1>2. Paying' => Paying
  BY <1>1 DEF Commit, Paying, Leases
<1>3. AskedInv'
  BY <1>2, AskedFrame DEF PaidInv
<1>4. conf'[s] = NoConf /\ \A u \in Staff \ {s} : conf'[u] = conf[u]
  BY <1>1 DEF Commit
<1>5. SecuringInv'
  BY <1>4, SecuringFrame DEF PaidInv, SecuringInv, NoConf
<1>6. CASE ~ conf[s].secures
  BY <1>2, <1>3, <1>5, <1>6, SecuredFrame DEF Commit, PaidInv
<1>7. CASE conf[s].secures
  <2>1. ASSUME NEW item \in Owed'
        PROVE  \E k \in Keys : pay'[<<k, item>>] \in {"settled", "returned"}
    <3>1. PICK k \in Keys : \/ pay'[<<k, item>>] \in {"settled", "returned"}
                            \/ <<k, item>> \in conf[s].of
      BY <1>7, <2>1, SecuringFrame DEF PaidInv
    <3>2. <<k, item>> \in conf[s].of => pay'[<<k, item>>] = "settled"
      BY <1>1 DEF Commit
    <3> QED
      BY <3>1, <3>2
  <2> QED
    BY <1>3, <1>5, <2>1 DEF PaidInv, SecuredInv
<1> QED
  BY <1>6, <1>7

LEMMA PaidStep ==
    ASSUME TypeOK, ConfInv, LeaseInv, OpenedInv, Plain, ShownInv, PaidInv, Next
    PROVE  PaidInv'
<1>1. MoneyKept /\ (lease.accepted => DueKept)
  BY MoneyStep, AcceptedKept
<1>2. CASE \E t \in Tabs : Open(t) \/ SeesSnapshot(t) \/ Return(t)
                         \/ Forward(t) \/ Hear(t) \/ Astray(t)
  BY <1>1, <1>2, TabsAlone, PaidFrame DEF Paying
<1>3. CASE ServeLate \/ \E t \in Tabs : Serve(t)
  BY <1>1, <1>3, ServedFaithfully, PaidHandle
<1>4. CASE Undo
  BY <1>1, <1>4, PaidFrame DEF Undo, Paying
<1>5. CASE Managed \/ \E s \in Staff : Confirms(s) \/ Commit(s)
  BY <1>1, <1>5, PaidManaged, PaidConfirm, PaidCommit DEF Confirms
<1> QED
  BY <1>2, <1>3, <1>4, <1>5, NextCases

-----------------------------------------------------------------------------
(* The theorems                                                             *)

LEMMA AgreementInit == Init => AgreementInv
<1> SUFFICES ASSUME Init PROVE AgreementInv
  OBVIOUS
<1>1. lease.status = "none" /\ lease.snapshot = NoTerms /\ ~ lease.accepted
  BY DEF Init
<1>2. trail.opened = {} /\ trail.signed = NoTerms /\ late = {}
      /\ \A t \in Tabs : tab[t] = Closed
  BY DEF Init
<1>3. LeaseInv /\ ~ Fixed /\ ~ Paying
  BY <1>1 DEF LeaseInv, Fixed, Paying, Previewed
<1>4. OpenedInv
  BY <1>2, FS_EmptySet DEF OpenedInv
<1>5. \A s \in Staff : ~ conf[s].secures
  BY DEF Init, NoConf
<1>6. ShownInv /\ AgreedInv /\ PaidInv
  BY <1>1, <1>2, <1>3, <1>5
     DEF ShownInv, AgreedInv, PaidInv, AskedInv, SecuringInv, SecuredInv
<1> QED
  BY <1>3, <1>4, <1>6, TypeInit, ConfInit DEF AgreementInv

LEMMA AgreementStep == AgreementInv /\ [Next]_vars => AgreementInv'
<1> SUFFICES ASSUME AgreementInv, [Next]_vars PROVE AgreementInv'
  OBVIOUS
<1>1. CASE UNCHANGED vars
  <2>1. /\ TypeOK' /\ ConfInv'
    BY TypeStep, ConfStep DEF AgreementInv
  <2>2. LeaseInv' /\ OpenedInv' /\ Plain' = Plain
    BY <1>1 DEF AgreementInv, vars, LeaseInv, OpenedInv, Plain, NoTerms, Closed, NoRequest,
                Unanswered
  <2>3. ShownInv => ShownInv'
    BY <1>1, ShownFrame DEF vars, Kept, Fixed, NoTerms
  <2>4. AgreedInv => AgreedInv'
    BY <1>1 DEF vars, AgreedInv, NoTerms
  <2>5. PaidInv => PaidInv'
    BY <1>1, PaidFrame DEF AgreementInv, vars, MoneyKept, DueKept, Paying
  <2> QED
    BY <2>1, <2>2, <2>3, <2>4, <2>5 DEF AgreementInv
<1>2. CASE Next
  <2>1. TypeOK' /\ ConfInv' /\ LeaseInv' /\ OpenedInv'
    BY <1>2, TypeStep, ConfStep, LeaseStep, OpenedStep DEF AgreementInv
  <2>2. ASSUME Plain' PROVE ShownInv' /\ AgreedInv' /\ PaidInv'
    <3>1. Plain
      BY <1>2, <2>2, PlainBefore DEF AgreementInv
    <3> QED
      BY <1>2, <2>2, <3>1, ShownStep, AgreedStep, PaidStep DEF AgreementInv
  <2> QED
    BY <2>1, <2>2 DEF AgreementInv
<1> QED
  BY <1>1, <1>2

LEMMA AgreementHolds == Spec => []AgreementInv
BY AgreementInit, AgreementStep, PTL DEF Spec

\* What the tenant signs in the one tab that hears its answers is what was
\* accepted there and what the lease keeps (FinalSignatureStep, accept_terms).
THEOREM SignsWhatWasAccepted == Spec => []SignedAsAccepted
<1>1. AgreementInv => SignedAsAccepted
  BY DEF AgreementInv, AgreedInv, SignedAsAccepted
<1> QED
  BY <1>1, AgreementHolds, PTL

\* With one tab that hears its answers a unit is secured by all the money its
\* agreement asks for, though the client names the amounts and confirmations
\* overlap (submit_onboarding_payments, _maybe_secure_payment).
THEOREM SecuresWhatWasPaid == Spec => []SecuredIsPaid
<1>1. AgreementInv => SecuredIsPaid
  BY DEF AgreementInv, PaidInv, SecuredInv, Paying, Owed, SecuredIsPaid
<1> QED
  BY <1>1, AgreementHolds, PTL

-----------------------------------------------------------------------------
(* The organisation's plan                                                  *)

PlanProofs == INSTANCE SubscriptionsProofs WITH Free <- free, Paid <- {basic, pro}, Proofs <- 1..3

\* A behaviour of the journeys is one of Subscriptions, whichever journey it takes.
LEMMA JourneyHasPlan == JSpec => PlanProofs!Spec
<1>1. JInit => PlanProofs!Init
  BY DEF JInit, Plan!Init, PlanProofs!Init, Plan!None, PlanProofs!None
<1>2. [JNext]_all => [PlanProofs!Next]_(PlanProofs!vars)
  <2>1. ASSUME UNCHANGED planVars PROVE UNCHANGED PlanProofs!vars
    BY <2>1 DEF planVars, PlanProofs!vars
  <2>2. ASSUME Plan!Next PROVE PlanProofs!Next
    BY <2>2 DEF Plan!Next, PlanProofs!Next, Plan!Plans, PlanProofs!Plans,
       Plan!SelectPlan, PlanProofs!SelectPlan, Plan!SubmitPayment, PlanProofs!SubmitPayment,
       Plan!VerifyPayment, PlanProofs!VerifyPayment, Plan!RejectPayment, PlanProofs!RejectPayment,
       Plan!CancelSubscription, PlanProofs!CancelSubscription,
       Plan!SuspendSubscription, PlanProofs!SuspendSubscription,
       Plan!ExtendSubscription, PlanProofs!ExtendSubscription, Plan!Crosses, PlanProofs!Crosses
  <2>3. ASSUME UNCHANGED all PROVE UNCHANGED planVars
    BY <2>3 DEF all
  <2> QED
    BY <2>1, <2>2, <2>3 DEF JNext
<1> QED
  BY <1>1, <1>2, PTL DEF JSpec, PlanProofs!Spec

\* In every journey a paid plan is active only when a payment for it was verified,
\* unless another plan was asked for beside a pending payment or the admin
\* extended the subscription: ActivePlansArePaid, carried over to the run.
THEOREM JourneyPlansArePaid ==
  ASSUME free \notin {basic, pro}
  PROVE  JSpec => []ActivePlanWasPaid
<1>1. PlanProofs!Spec => []PlanProofs!ActivePlanWasPaid
  BY PlanProofs!ActivePlansArePaid
<1>2. PlanProofs!ActivePlanWasPaid => ActivePlanWasPaid
  BY DEF PlanProofs!ActivePlanWasPaid, ActivePlanWasPaid, Plan!ActivePlanWasPaid
<1> QED
  BY <1>1, <1>2, JourneyHasPlan, PTL
=============================================================================
