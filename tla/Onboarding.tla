----------------------------- MODULE Onboarding -----------------------------
(***************************************************************************)
(* An approved tenant's way to an active lease: the onboarding wizard, in  *)
(* one or more tabs, and the service behind it.  A request of the wizard   *)
(* is one transaction.  It, or its answer, may be lost, and it may be      *)
(* served after the tab was told that it failed (the proxy gives up after  *)
(* 10 s).  A confirmation by the staff reads first and commits later.      *)
(* Filling in the profile and the code sent by e-mail are left out.        *)
(***************************************************************************)
EXTENDS Naturals, FiniteSets

CONSTANTS
  Tabs,     \* where the tenant may open the link
  Staff,    \* who may confirm payments at the same time
  Starts,   \* start dates: numbers from 1
  Months,   \* months of rent in advance, 0 among them
  Drafts,   \* leases as they are drawn up
  Keys,     \* the idempotency keys of mounted payment steps: 1..bound
  Scopes    \* bounds, one of which a behaviour keeps to: the tabs it uses, how
            \* often something goes astray, and how often the staff correct
            \* the lease

ASSUME OnboardingAssumption ==
  /\ Keys \subseteq Nat \ {0} /\ Starts \subseteq Nat \ {0} /\ Months \subseteq Nat
  /\ Drafts \subseteq [start : Starts, months : Months, deposit : BOOLEAN]
  /\ \A bound \in Scopes :
       bound.tabs \subseteq Tabs /\ bound.troubles \in Nat /\ bound.fixes \in Nat

VARIABLES
  tenant,   \* approved, or activated by an earlier lease or by this one
  lease,    \* the lease and the agreement kept for it
  pay,      \* each payment, by idempotency key and category
  tab,      \* the wizard in each tab
  late,     \* requests on their way that no tab waits for
  conf,     \* the confirmation each member of staff has under way
  troubles, fixes, scope,
  trail     \* history: what was shown where terms were accepted and signed,
            \* the tabs that were opened, and whether a request went astray

vars == <<tenant, lease, pay, tab, late, conf, troubles, fixes, scope, trail>>
counts == <<fixes, scope>>

Terms == [start : Starts, months : Months]
NoTerms == [start |-> 0, months |-> 0]
Agreements == Terms \cup {NoTerms}
Payments == Keys \X {"deposit", "rent"}

Statuses == {"none", "draft", "onboarding_started", "agreement_previewed",
             "terms_accepted", "payment_pending", "payment_secured", "active"}
Previewed == {"agreement_previewed", "terms_accepted", "payment_pending",
              "payment_secured", "active"}
Accepted == Previewed \ {"agreement_previewed"}
Steps == {"closed", "invalid", "waiting", "agreement_preview", "terms_acceptance",
          "payment", "payment_pending", "payment_success", "signature", "done"}

\* A request: for what, with what the tab showed, under which key.
Requests == [what : {"preview", "accept", "sign"}, shown : Agreements, key : {0}]
            \cup [what : {"submit"}, shown : Agreements, key : Keys]
NoRequest == [what |-> "none", shown |-> NoTerms, key |-> 0]
Answers == [st : {"ok", "refused"}, terms : Agreements]
Unanswered == [st |-> "none", terms |-> NoTerms]

Wizards == [at : Steps, shown : Agreements, document : BOOLEAN,
            key : {0} \cup Keys, told : BOOLEAN,
            request : Requests \cup {NoRequest}, answer : Answers \cup {Unanswered}]

TypeOK ==
  /\ tenant \in {"approved", "activated"}
  /\ lease \in [status : Statuses, start : Starts, months : Months,
                deposit : BOOLEAN, snapshot : Agreements, accepted : BOOLEAN]
  /\ pay \in [Payments -> {"none", "pending", "settled", "returned", "dead"}]
  /\ tab \in [Tabs -> Wizards]
  /\ late \subseteq Requests
  /\ conf \in [Staff -> [of : SUBSET Payments, secures : BOOLEAN]]
  /\ scope \in Scopes
  /\ troubles \in 0..scope.troubles /\ fixes \in 0..scope.fixes
  /\ trail \in [agreed : Agreements, signed : Agreements, opened : SUBSET Tabs,
                astray : BOOLEAN, before : BOOLEAN]

Closed == [at |-> "closed", shown |-> NoTerms, document |-> FALSE, key |-> 0,
           told |-> FALSE, request |-> NoRequest, answer |-> Unanswered]
NoConf == [of |-> {}, secures |-> FALSE]

Init ==
  /\ tenant \in {"approved", "activated"}
  /\ \E draft \in Drafts :
       lease = [status |-> "none", start |-> draft.start, months |-> draft.months,
                deposit |-> draft.deposit, snapshot |-> NoTerms, accepted |-> FALSE]
  /\ pay = [p \in Payments |-> "none"]
  /\ tab = [t \in Tabs |-> Closed]
  /\ late = {}
  /\ conf = [s \in Staff |-> NoConf]
  /\ troubles = 0 /\ fixes = 0 /\ scope \in Scopes
  /\ trail = [agreed |-> NoTerms, signed |-> NoTerms, opened |-> {},
              astray |-> FALSE, before |-> tenant = "activated"]

-----------------------------------------------------------------------------
(* The service, one operator per request                                    *)

Current == [start |-> lease.start, months |-> lease.months]
Asked == {p \in Payments : pay[p] # "none"}
Settled(payments) == {p \in Payments : payments[p] = "settled"}

\* Mutants: a payment that failed does not count.
NonePending(payments) == \A p \in Payments : payments[p] # "pending"

AllSettled(payments) ==
  \A p \in Payments : payments[p] # "none" => payments[p] = "settled"

Ok(terms) == [st |-> "ok", terms |-> terms]
Refused == [st |-> "refused", terms |-> NoTerms]
Refuse(answer) == answer = Refused /\ UNCHANGED <<tenant, lease, pay, trail>>

\* preview_agreement: the first call keeps a snapshot, later ones return it.
Preview(answer) ==
  \/ /\ lease.status \in {"draft", "onboarding_started"}
     /\ answer = Ok(Current)
     /\ lease' = [lease EXCEPT !.status = "agreement_previewed", !.snapshot = Current]
     /\ UNCHANGED <<tenant, pay, trail>>
  \/ /\ lease.status \in Previewed /\ lease.snapshot # NoTerms
     /\ answer = Ok(lease.snapshot)
     /\ UNCHANGED <<tenant, lease, pay, trail>>
  \/ lease.status \in Previewed /\ lease.snapshot = NoTerms /\ Refuse(answer)

\* accept_terms: the request does not say which agreement was read.
Accept(r, answer) ==
  \/ /\ lease.status = "agreement_previewed" /\ answer = Ok(NoTerms)
     /\ lease' = [lease EXCEPT !.status = "terms_accepted", !.accepted = TRUE]
     /\ trail' = [trail EXCEPT !.agreed = r.shown]
     /\ UNCHANGED <<tenant, pay>>
  \/ /\ lease.status \in Accepted /\ answer = Ok(NoTerms)
     /\ UNCHANGED <<tenant, lease, pay, trail>>
  \/ lease.status \in {"draft", "onboarding_started"} /\ Refuse(answer)

\* What an agreement asks for at onboarding.
Due(terms) == (IF lease.deposit THEN {"deposit"} ELSE {})
              \cup (IF terms.months > 0 THEN {"rent"} ELSE {})

\* submit_onboarding_payments: one payment for each item of the request, unless
\* its key has one; payments of some methods are confirmed at once, which
\* is refused for one that failed; then _maybe_secure_payment.
Submit(r, answer) ==
  LET items == {r.key} \X Due(r.shown)
      open == lease.status \in {"terms_accepted", "payment_pending"}
  IN  \/ ~ open /\ Refuse(answer)
      \/ items = {} /\ Refuse(answer)
      \/ (\E p \in items : pay[p] = "dead") /\ Refuse(answer)
      \/ /\ open /\ items # {} /\ answer = Ok(NoTerms)
         /\ \E instant \in BOOLEAN :
              pay' = [p \in Payments |->
                        IF p \in items /\ pay[p] = "none"
                        THEN IF instant THEN "settled" ELSE "pending"
                        ELSE pay[p]]
         /\ lease' = [lease EXCEPT !.status =
                        IF AllSettled(pay') THEN "payment_secured" ELSE "payment_pending"]
         /\ UNCHANGED <<tenant, trail>>

\* sign_agreement and _activate_via_onboarding: the snapshot must still say
\* what the lease says; months are taken from the snapshot itself.
SignAgreement(r, answer) ==
  \/ lease.status = "active" /\ answer = Ok(NoTerms)
     /\ UNCHANGED <<tenant, lease, pay, trail>>
  \/ lease.status \notin {"payment_secured", "active"} /\ Refuse(answer)
  \/ lease.status = "payment_secured" /\ lease.snapshot.start # lease.start
     /\ Refuse(answer)
  \/ /\ lease.status = "payment_secured" /\ lease.snapshot.start = lease.start
     /\ answer = Ok(NoTerms)
     /\ lease' = [lease EXCEPT !.status = "active"]
     /\ tenant' = "activated"
     /\ trail' = [trail EXCEPT !.signed = r.shown]
     /\ UNCHANGED pay

Handle(r, answer) ==
  \/ r.what = "preview" /\ Preview(answer)
  \/ r.what = "accept" /\ Accept(r, answer)
  \/ r.what = "submit" /\ Submit(r, answer)
  \/ r.what = "sign" /\ SignAgreement(r, answer)

ServeLate ==
  \E r \in late :
    /\ \E answer \in Answers : Handle(r, answer)
    /\ late' = late \ {r}
    /\ UNCHANGED <<tab, conf, troubles, counts>>

-----------------------------------------------------------------------------
(* The wizard                                                               *)

Idle(t) == tab[t].request = NoRequest
\* The wizard is on the page, at a step.
Mounted(t) == tab[t].at \notin {"closed", "invalid"}

\* Only the wizard of tab t changes.
Goes(t, page) ==
  /\ tab' = [tab EXCEPT ![t] = page]
  /\ UNCHANGED <<tenant, lease, pay, late, conf, troubles, counts>>
GoesTo(t, step) ==
  /\ Goes(t, [tab[t] EXCEPT !.at = step])
  /\ UNCHANGED trail

\* Mutants: the table has no line for payment_secured.
StepOfUnsecured(status) ==
  CASE status \in {"draft", "onboarding_started"} -> "agreement_preview"
    [] status = "agreement_previewed" -> "terms_acceptance"
    [] status = "terms_accepted" -> "payment"
    [] status = "payment_pending" -> "payment_pending"
    [] status = "active" -> "done"
    [] OTHER -> "waiting"

\* LEASE_STATUS_TO_STEP
StepOf(status) ==
  CASE status \in {"draft", "onboarding_started"} -> "agreement_preview"
    [] status = "agreement_previewed" -> "terms_acceptance"
    [] status = "terms_accepted" -> "payment"
    [] status = "payment_pending" -> "payment_pending"
    [] status = "payment_secured" -> "payment_success"
    [] status = "active" -> "done"
    [] OTHER -> "waiting"

\* The wizard mounts with what GET /flow says.  A tenant activated before is
\* shown the last step, whatever became of this lease.
Page == [Closed EXCEPT !.at = IF tenant = "activated" THEN "done"
                              ELSE StepOf(lease.status),
                       !.shown = lease.snapshot]

Open(t) ==
  /\ t \in scope.tabs /\ tab[t].at = "closed"
  /\ lease.status # "none" \/ tenant = "approved"
  /\ Goes(t, Page) /\ trail' = [trail EXCEPT !.opened = @ \cup {t}]

\* The page polls until the landlord has linked a lease.
SeesLease(t) ==
  /\ tab[t].at = "waiting" /\ lease.status # "none"
  /\ GoesTo(t, "agreement_preview")

\* A refetch of GET /flow brings another snapshot than the one shown.
SeesSnapshot(t) ==
  /\ tab[t].at \in {"terms_acceptance", "payment", "payment_success", "signature"}
  /\ lease.snapshot \notin {NoTerms, tab[t].shown}
  /\ Goes(t, [tab[t] EXCEPT !.shown = lease.snapshot, !.document = FALSE])
  /\ UNCHANGED trail

Asks(t, what, key) ==
  Goes(t, [tab[t] EXCEPT !.told = FALSE, !.key = key,
             !.request = [what |-> what, shown |-> tab[t].shown, key |-> key]])

\* AgreementPreviewStep asks for the document once, when it mounts.
AskPreview(t) ==
  /\ tab[t].at = "agreement_preview" /\ Idle(t)
  /\ ~ tab[t].document /\ ~ tab[t].told
  /\ Asks(t, "preview", 0) /\ UNCHANGED trail

ReadsAgreement(t) ==
  tab[t].at = "agreement_preview" /\ tab[t].document /\ GoesTo(t, "terms_acceptance")

AskAccept(t) ==
  /\ tab[t].at = "terms_acceptance" /\ Idle(t)
  /\ Asks(t, "accept", 0) /\ UNCHANGED trail

\* PaymentStep makes its keys when it mounts and keeps them for each attempt:
\* one nobody uses stands for a new one.
Unused == {k \in Keys : /\ \A item \in {"deposit", "rent"} : pay[<<k, item>>] = "none"
                        /\ \A u \in Tabs : tab[u].key # k
                        /\ \A r \in late : r.key # k}
AskSubmit(t) ==
  /\ tab[t].at = "payment" /\ Idle(t)
  /\ \/ tab[t].key # 0 /\ Asks(t, "submit", tab[t].key)
     \/ /\ tab[t].key = 0
        /\ \E k \in Unused : (\A l \in Unused : k <= l) /\ Asks(t, "submit", k)
  /\ UNCHANGED trail

\* PaymentPendingStep fetches the status again every 20 s.
SeesPayment(t) ==
  /\ tab[t].at = "payment_pending" /\ lease.status \in {"payment_secured", "active"}
  /\ GoesTo(t, "payment_success")

GoesToSign(t) == tab[t].at = "payment_success" /\ GoesTo(t, "signature")

AskSign(t) ==
  /\ tab[t].at = "signature" /\ Idle(t)
  /\ Asks(t, "sign", 0) /\ UNCHANGED trail

Serve(t) ==
  /\ ~ Idle(t) /\ tab[t].answer = Unanswered
  /\ \E answer \in Answers :
       /\ Handle(tab[t].request, answer)
       /\ tab' = [tab EXCEPT ![t].answer = answer]
  /\ UNCHANGED <<late, conf, troubles, counts>>

\* The tab hears the answer: an error is shown at the step it is on.
Hear(t) ==
  LET what == tab[t].request.what
      page == [tab[t] EXCEPT !.request = NoRequest, !.answer = Unanswered]
  IN  /\ ~ Idle(t) /\ tab[t].answer # Unanswered
      /\ Goes(t, IF tab[t].answer = Refused THEN [page EXCEPT !.told = TRUE]
                 ELSE IF what = "preview"
                 THEN [page EXCEPT !.shown = tab[t].answer.terms, !.document = TRUE]
                 ELSE [page EXCEPT !.key = 0,
                         !.at = CASE what = "accept" -> "payment"
                                  [] what = "submit" -> "payment_pending"
                                  [] what = "sign" -> "done"])
      /\ UNCHANGED trail

-----------------------------------------------------------------------------
(* Trouble: errors, reloads and the back buttons, within a bound            *)

Spend == troubles < scope.troubles /\ troubles' = troubles + 1

\* Tab t no longer waits for its request.  One not served yet may be lost, or
\* be served when nobody waits for it.
Abandons(t) ==
  /\ \/ /\ ~ Idle(t) /\ tab[t].answer = Unanswered
        /\ late' = late \cup {tab[t].request}
     \/ UNCHANGED late
  /\ trail' = [trail EXCEPT !.astray = @ \/ ~ Idle(t)]
  /\ UNCHANGED <<tenant, lease, pay, conf, counts>>

Fail(t) ==
  /\ ~ Idle(t) /\ Spend /\ Abandons(t)
  /\ tab' = [tab EXCEPT ![t].request = NoRequest, ![t].answer = Unanswered,
                        ![t].told = TRUE]

\* GET /flow fails once: the page shows "Invalid Link" in the wizard's place.
LosesPage(t) ==
  /\ Mounted(t) /\ Spend /\ Abandons(t)
  /\ tab' = [tab EXCEPT ![t] = [Closed EXCEPT !.at = "invalid"]]

Reload(t) ==
  Mounted(t) /\ Spend /\ Abandons(t) /\ tab' = [tab EXCEPT ![t] = Page]

\* A step back; the step left forgets its state, the wizard keeps the agreement.
Back(t) ==
  /\ Idle(t) /\ Spend
  /\ \E move \in {<<"terms_acceptance", "agreement_preview">>,
                  <<"payment", "terms_acceptance">>,
                  <<"signature", "payment_success">>} :
       /\ tab[t].at = move[1]
       /\ tab' = [tab EXCEPT ![t].at = move[2], ![t].key = 0, ![t].told = FALSE]
  /\ UNCHANGED <<tenant, lease, pay, late, conf, counts, trail>>

\* After an error the tenant comes back to the link.
Return(t) ==
  /\ tab[t].at = "invalid" \/ (tab[t].told /\ Idle(t))
  /\ Goes(t, Page) /\ UNCHANGED trail

-----------------------------------------------------------------------------
(* The staff                                                                *)

Manages == UNCHANGED <<pay, tab, late, conf, troubles, scope, trail>>

\* create_lease links the lease to the tenant's invite.
Link ==
  /\ lease.status = "none" /\ lease' = [lease EXCEPT !.status = "draft"]
  /\ Manages /\ UNCHANGED <<tenant, fixes>>

\* activate_lease: the manager's way, without the wizard.
Activate ==
  /\ lease.status = "draft" /\ lease' = [lease EXCEPT !.status = "active"]
  /\ tenant' = "activated" /\ Manages /\ UNCHANGED fixes

\* Mutants: the snapshot is corrected with the lease.
CorrectStartInSnapshot ==
  /\ fixes < scope.fixes /\ fixes' = fixes + 1
  /\ lease.status # "none"
  /\ lease.status # "draft" => \A k \in Keys : pay[<<k, "rent">>] # "settled"
  /\ \E start \in Starts \ {lease.start} :
       lease' = [lease EXCEPT !.start = start,
                   !.snapshot = IF @ = NoTerms THEN @ ELSE [@ EXCEPT !.start = start]]
  /\ Manages /\ UNCHANGED tenant

\* correct_start_date: until rent was collected; the snapshot stays as it is.
CorrectStart ==
  /\ fixes < scope.fixes /\ fixes' = fixes + 1
  /\ lease.status # "none"
  /\ lease.status # "draft" => \A k \in Keys : pay[<<k, "rent">>] # "settled"
  /\ \E start \in Starts \ {lease.start} : lease' = [lease EXCEPT !.start = start]
  /\ Manages /\ UNCHANGED tenant

\* correct_advance_months: until terms were accepted or payments asked for; the
\* snapshot is dropped.
CorrectMonths ==
  /\ fixes < scope.fixes /\ fixes' = fixes + 1
  /\ lease.status # "none" /\ ~ lease.accepted /\ Asked = {}
  /\ \E months \in Months \ {lease.months} :
       lease' = [lease EXCEPT !.months = months, !.snapshot = NoTerms,
                   !.status = IF @ = "agreement_previewed"
                              THEN "onboarding_started" ELSE @]
  /\ Manages /\ UNCHANGED tenant

Confirming == UNION {conf[s].of : s \in Staff}

\* Mutants: the other payments of the lease are not looked at.
ConfirmAlone(s, these) ==
  /\ conf[s] = NoConf /\ these # {} /\ these \cap Confirming = {}
  /\ \A p \in these : pay[p] = "pending"
  /\ conf' = [conf EXCEPT ![s] = [of |-> these, secures |-> lease.status = "payment_pending"]]
  /\ UNCHANGED <<tenant, lease, pay, tab, late, troubles, counts, trail>>

\* confirm_payment of some payments: it looks, with _maybe_secure_payment, at
\* what others have committed, and holds the rows it confirms.
Confirm(s, these) ==
  /\ conf[s] = NoConf /\ these # {} /\ these \cap Confirming = {}
  /\ \A p \in these : pay[p] = "pending"
  /\ conf' = [conf EXCEPT ![s] = [of |-> these, secures |->
       /\ lease.status = "payment_pending"
       /\ \A p \in Asked \ these : pay[p] = "settled"]]
  /\ UNCHANGED <<tenant, lease, pay, tab, late, troubles, counts, trail>>

\* confirm_all_onboarding_payments; the button goes with payment_pending.
ConfirmAll(s) ==
  /\ lease.status = "payment_pending"
  /\ Confirm(s, {p \in Payments : pay[p] = "pending"})

\* The same call when nothing is left to confirm still looks.
LookAgain ==
  /\ lease.status = "payment_pending" /\ Asked # {} /\ AllSettled(pay)
  /\ lease' = [lease EXCEPT !.status = "payment_secured"]
  /\ Manages /\ UNCHANGED <<tenant, fixes>>

ConfirmOne(s) == \E p \in Payments : Confirm(s, {p})

Commit(s) ==
  /\ conf[s] # NoConf
  /\ pay' = [p \in Payments |-> IF p \in conf[s].of THEN "settled" ELSE pay[p]]
  /\ lease' = IF conf[s].secures THEN [lease EXCEPT !.status = "payment_secured"]
              ELSE lease
  /\ conf' = [conf EXCEPT ![s] = NoConf]
  /\ UNCHANGED <<tenant, tab, late, troubles, counts, trail>>

\* A payment is rejected, cancelled or fails; one received is refunded.
Undo ==
  /\ troubles < scope.troubles /\ troubles' = troubles + 1
  /\ \E p \in Payments \ Confirming :
       /\ pay[p] \in {"pending", "settled"}
       /\ pay' = [pay EXCEPT ![p] = IF @ = "pending" THEN "dead" ELSE "returned"]
  /\ UNCHANGED <<tenant, lease, tab, late, conf, counts, trail>>

-----------------------------------------------------------------------------

\* The tenant, or a timer of the page, takes tab t on.
Forward(t) ==
  \/ SeesLease(t) \/ AskPreview(t) \/ ReadsAgreement(t) \/ AskAccept(t)
  \/ AskSubmit(t) \/ SeesPayment(t) \/ GoesToSign(t) \/ AskSign(t)

Astray(t) == Fail(t) \/ LosesPage(t) \/ Reload(t) \/ Back(t)

Next ==
  \/ \E t \in Tabs : \/ Open(t) \/ Forward(t) \/ SeesSnapshot(t) \/ Serve(t)
                     \/ Hear(t) \/ Astray(t) \/ Return(t)
  \/ ServeLate \/ Link \/ Activate \/ CorrectStart \/ CorrectMonths
  \/ \E s \in Staff : ConfirmAll(s) \/ ConfirmOne(s) \/ Commit(s)
  \/ LookAgain \/ Undo

\* Servers answer and transactions end; a tenant carries on, and comes back
\* after an error; the staff confirm what they are asked to.
Fairness ==
  /\ \A t \in Tabs : /\ WF_vars(Forward(t)) /\ WF_vars(Serve(t)) /\ WF_vars(Hear(t))
                     /\ SF_vars(Return(t))
  /\ \A s \in Staff : WF_vars(Commit(s)) /\ WF_vars(ConfirmAll(s))
  /\ WF_vars(LookAgain)

Spec == Init /\ [][Next]_vars /\ Fairness

-----------------------------------------------------------------------------
(* Properties                                                               *)

Progress == INSTANCE LeaseProgress WITH
  stage <- lease.status,
  asked <- Asked,
  settled <- {p \in Payments : pay[p] \in {"settled", "returned"}}

\* The stages of a lease are passed in order, whatever tabs, staff and network
\* do to the requests of onboarding_service.
InOrder == Progress!Spec

\* The wizard was open in one tab and no request went astray.
Plain == Cardinality(trail.opened) <= 1 /\ ~ trail.astray

\* FinalSignatureStep: "The terms below are identical to the agreement preview
\* you accepted."  accept_terms is not told which preview was read, so this
\* takes one tab that hears all its answers.
SignedAsAccepted ==
  Plain /\ trail.signed # NoTerms =>
    trail.signed = trail.agreed /\ trail.signed = lease.snapshot

\* A unit is secured through the wizard when everything its agreement asks for
\* was received, though the client names the amounts and two confirmations do
\* not see each other.
SecuredIsPaid ==
  Plain /\ lease.accepted /\ lease.status \in {"payment_secured", "active"} =>
    \A item \in Due(lease.snapshot) :
      \E k \in Keys : pay[<<k, item>>] \in {"settled", "returned"}

\* Nothing in the code gets a lease on from here: a payment that failed or was
\* returned stays among those that must be confirmed, a snapshot that no longer
\* fits is not made again, a request without items is refused, and a tenant
\* activated before is never shown the steps.
Blocked ==
  \/ /\ lease.status = "payment_pending"
     /\ \E p \in Payments : pay[p] \in {"dead", "returned"}
  \/ /\ lease.accepted /\ lease.status # "active"
     /\ lease.snapshot.start # lease.start
  \/ lease.status = "terms_accepted" /\ Due(lease.snapshot) = {}
  \/ lease.status # "active" /\ trail.before

\* A tenant who keeps going ends with an active lease and is told so.
Finishes ==
  \A t \in Tabs :
    (Mounted(t) /\ lease.status # "none") ~>
      (tab[t].at = "done" /\ lease.status = "active") \/ Blocked
=============================================================================
