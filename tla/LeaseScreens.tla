---------------------------- MODULE LeaseScreens ----------------------------
(***************************************************************************)
(* The lease pages: the list, the form for a new lease, and the detail     *)
(* panel with its embedded panels and dialogs.                             *)
(***************************************************************************)
EXTENDS StateTables


\* components/leases/LeaseTable.tsx
LeaseTable == Shown({Turning(View("lease list", useLeases, "blank"))})

\* components/leases/LeaseDetailPanel.tsx
AgreementBanner == Offered({Button("acknowledge paper lease", useAcknowledgeLease)})

NoticeBanner == Offered({In({"noticed"}, Button("retract notice", useRetractNotice))})

OnboardingActions == Offered({
  In(BeforeSigning, Button("resend onboarding link", useSendOnboarding)),
  In({"payment_pending"}, Button("confirm onboarding payments", useConfirmOnboardingPayments))})

LifecycleActions == Offered({
  In(LeaseOffers("LEASE_SENT"),
     Button("send for signature", useTransitionLease(LeaseTakes("LEASE_SENT")))),
  In(LeaseOffers("LEASE_ACTIVATED"),
     Button("activate lease", useTransitionLease(LeaseTakes("LEASE_ACTIVATED")))),
  In(LeaseOffers("LEASE_CLOSED"),
     Button("close lease", useTransitionLease(LeaseTakes("LEASE_CLOSED")))),
  In({"draft"}, Button("delete draft lease", useDeleteLease))})

AgreementPdf == Offered({Telling(Button("generate agreement", Calls({"agreement"})))})

\* components/leases/CountersignAgreementModal.tsx
CountersignAgreementModal == Button("countersign agreement", useCountersignAgreement)

\* components/leases/LeaseDetailPanel.tsx
Signatures == Offered({
  In({"agreement_signed", "expired", "terminated"} \cup Live, CountersignAgreementModal)})

GiveNoticeDialog == Offered({
  In(LeaseOffers("NOTICE_GIVEN") \ {"noticed"}, Button("give notice", useSubmitNotice))})

\* components/leases/TerminateModal.tsx
TerminateModal == Offered({
  In(LeaseOffers("LEASE_TERMINATED") \ {"draft"},
     Button("terminate lease", useTransitionLease(LeaseTakes("LEASE_TERMINATED"))))})

\* components/leases/PresignAgreementModal.tsx
PresignAgreementModal == Offered({In(BeforeSigning, Button("presign agreement", usePresignAgreement))})

\* components/leases/CorrectStartDateModal.tsx
CorrectStartDateModal == Offered({Button("correct start date", useCorrectLeaseStartDate)})

\* components/leases/CorrectAdvanceMonthsModal.tsx
CorrectAdvanceMonthsModal == Offered({Button("correct advance months", useCorrectLeaseAdvanceMonths)})

\* Mutants: the button stays enabled while the payment is recorded.
RecordManualPaymentUnlocked == Offered({Open("record manual payment", useRecordManualPayment)})

\* components/leases/RecordManualPaymentModal.tsx
RecordManualPaymentModal == Offered({Button("record manual payment", useRecordManualPayment)})

\* components/leases/LateFeePanel.tsx
FeeRow == Offered({In({"applied"}, Button("waive late fee", useWaiveLateFee))})

LateFeePanel == Part(
  {Turning(View("late fees", useLeaseLateFees, "blank"))},
  {In({"applied"}, Button("waive all late fees", useBulkWaiveLateFees))})

\* Mutants: the skeleton does not look at the error.
DepositSkeleton == Shown({View("deposit", useDeposit, "waits")})

\* components/payments/DepositPanel.tsx
DepositView == Shown({View("deposit", useDeposit, "blank")})

DepositReturn == Offered({
  In({"held", "partially_returned"}, Button("return deposit", useReturnDeposit))})

\* components/leases/LeaseMessagesPanel.tsx
\* The Enter key sends while an earlier message is still on its way.
LeaseMessagesPanel == Part(
  {View("lease messages", useMessages, "blank")}, {Open("send message", useSendMessage)})

\* features/rent-increase/hooks/useRentIncreases.ts
useRentIncreases == Loaded("rent increases", {"increase"}, "said")

RentIncreaseCalls(takes) == CallsToMove("increase", takes)

\* features/rent-increase/components/IncreaseHistoryPanel.tsx
IncreaseCard == Offered({
  Reloading({"rent increases"}, Telling(In({"pending_ack"},
    Button("acknowledge increase", RentIncreaseCalls({"pending_ack"}))))),
  Reloading({"rent increases"}, Telling(In({"pending_ack", "acknowledged"},
    Button("withdraw increase", RentIncreaseCalls({"pending_ack", "acknowledged"})))))})

IncreaseHistoryPanel == Shown({useRentIncreases})

\* features/rent-increase/components/IssueIncreaseModal.tsx
IssueIncreaseModal == Offered({
  Reloading({"rent increases"}, Telling(Button("issue increase", CallsToAdd({"increase"}))))})

\* features/eviction-notice/hooks/useEvictionNotices.ts
useEvictionNotices == Loaded("eviction notices", {"eviction"}, "said")

EvictionCalls(takes) == CallsToMove("eviction", takes)

\* features/eviction-notice/components/EvictionNoticePanel.tsx
NoticeCard == Offered({
  Reloading({"eviction notices"}, Telling(In({"issued"},
    Button("serve notice", EvictionCalls({"issued"}))))),
  Reloading({"eviction notices"}, Telling(In({"issued", "served"},
    Button("withdraw notice", EvictionCalls({"issued", "served"})))))})

EvictionNoticePanel == Shown({useEvictionNotices})

\* features/eviction-notice/components/IssueEvictionModal.tsx
IssueEvictionModal == Offered({
  Reloading({"eviction notices"}, Telling(Button("issue notice", CallsToAdd({"eviction"}))))})

\* features/utilities/components/UtilityPanel.tsx
ReadingRow == Offered({In({"unbilled"}, Button("bill reading",
  Moves("reading", {"unbilled"}, {"reading", "payment"}, {Readings.key, PaymentsAll}, TRUE)))})

UtilityPanel == Shown({View("utility readings", Readings, "blank")})

\* features/utilities/components/RecordUtilityModal.tsx
RecordUtilityModal == Offered({Button("record utility",
  Adds({"reading", "payment"}, {Readings.key, PaymentsAll}, TRUE))})

\* features/screenings/components/ScreeningPanel.tsx
NewScreeningModal == Offered({Button("new screening",
  Adds({"screening"}, {Screenings.key}, TRUE))})

ScreeningCard == Offered({
  Open("toggle screening item", Changes({"screening"}, {Screenings.key}, FALSE)),
  In({"pending"}, Button("decide screening",
    Moves("screening", {"pending", "approved", "rejected"}, {"screening"}, {Screenings.key}, TRUE)))})

ScreeningPanel == Shown({View("screenings", Screenings, "blank")})

\* features/inspections/components/MoveInInspectionPanel.tsx
MoveInInspectionPanel == Shown({View("move-in inspections", useInspections, "blank")})

\* features/inspections/components/MoveOutInspectionPanel.tsx
MoveOutInspectionPanel == Shown({View("move-out inspections", useInspections, "blank")})

\* app/(dashboard)/leases/[id]/page.tsx
LeaseDetailPage == Shown({View("lease", useLease, "blank")})

\* components/leases/LeaseDetailPanel.tsx
\* The list stays in the cache while the lease is open.
LeaseDetailPanel == Whole({LeaseTable, LeaseDetailPage, AgreementBanner, NoticeBanner,
  OnboardingActions, LifecycleActions, AgreementPdf, Signatures,
  GiveNoticeDialog, TerminateModal, PresignAgreementModal, CorrectStartDateModal,
  CorrectAdvanceMonthsModal, RecordManualPaymentModal, FeeRow, LateFeePanel, DepositView,
  DepositReturn, LeaseMessagesPanel})

LeasePanels == Whole({IncreaseCard, IncreaseHistoryPanel, IssueIncreaseModal, NoticeCard,
  EvictionNoticePanel, IssueEvictionModal, ReadingRow, UtilityPanel, RecordUtilityModal,
  MoveInInspectionPanel, MoveOutInspectionPanel})

\* app/(dashboard)/leases/new/page.tsx
NewLeasePage == Part(
  {View("properties to lease", useProperties, "blank"),
   View("units to lease", useUnits(Undefined), "blank"),
   View("tenants to lease to", useTenants, "blank")},
  {Button("create lease", useCreateLease)})

\* From the list to the form and on to the lease: the units were shown as free.
NewLeaseForm == Whole({LeaseTable, NewLeasePage})
=============================================================================
