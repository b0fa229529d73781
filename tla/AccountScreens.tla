--------------------------- MODULE AccountScreens ---------------------------
(***************************************************************************)
(* Payments, the subscription, the settings of an organisation, its        *)
(* invites, notifications, fiscal receipts and reports.                    *)
(***************************************************************************)
EXTENDS Widgets

-----------------------------------------------------------------------------
(* Payments                                                                 *)

\* app/(dashboard)/payments/[id]/page.tsx
REJECTABLE == {"initiated", "predicted", "routed", "pending", "reconciled", "allocated",
  "predicted_failure", "retry_scheduled", "permanently_failed", "failed"}
\* Mutants: a completed payment is offered to be cancelled.
CancellableOnceCompleted ==
  {"initiated", "predicted", "routed", "pending", "retry_scheduled", "completed"}

CANCELLABLE == {"initiated", "predicted", "routed", "pending", "retry_scheduled"}
IN_PROGRESS == {"initiated", "predicted", "routed", "pending", "reconciled", "allocated",
  "retry_scheduled"}

RejectDialog == In(REJECTABLE, Button("reject payment", useRejectPayment))

CancelDialog == In(CANCELLABLE, Button("cancel payment", useCancelPayment))

PaymentDetailPage == Part(
  {View("payment", usePayment, "blank"), View("lease of the payment", useLease, "blank")},
  {RejectDialog, CancelDialog, In(IN_PROGRESS, Button("confirm payment", useReconcilePayment))})

\* app/(dashboard)/payments/page.tsx
PaymentsPage == Shown({
  Turning(View("payments", usePayments, "blank")),
  Turning(View("overdue schedules", useOverdueSchedules, "blank")),
  View("payment statistics", useDashboardStats, "blank"),
  View("plan of the payments", useCurrentSubscription, "blank")})

\* components/payments/ReconciliationDashboard.tsx
\* Asked for again by itself, or when the user says so.
ReconciliationDashboard ==
  Shown({Turning(View("mobile money transactions", useMobileMoneyTransactions, "blank"))})

\* app/(dashboard)/payments/page.tsx
PaymentScreens == Whole({PaymentDetailPage, PaymentsPage, ReconciliationDashboard})

-----------------------------------------------------------------------------
(* The subscription                                                         *)

\* app/(dashboard)/subscription/page.tsx
SubscriptionPage == Shown({View("current subscription", useCurrentSubscription, "blank"),
  View("usage of the plan", useSubscriptionUsage, "blank")})

\* app/(dashboard)/subscription/billing/page.tsx
BillingPage == Shown({View("subscription payments", usePaymentHistory, "blank"),
  View("invoices", useInvoices, "blank")})

\* app/(dashboard)/subscription/pay/page.tsx
\* After a success the form gives way to a message.
PayPageContent == Part(
  {View("plans to pay", usePlans, "blank"), View("ways to pay", useBillingSettings, "blank")},
  {Telling(Button("submit subscription payment", useSubmitPayment))})

\* app/(dashboard)/subscription/plans/page.tsx
\* Only the free plan is selected at once: the others lead to the payment page.
PlansPage == Part(
  {View("plans", usePlans, "blank"), View("subscription of the plans", useCurrentSubscription, "blank")},
  {Telling(Button("select plan", useSelectPlan))})

\* app/(dashboard)/subscription/pay/page.tsx
SubscriptionScreens == Whole({SubscriptionPage, BillingPage, PayPageContent, PlansPage})

-----------------------------------------------------------------------------
(* Invites                                                                  *)

\* app/(dashboard)/settings/components/CaretakerInviteModal.tsx
CaretakerInviteModal == Part(
  {View("properties of the caretaker", useProperties, "blank")},
  {Button("invite caretaker", useCreateCaretakerInvite)})

\* app/(dashboard)/settings/page.tsx
CaretakersPanel == Part(
  {View("caretakers", useCaretakers, "blank"), View("caretaker invites", useCaretakerInvites, "blank")},
  {Button("deactivate caretaker", useDeactivateCaretaker),
   In({"pending"}, Open("resend caretaker invite", useResendCaretakerInvite)),
   In({"pending"}, Open("revoke caretaker invite", useRevokeCaretakerInvite))})

\* app/(dashboard)/landlords/page.tsx
InviteRow == Offered({
  In({"pending"}, Telling(Button("resend landlord invite", useResendLandlordInvite))),
  In({"pending"}, Open("revoke landlord invite", useRevokeLandlordInvite))})

LandlordsPage == Part(
  {View("landlord invites", useLandlordInvites, "blank"),
   View("properties of the landlord", useProperties, "blank")},
  {Telling(Button("invite landlord", useCreateLandlordInvite))} \cup InviteRow.controls)

-----------------------------------------------------------------------------
(* Settings                                                                 *)

\* app/(dashboard)/settings/page.tsx
Provisioning == Part({View("organisation", useOrganisation, "blank")},
  {Telling(Button("create organisation", useProvisionOrganisation))})

\* Mutants: the form is filled when the page opens.
AgencyFormsOnce == Offered({
  Telling(AsSeen(Button("save agency details", useUpdateOrganisation))),
  Telling(AsSeen(Button("save unit naming", useUpdateOrganisation)))})

\* The form follows the organisation whenever it is loaded.
AgencyForms == Offered({
  Telling(AsKept(Button("save agency details", useUpdateOrganisation))),
  Telling(AsKept(Button("save unit naming", useUpdateOrganisation)))})

\* The same invites as on the landlords' page, without a word when resending fails.
InvitesTab == Part(
  {View("landlord invites in the settings", useLandlordInvites, "blank")},
  {In({"pending"}, Button("resend landlord invite in the settings", useResendLandlordInvite)),
   In({"pending"}, Open("revoke landlord invite in the settings", useRevokeLandlordInvite))})

InviteModals == Offered({
  Telling(Button("invite landlord in the settings", useCreateLandlordInvite))})

AgencyInvitesTab == Part(
  {View("agency invites in the settings", useAgencyInvites, "blank")},
  {In({"pending"}, Button("resend agency invite", useResendAgencyInvite)),
   In({"pending"}, Button("revoke agency invite in the settings", useRevokeAgencyInvite))})

FeatureSwitches == Offered({Telling(Button("switch organisation feature in the settings", useUpdateFeatures))})

\* A configuration that cannot be loaded looks like one that was never made.
EfrisForm == Part(
  {Loaded("EFRIS configuration", {"efris"}, "blank")},
  {Patching({"EFRIS configuration"}, Telling(AsKept(Button("save EFRIS configuration", Calls({"efris"}))))),
   Telling(Button("test EFRIS connection", Calls({"probe"})))})

SettingsPage == Whole({Provisioning, AgencyForms, InvitesTab, InviteModals, AgencyInvitesTab,
  FeatureSwitches, EfrisForm, CaretakersPanel, CaretakerInviteModal})

-----------------------------------------------------------------------------
(* Notifications                                                            *)

\* app/(dashboard)/notifications/page.tsx
NotificationDetailDrawer == Shown({View("notification", useNotification, "said")})

ComposeDialog == Offered({Button("send notification", useSendNotification)})

NotificationsPage == Whole({NotificationDetailDrawer, ComposeDialog, Shown({
  Turning(View("notifications", useNotifications, "blank")),
  View("notification statistics", useNotificationStats, "blank")})})

-----------------------------------------------------------------------------
(* Fiscal receipts                                                          *)

\* backend/app/api/v1/efris.py
\* The receipts are on offer again as long as none has been issued.
RetryReceipt == Within("receipt", {"pending", "failed"}, {"receipt"}, {}, FALSE)

\* app/(dashboard)/compliance/page.tsx
\* Without an organisation the page waits for it.  The counts of the tabs are
\* loaded once; the receipts with every change of tab or page.
CompliancePage == Part(
  {View("organisation of the receipts", useOrganisation, "waits"),
   Turning(Loaded("receipts", {"receipt"}, "said")), Loaded("receipt counts", {"receipt"}, "blank")},
  {In({"failed"}, Reloading({"receipts"}, Telling(Button("retry receipt", RetryReceipt))))})

-----------------------------------------------------------------------------
(* Reports                                                                  *)

\* app/(dashboard)/reports/page.tsx
IncomeReports == Shown({
  View("portfolio", usePortfolioSummary, "blank"),
  Turning(View("rent collection", useRentCollectionReport, "blank"))})

OccupancyReports == Shown({
  Turning(View("rent arrears", useRentArrearsReport, "blank")),
  View("occupancy", useOccupancyReport, "blank")})

MaintenanceReports == Shown({
  Turning(View("maintenance overview", useMaintenanceOverviewReport, "blank")),
  Turning(View("maintenance costs", useMaintenanceCostReport, "blank"))})

ExpiryReports == Shown({
  Turning(View("lease expiry", useLeaseExpiryReport, "blank")),
  Turning(View("income and expenses", useIncomeExpenseReport, "blank"))})

ReportsPage == Whole({IncomeReports, OccupancyReports, MaintenanceReports, ExpiryReports,
  Shown({View("plan of the reports", useCurrentSubscription, "blank")})})

\* app/(dashboard)/audit-log/page.tsx
AuditLogPage == Shown({Turning(View("audit log", useAuditLogs, "blank"))})
=============================================================================
