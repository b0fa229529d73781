--------------------------- MODULE PortalScreens ----------------------------
(***************************************************************************)
(* The portal of a tenant: one page with tabs, and the dialogs it opens.   *)
(***************************************************************************)
EXTENDS StateTables

\* app/(portal)/portal/page.tsx
\* The amount follows the balance for as long as the dialog is open.
PaymentRequest == Button("request mobile money payment", useRecordPayment)

\* For cash and transfers a form with the reference, then the receipt and a
\* second look: one request at the end.
PayDialog == Offered({PaymentRequest, Button("report payment", useRecordPayment)})

TENANT_CANCELLABLE == {"initiated", "predicted", "routed", "pending", "retry_scheduled"}

TenantPaymentDetailSheet == Offered({
  In(TENANT_CANCELLABLE, Button("cancel my payment", useCancelPayment))})

\* Photos first, and the form stays shut while they are uploaded.
MaintenanceDialog == Offered({Button("request maintenance", useCreateMaintenanceIssue)})

\* The button waits for the last message, the Enter key does not.
MessagesTab == Part(
  {View("portal messages", useMessages, "blank")}, {Open("message landlord", useSendMessage)})

InspectionsTab == Shown({View("my inspections", useInspections, "blank")})

\* A file is uploaded, then registered: the field is free again in between.  The
\* question whether to delete is closed before the answer.
DocumentsOfTenant == Offered({
  Open("register my document", [useUploadTenantDocument EXCEPT !.adds = FALSE]),
  Open("delete my document", useDeleteTenantDocument)})

DocumentsTab == Whole({DocumentsOfTenant, Shown({View("my documents", useTenantDocuments, "blank")})})

PortalBottomNav == Shown({View("unread badge", useUnreadMessageCount, "blank")})

PortalLeases == [useLeases EXCEPT !.key = LeaseList(Undefined)]

\* What is owed is worked out from the schedules and the payments.
PortalOverview == Shown({
  View("portal leases", PortalLeases, "blank"), View("my lease", useLease, "blank"),
  View("my payments", usePayments, "blank"), View("my schedule", useRentSchedule, "blank"),
  View("my wallet", useTenantWallet, "blank"), View("my requests", useMaintenanceIssues, "blank")})

TermsConfirmation == Offered({Button("confirm lease terms", useConfirmLeaseTerms)})

LeaseTab == Offered({Button("download lease", useGenerateLeaseDocument)})

PortalTasks == Shown({View("reports to sign", useInspections, "blank")})

PaymentsTab == Shown({View("payment history", usePayments, "blank")})

MaintenanceTab == Shown({View("requests and photos", useMaintenanceIssues, "blank")})

TenantPortalPage == Whole({PayDialog, TenantPaymentDetailSheet, MaintenanceDialog, MessagesTab,
  InspectionsTab, DocumentsTab, PortalBottomNav, PortalOverview, TermsConfirmation, LeaseTab,
  PortalTasks, PaymentsTab, MaintenanceTab})
=============================================================================
