------------------------------ MODULE Queries -------------------------------
(***************************************************************************)
(* The server state the frontend keeps in React Query: the key of every    *)
(* query hook and what its data tell of.  React Query is external: a query *)
(* is invalidated when the filter is a prefix of its key, element by       *)
(* element, and `undefined' is an element like any other.                  *)
(*                                                                         *)
(* An element that varies (an id, a page, a filter object) is written as   *)
(* one string: a screen looks at one lease, one property, one tenant.      *)
(***************************************************************************)
EXTENDS Sequences, Naturals

Undefined == "undefined"

\* partialMatchKey: the filter is a prefix of the key.
Match(filter, key) ==
  /\ Len(filter) <= Len(key)
  /\ \A i \in 1..Len(filter) : filter[i] = key[i]

Invalidated(filters, key) == \E filter \in filters : Match(filter, key)

-----------------------------------------------------------------------------
(* Query keys                                                               *)

DashboardStats == <<"dashboard", "stats">>
PropertiesAll == <<"properties">>
PropertyList(params) == <<"properties", "list", params>>
PropertyDetail == <<"properties", "property">>
Units(params) == PropertyDetail \o <<"units", params>>
TenantsAll == <<"tenants">>
TenantDetail == <<"tenants", "tenant">>
TenantDocuments == TenantDetail \o <<"documents">>
LeasesAll == <<"leases">>
LeaseList(params) == <<"leases", "list", params>>
LeaseDetail == <<"leases", "lease">>
LeaseAudit == LeaseDetail \o <<"audit">>
PaymentsAll == <<"payments">>
PaymentList(params) == <<"payments", "list", params>>
PaymentDetail == <<"payments", "payment">>
Ledger == <<"payments", "ledger", "lease">>
RentSchedule == <<"payments", "rent-schedule", "lease">>
OverdueSchedules(params) == <<"payments", "overdue-schedules", params>>
LateFees(params) == <<"payments", "late-fees", params>>
LeaseLateFees == <<"payments", "lease-late-fees", "lease">>
Deposits == <<"payments", "deposits", "lease">>
InspectionsAll == <<"inspections">>
InspectionDetail == <<"inspections", "inspection">>
MaintenanceAll == <<"maintenance">>
MaintenanceDetail == <<"maintenance", "issue">>
MessagesAll == <<"messages">>
NotificationsAll == <<"notifications">>
NotificationTemplates == <<"notifications", "templates">>
ContractorsAll == <<"contractors">>
InspectorPortal == <<"inspector-portal", "token">>
Plans == <<"subscription", "plans">>
CurrentSubscription == <<"subscription", "current">>
SubscriptionUsage == <<"subscription", "usage">>
SubscriptionHistory == <<"subscription", "history">>
BillingSettings == <<"billing", "settings">>
AdminPlans == <<"admin", "billing", "plans">>
AdminSubs == <<"admin", "billing", "subscriptions">>
AdminQueue == <<"admin", "billing", "pending-payments">>
AdminStats == <<"admin", "billing", "analytics">>
Organisation == <<"organisation", "me">>
OrgPaymentSettings == <<"organisation", "payment-settings">>
Caretakers == <<"caretakers">>
CaretakerInvites == <<"caretaker-invites">>
LandlordInvites == <<"landlord-invites">>
AgencyInvites == <<"agency-invites">>
SystemSettings == <<"system-settings">>
OnboardingFlow == <<"onboarding", "flow", "token">>

-----------------------------------------------------------------------------
(* Query hooks                                                              *)

\* A query: its key, the facts its data show, and whether it polls.
Query(key, shows) == [key |-> key, shows |-> shows, polls |-> FALSE]
Polled(key, shows) == [Query(key, shows) EXCEPT !.polls = TRUE]


\* useLeases.ts
useLeases == Query(LeaseList("params"), {"lease"})
useLease == Query(LeaseDetail, {"lease", "notice", "signature", "terms"})
useLeaseAudit == Query(LeaseAudit, {"lease", "notice"})

\* usePayments.ts
usePayments == Query(PaymentList("params"), {"payment"})
usePayment == Query(PaymentDetail, {"payment"})
useRentSchedule == Query(RentSchedule, {"schedule"})
useOverdueSchedules == Query(OverdueSchedules("params"), {"schedule"})
useLedger == Query(Ledger, {"ledger"})
useLateFees == Query(LateFees("params"), {"fee"})
useLeaseLateFees == Query(LeaseLateFees \o <<"page">>, {"fee"})
useDeposit == Query(Deposits, {"deposit"})
useLedgerEntries == Query(Ledger \o <<"entries", "page">>, {"ledger"})
usePaymentAllocations ==
  Query(<<"payments", "lease", "payment", "allocations">>, {"schedule",
    "payment"})
useTenantWallet == Query(<<"wallet", "id">>, {"wallet"})
useWalletTransactions ==
  Query(<<"wallet", "id", "transactions", "page">>, {"wallet"})
useMobileMoneyTransactions ==
  Polled(<<"mobile-money", "params">>, {"payment"})
useDashboardStats == Query(DashboardStats, {"payment", "lease", "unit"})
useOccupancyData == Query(<<"dashboard", "occupancy", "months">>, {"unit"})
useRevenueData == Query(<<"dashboard", "revenue", "months">>, {"payment"})
useCashFlowData == Query(<<"dashboard", "cashflow", "months">>, {"payment"})
usePaymentEstimate ==
  Query(<<"payments", "lease", "estimate", "request">>, {})

\* useProperties.ts
useProperties == Query(PropertyList("params"), {"property"})
useProperty == Query(PropertyDetail, {"property"})
usePropertyGeocode == Query(PropertyDetail \o <<"geocode">>, {})
useUnit == Query(Units(Undefined) \o <<"unit">>, {"unit"})
useUnits(params) == Query(Units(params), {"unit"})
useVillageSearch == Query(<<"geobox", "villages", "query">>, {"place"})

\* useInspections.ts
useInspections == Query(<<"inspections", "list", "params">>, {"inspection"})
useInspection == Query(InspectionDetail, {"inspection", "inspector invite", "report"})
useMaintenanceIssues == Query(<<"maintenance", "list", "params">>, {"issue"})
useMaintenanceIssue == Query(MaintenanceDetail, {"issue"})
useInspectorPortal == Query(InspectorPortal, {"inspection"})
useContractors == Query(<<"contractors", "params">>, {"contractor"})
useContractor == Query(<<"contractors", "id">>, {"contractor"})

\* useTenants.ts
useTenants == Query(<<"tenants", "list", "params">>, {"tenant"})
useTenant == Query(TenantDetail, {"tenant"})
useTenantDocuments == Query(TenantDocuments, {"document"})
useOnboardingByToken ==
  Query(<<"tenants", "onboarding", "token">>, {"tenant"})

\* useSubscription.ts
usePlans == Query(Plans, {"plan"})
useCurrentSubscription == Query(CurrentSubscription, {"subscription"})
useSubscriptionUsage == Query(SubscriptionUsage, {"usage"})
usePaymentHistory ==
  Query(SubscriptionHistory \o <<"limit", "offset">>, {"bill"})
useInvoices ==
  Query(<<"subscription", "invoices", "limit", "offset">>, {"invoice"})
useInvoiceById == Query(<<"subscription", "invoices", "id">>, {"invoice"})
useBillingSettings == Query(BillingSettings, {"billing", "setting"})
useAdminPlans == Query(AdminPlans, {"plan"})
useAdminPendingPayments ==
  Polled(AdminQueue \o <<"limit", "offset">>, {"bill"})
useAdminBillingSettings == Query(BillingSettings, {"billing", "setting"})
useAdminAnalytics == Query(AdminStats, {"subscription", "bill"})
useAdminAnalyticsCharts ==
  Query(AdminStats \o <<"charts">>, {"subscription", "bill"})
useAdminSubscriptions == Query(AdminSubs \o <<"params">>, {"subscription"})

\* useNotifications.ts
useNotifications ==
  Query(<<"notifications", "list", "params">>, {"notification"})
useNotification == Query(<<"notifications", "id">>, {"notification"})
useNotificationStats == Query(<<"notifications", "stats">>, {"notification"})
useNotificationTemplates == Query(NotificationTemplates, {"template"})

\* useOrganisation.ts
useOrganisation == Query(Organisation, {"organisation"})
useOrgPaymentSettings == Query(OrgPaymentSettings, {"payout"})

\* useCaretakers.ts
useCaretakers == Query(Caretakers, {"caretaker"})
useCaretakerInvites == Query(CaretakerInvites, {"caretakerInvite"})

\* useMessages.ts
useMessages == Polled(<<"messages", "list", "lease", "page">>, {"message"})
useUnreadMessageCount == Polled(<<"messages", "unread-count">>, {"message"})
useAllMessages == Polled(<<"messages", "all", "page", "unread">>, {"message"})

\* useLandlordInvites.ts
useLandlordInvites == Query(LandlordInvites, {"landlordInvite"})

\* useAgencyInvites.ts
useAgencyInvites == Query(AgencyInvites, {"agencyInvite"})

\* useSettings.ts
usePublicSettings == Query(<<"settings-public">>, {"setting"})
useSystemSettings == Query(SystemSettings, {"setting"})

\* useAdminOrgs.ts
useAdminAgencies == Query(<<"admin", "agencies", "params">>, {"organisation"})
useAdminAgency == Query(<<"admin", "agencies", "id">>, {"organisation"})
useAdminLandlords ==
  Query(<<"admin", "landlords-dir", "params">>, {"landlord"})
useAdminLandlord == Query(<<"admin", "landlords-dir", "id">>, {"landlord"})

\* useAdminLeases.ts
useAdminLeases == Query(<<"admin-leases", "params">>, {"lease"})

\* useAuditLogs.ts
useAuditLogs == Query(<<"audit-logs", "list", "params">>, {"audit"})
useAuditLog == Query(<<"audit-logs", "id">>, {"audit"})
useAdminAuditLogs == Query(<<"audit-logs", "admin", "params">>, {"audit"})

\* useReports.ts
usePortfolioSummary == Query(<<"reports", "portfolio">>, {"unit", "payment"})
useRentCollectionReport ==
  Query(<<"reports", "rent-collection", "params">>, {"payment"})
useRentArrearsReport ==
  Query(<<"reports", "rent-arrears", "params">>, {"schedule"})
useOccupancyReport == Query(<<"reports", "occupancy", "params">>, {"unit"})
useMaintenanceOverviewReport ==
  Query(<<"reports", "maintenance-overview", "params">>, {"issue"})
useMaintenanceCostReport ==
  Query(<<"reports", "maintenance-costs", "params">>, {"issue"})
useContractorPerformance ==
  Query(<<"reports", "contractors", "params">>, {"contractor", "issue"})
useLeaseExpiryReport == Query(<<"reports", "lease-expiry">>, {"lease"})
useIncomeExpenseReport ==
  Query(<<"reports", "income-expense", "params">>, {"payment", "issue"})

\* useOnboardingFlow.ts
useOnboardingFlowStatus == Query(OnboardingFlow, {"flow"})
=============================================================================
