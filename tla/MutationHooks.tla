--------------------------- MODULE MutationHooks ----------------------------
(***************************************************************************)
(* The mutation hooks of the frontend: for each one which of the backend's *)
(* data it changes, which query keys it invalidates, in which states the   *)
(* backend takes it, and whether it says so itself when it fails.          *)
(***************************************************************************)
EXTENDS Queries

P == INSTANCE PaymentStates

\* A mutation: the facts it changes, the keys it invalidates, whether the
\* hook itself tells of a failure, whether it adds a row, and for a change of
\* state the row, the states in which the backend takes it, and whether the
\* row leaves them.
Changes(writes, refreshes, told) ==
  [writes |-> writes, refreshes |-> refreshes, told |-> told, adds |-> FALSE,
   row |-> "none", takes |-> {"any"}, leaves |-> FALSE]
Adds(writes, refreshes, told) ==
  [Changes(writes, refreshes, told) EXCEPT !.adds = TRUE]
Moves(row, takes, writes, refreshes, told) ==
  [Changes(writes, refreshes, told) EXCEPT !.row = row, !.takes = takes, !.leaves = TRUE]
Within(row, takes, writes, refreshes, told) ==
  [Changes(writes, refreshes, told) EXCEPT !.row = row, !.takes = takes]

\* Only a caretaker's invite must be pending to be revoked.
InviteStates == {"pending", "accepted", "revoked", "expired"}

BeforeSigning == {"draft", "onboarding_started", "agreement_previewed",
                  "terms_accepted", "payment_pending", "payment_secured"}
Onboarding == (BeforeSigning \ {"draft"}) \cup {"agreement_signed"}
Live == {"active", "noticed"}
LeaseStates == {"draft", "expired", "terminated"} \cup Onboarding \cup Live

PaymentTakes(to) == {s \in P!Statuses : P!CanMove(s, to)}


\* useLeases.ts
useCreateLease == Adds({"lease", "unit"}, {LeasesAll}, TRUE)
useDeleteLease == Moves("lease", {"draft"}, {"lease"}, {LeasesAll}, TRUE)
useTransitionLease(takes) ==
  Moves("lease", takes, {"lease", "unit", "tenant"}, {LeaseDetail,
    LeaseAudit}, TRUE)
useCorrectLeaseStartDate ==
  Changes({"lease", "schedule"}, {LeaseDetail, LeaseList(Undefined)}, TRUE)
useCorrectLeaseAdvanceMonths ==
  Changes({"terms"}, {LeaseDetail, LeaseList(Undefined)}, TRUE)
useRetractNotice ==
  Moves("lease", {"noticed"}, {"notice"}, {LeaseDetail, LeaseAudit}, TRUE)
useSubmitNotice ==
  Moves("lease", {"active"}, {"notice"}, {LeaseDetail, LeaseAudit}, TRUE)
useConfirmOnboardingPayments ==
  Moves("lease", {"payment_pending"}, {"lease", "payment"}, {LeaseDetail,
    PaymentsAll}, TRUE)
useSendOnboarding == Changes({"link"}, {LeaseDetail}, TRUE)
usePresignAgreement ==
  Within("lease", BeforeSigning, {"signature"}, {LeaseDetail}, TRUE)
useCountersignAgreement == Within("lease", Live, {"signature"}, {LeaseDetail}, TRUE)
useGenerateLeaseDocument == Changes({"agreement"}, {}, TRUE)
useSignLease == Changes({"signature"}, {LeaseDetail}, TRUE)
useAcknowledgeLease ==
  Changes({"signature"}, {LeaseDetail, LeaseList(Undefined)}, TRUE)
useConfirmLeaseTerms ==
  Changes({"lease"}, {LeaseDetail, LeaseList(Undefined)}, TRUE)

\* usePayments.ts
useReconcilePayment ==
  Moves("payment", P!Confirmable, {"payment", "schedule", "ledger", "wallet",
    "deposit"}, {PaymentDetail, PaymentsAll}, TRUE)
useRecordPayment == Adds({"payment"}, {PaymentsAll, DashboardStats}, TRUE)
useRecordManualPayment ==
  Adds({"payment", "schedule", "ledger", "wallet"}, {PaymentsAll,
    RentSchedule, Ledger, DashboardStats}, TRUE)

\* Mutants: the hook has no onError; the hook invalidates nothing.
useWaiveLateFeeQuietly ==
  Moves("fee", {"applied"}, {"fee", "schedule"}, {LateFees(Undefined),
    LeaseLateFees}, FALSE)
useReturnDepositOnly ==
  Moves("deposit", {"held", "partially_returned"}, {"deposit"}, {}, TRUE)

useWaiveLateFee ==
  Moves("fee", {"applied"}, {"fee", "schedule"}, {LateFees(Undefined),
    LeaseLateFees}, TRUE)
useBulkWaiveLateFees ==
  Moves("fee", {"applied"}, {"fee", "schedule"}, {LeaseLateFees}, TRUE)
useReturnDeposit ==
  Moves("deposit", {"held", "partially_returned"}, {"deposit"}, {Deposits},
    TRUE)
useRetryPayment ==
  Moves("payment", P!Retryable, {"payment"}, {PaymentDetail, PaymentsAll},
    TRUE)
useRejectPayment ==
  Moves("payment", (P!RejectableByStaff \cap PaymentTakes("rejected")),
    {"payment", "ledger"}, {PaymentDetail, PaymentsAll}, TRUE)
useCancelPayment ==
  Moves("payment", (P!CancellableByTenant \cap PaymentTakes("cancelled")),
    {"payment", "ledger"}, {PaymentDetail, PaymentsAll}, TRUE)

\* useProperties.ts
useCreateProperty == Adds({"property", "usage"}, {PropertiesAll}, TRUE)
useUpdateProperty ==
  Changes({"property"}, {PropertyDetail, PropertiesAll}, TRUE)
useUpdatePropertyRules == Changes({"property"}, {PropertyDetail}, TRUE)
useDeleteProperty ==
  Moves("property", {"open"}, {"property", "usage"}, {PropertiesAll}, TRUE)
useRestoreProperty ==
  Moves("property", {"archived"}, {"property"}, {PropertiesAll}, TRUE)
useArchiveUnit == Changes({"unit"}, {Units(Undefined)}, TRUE)
useRestoreUnit == Changes({"unit"}, {Units(Undefined)}, TRUE)
useCreateUnit == Adds({"unit", "usage"}, {Units(Undefined)}, TRUE)
useBulkCreateUnits == Adds({"unit", "usage"}, {Units(Undefined), PropertyDetail}, TRUE)
useUpdateUnitRules ==
  Changes({"unit"}, {Units(Undefined), Units(Undefined) \o <<"unit">>}, TRUE)
useUpdateUnit ==
  Changes({"unit"}, {Units(Undefined), Units(Undefined) \o <<"unit">>}, TRUE)
useBulkUpdateUnits == Changes({"unit"}, {Units(Undefined)}, TRUE)
useBatchRenameUnits == Changes({"unit"}, {Units(Undefined)}, TRUE)
useBatchDeleteUnits ==
  Changes({"unit", "usage"}, {Units(Undefined), PropertyDetail}, TRUE)

\* useInspections.ts
useCreateInspection == Adds({"inspection"}, {InspectionsAll}, FALSE)
useUpdateInspection ==
  Changes({"inspection"}, {InspectionDetail, InspectionsAll}, TRUE)
useTransitionInspection(takes) ==
  Moves("inspection", takes, {"inspection"}, {InspectionDetail,
    InspectionsAll}, FALSE)
useCreateMaintenanceIssue == Adds({"issue"}, {MaintenanceAll}, FALSE)
useUpdateMaintenanceIssue ==
  Changes({"issue"}, {MaintenanceDetail, MaintenanceAll}, TRUE)
useTransitionMaintenanceIssue(takes) ==
  Moves("issue", takes, {"issue"}, {MaintenanceDetail, MaintenanceAll}, TRUE)
useAssignInspector == Changes({"inspection"}, {InspectionDetail}, TRUE)
useResendInspectorInvite ==
  Changes({"inspector invite"}, {InspectionDetail}, TRUE)
useInspectorSubmit == Changes({"inspection"}, {InspectorPortal}, TRUE)
useCreateContractor == Adds({"contractor"}, {ContractorsAll}, TRUE)
useUpdateContractor == Changes({"contractor"}, {ContractorsAll}, TRUE)
useDeactivateContractor == Changes({"contractor"}, {ContractorsAll}, TRUE)

\* useTenants.ts
useInviteTenant == Adds({"tenant"}, {TenantsAll}, TRUE)
useSubmitOnboarding ==
  Moves("tenant", {"invited", "started", "rejected"}, {"tenant", "document"},
    {}, TRUE)
useApproveOnboarding ==
  Moves("tenant", {"submitted"}, {"tenant"}, {TenantDetail, TenantsAll}, TRUE)
useRejectOnboarding ==
  Moves("tenant", {"submitted"}, {"tenant", "document"}, {TenantDetail,
    TenantsAll, TenantDocuments}, TRUE)
useUploadTenantDocument == Adds({"document"}, {TenantDocuments}, TRUE)
useVerifyTenantDocument == Changes({"document"}, {TenantDocuments}, TRUE)
useDeleteTenantDocument == Changes({"document"}, {TenantDocuments}, TRUE)
useSaveOnboardingDraft == Changes({"tenant"}, {}, FALSE)
useResendInvite ==
  Within("tenant", {"invited", "started", "rejected"}, {"tenant"}, {TenantDetail, TenantsAll}, TRUE)
useCancelInvite ==
  Within("tenant", {"invited", "started", "rejected"}, {"tenant"}, {TenantDetail, TenantsAll}, TRUE)
useUpdateTenant == Changes({"tenant"}, {TenantDetail}, TRUE)
useAnonymiseTenant == Changes({"tenant"}, {TenantDetail, TenantsAll}, TRUE)

\* useSubscription.ts
useSelectPlan ==
  Changes({"subscription", "usage"}, {CurrentSubscription, SubscriptionUsage}, FALSE)
useSubmitPayment ==
  Adds({"bill", "subscription", "invoice", "usage"},
    {CurrentSubscription, SubscriptionHistory}, FALSE)
useCancelSubscription ==
  Changes({"subscription"}, {CurrentSubscription}, FALSE)
useAdminUpdatePlan == Changes({"plan"}, {AdminPlans, Plans}, FALSE)
useAdminVerifyPayment ==
  Moves("bill", {"pending_verification"}, {"bill", "subscription", "invoice"},
    {AdminQueue}, FALSE)
useAdminRejectPayment ==
  Moves("bill", {"pending_verification"}, {"bill", "subscription"}, {AdminQueue}, FALSE)
useAdminUpdateBillingSettings ==
  Changes({"billing", "setting"}, {BillingSettings}, FALSE)
useAdminSuspendSubscription == Changes({"subscription"}, {AdminSubs}, FALSE)
useAdminExtendSubscription == Changes({"subscription"}, {AdminSubs}, FALSE)

\* useNotifications.ts
useCreateTemplate == Adds({"template"}, {NotificationTemplates}, TRUE)
useUpdateTemplate == Changes({"template"}, {NotificationTemplates}, TRUE)
useDeleteTemplate == Changes({"template"}, {NotificationTemplates}, TRUE)
useSendNotification == Adds({"notification"}, {NotificationsAll}, TRUE)

\* useOrganisation.ts
useUpdateOrganisation == Changes({"organisation"}, {Organisation}, FALSE)
useUpdateFeatures == Changes({"organisation"}, {Organisation}, FALSE)
useProvisionOrganisation == Adds({"organisation"}, {Organisation}, FALSE)
useUpdateOrgPaymentSettings ==
  Changes({"payout"}, {OrgPaymentSettings}, FALSE)

\* useCaretakers.ts
useUpdateCaretaker == Changes({"caretaker"}, {Caretakers}, FALSE)
useDeactivateCaretaker == Changes({"caretaker"}, {Caretakers}, FALSE)
useCreateCaretakerInvite == Adds({"caretakerInvite"}, {CaretakerInvites}, FALSE)
useRevokeCaretakerInvite ==
  Moves("caretakerInvite", {"pending"}, {"caretakerInvite"}, {CaretakerInvites}, FALSE)
useResendCaretakerInvite ==
  Within("caretakerInvite", {"pending"}, {"caretakerInvite"}, {}, FALSE)

\* useMessages.ts
useSendMessage == Changes({"message"}, {MessagesAll}, TRUE)
useMarkMessageRead == Changes({"message"}, {MessagesAll}, FALSE)

\* useLandlordInvites.ts
useCreateLandlordInvite == Adds({"landlordInvite"}, {LandlordInvites}, FALSE)
useRevokeLandlordInvite ==
  Moves("landlordInvite", InviteStates, {"landlordInvite"}, {LandlordInvites}, FALSE)
useResendLandlordInvite ==
  Within("landlordInvite", {"pending"}, {"landlordInvite"}, {LandlordInvites}, FALSE)

\* useAgencyInvites.ts
useCreateAgencyInvite == Adds({"agencyInvite"}, {AgencyInvites}, FALSE)
useResendAgencyInvite ==
  Within("agencyInvite", {"pending"}, {"agencyInvite"}, {AgencyInvites}, FALSE)
useRevokeAgencyInvite ==
  Moves("agencyInvite", InviteStates, {"agencyInvite"}, {AgencyInvites}, FALSE)

\* useSettings.ts
useUpdateSetting == Changes({"setting"}, {SystemSettings}, TRUE)

\* useAdminLandlords.ts
useMigrateToPersonalOrg == Changes({"landlord"}, {}, FALSE)
useAssignToAgency == Changes({"landlord"}, {}, FALSE)
useRepairLandlordOrg == Changes({"landlord"}, {}, FALSE)
useRemoveFromLogtoOrg == Changes({"landlord"}, {}, FALSE)

\* useAdminLeases.ts
usePatchLeaseBillingRules == Changes({"lease"}, {<<"admin-leases">>}, FALSE)

\* useTenantImport.ts
useCommitTenantImport == Adds({"tenant", "lease"}, {TenantsAll}, FALSE)

\* usePropertyImport.ts
useCommitImport == Adds({"property", "unit", "usage"}, {PropertiesAll}, FALSE)

\* useOnboardingFlow.ts
usePreviewAgreement ==
  Moves("lease", {"onboarding_started"}, {"lease", "flow"}, {OnboardingFlow}, FALSE)
useAcceptTerms ==
  Moves("lease", {"agreement_previewed"}, {"lease", "flow"}, {OnboardingFlow}, FALSE)
useSubmitOnboardingPayments ==
  Moves("lease", {"terms_accepted"}, {"lease", "flow"}, {OnboardingFlow}, FALSE)
useConfirmOnboardingPayment ==
  Moves("lease", {"payment_pending"}, {"lease", "flow"}, {OnboardingFlow}, FALSE)
useSignAgreement ==
  Moves("lease", {"payment_secured"}, {"lease", "flow"}, {OnboardingFlow}, FALSE)
useRequestSigningOtp == Changes({}, {}, FALSE)
=============================================================================
