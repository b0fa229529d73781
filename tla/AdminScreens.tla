---------------------------- MODULE AdminScreens ----------------------------
(***************************************************************************)
(* The pages of the platform's administrators.                             *)
(***************************************************************************)
EXTENDS StateTables

-----------------------------------------------------------------------------
(* The administration page                                                  *)

\* app/(admin)/admin/page.tsx
AdminAuditLogsPanel == Shown({Turning(View("platform audit log", useAdminAuditLogs, "blank"))})

AdminProfiles == Query(<<"admin-profiles">>, {"profile"})

\* What is due is asked for again every minute.
PlatformHealth == Polled(<<"admin-health">>, {"health"})

AdminDirectories == Shown({
  View("profiles", AdminProfiles, "blank"), View("platform health", PlatformHealth, "blank"),
  Turning(View("agencies", useAdminAgencies, "blank")),
  Turning(View("landlords", useAdminLandlords, "blank"))})

handleRemoveFromLogtoOrg == Telling(Button("remove from Logto organisation", useRemoveFromLogtoOrg))

handleRepairOrg == Telling(Button("repair landlord", useRepairLandlordOrg))

handleMigrateToPersonalOrg == Telling(Button("migrate landlord", useMigrateToPersonalOrg))

handleAssignToAgency == Telling(Button("assign landlord", useAssignToAgency))

LandlordActions == Offered({handleRemoveFromLogtoOrg, handleMigrateToPersonalOrg,
  handleAssignToAgency, handleRepairOrg})

\* No other organisation can be picked while one is loaded or a flag is saved; the
\* flags are set from the answer.
OrgFeatures == Part(
  {Loaded("organisation features", {"feature"}, "said")},
  {Patching({"organisation features"}, Telling(Button("switch organisation feature",
     Changes({"feature"}, {}, FALSE))))})

AgencyInviteForm == Offered({Telling(Button("invite agency", useCreateAgencyInvite))})

AgencyInviteList == Part(
  {View("agency invites", useAgencyInvites, "blank")},
  {Telling(Open("revoke agency invite", useRevokeAgencyInvite))})

AdminPage == Whole({AdminAuditLogsPanel, AdminDirectories, LandlordActions, OrgFeatures,
  AgencyInviteForm, AgencyInviteList})

-----------------------------------------------------------------------------
(* Billing rules of leases                                                  *)

\* components/admin/LeaseBillingTab.tsx
\* The dialog is opened by its parent, so that it never takes over the rules of
\* the lease it is opened for; every field it shows is sent.
EditDialog == Offered({Telling(Button("edit billing rules", usePatchLeaseBillingRules))})

\* The page stays as it was while the next one is loaded.
BillingLeaseTable == Shown({Turning(View("billing leases", useAdminLeases, "blank"))})

LeaseSync == Telling(Button("sync billing rules of a lease", usePatchLeaseBillingRules))

\* The selected leases are sent one by one through the same hook.
SyncSelected == Telling(Button("sync billing rules of selected leases", usePatchLeaseBillingRules))

LeaseBillingTab == Whole({EditDialog, BillingLeaseTable, Offered({LeaseSync, SyncSelected})})

-----------------------------------------------------------------------------
(* Roles and permissions                                                    *)

\* components/admin/RbacPanel.tsx
\* The whole set of permissions ticked in the matrix replaces that of the role.
PermissionMatrix == Offered({
  Patching({"role detail"}, Telling(AsKept(Button("save role permissions", Calls({"permission"})))))})

CreateRoleForm == Offered({Patching({"roles"}, Telling(Button("create role", CallsToAdd({"role"}))))})

Roles == Shown({Loaded("roles", {"role"}, "said")})

\* A role can be picked while another one is still loaded.
RoleDetail == Shown({Turning(Loaded("role detail", {"permission"}, "said"))})

RbacPanel == Whole({PermissionMatrix, CreateRoleForm, Roles, RoleDetail,
  Offered({Patching({"roles"}, Telling(Open("delete role", Calls({"role"}))))})})

-----------------------------------------------------------------------------
(* Subscriptions                                                            *)

\* app/(admin)/admin/billing/page.tsx
AnalyticsTab == Shown({View("billing analytics", useAdminAnalytics, "blank"),
  View("billing charts", useAdminAnalyticsCharts, "blank")})

RejectModal == In({"pending_verification"},
  Telling(Button("reject subscription payment", useAdminRejectPayment)))

\* One approval at a time.
PendingApprovalsTab == Part(
  {View("pending subscription payments", useAdminPendingPayments, "blank")},
  {RejectModal, In({"pending_verification"},
     Telling(Button("approve subscription payment", useAdminVerifyPayment)))})

\* The backend suspends and extends a subscription whatever its state is.
SubscriptionsTab == Part(
  {Turning(View("subscriptions", useAdminSubscriptions, "blank"))},
  {Telling(Button("suspend subscription", useAdminSuspendSubscription)),
   Button("extend subscription", useAdminExtendSubscription)})

\* The form is filled from the settings whenever they are loaded, and sent as a
\* whole.
PaymentMethodsForm == Part(
  {View("billing settings", useAdminBillingSettings, "blank")},
  {Telling(AsKept(Button("save payment methods", useAdminUpdateBillingSettings)))})

PlansForm == Part(
  {View("billing plans", useAdminPlans, "blank")},
  {Telling(Button("edit plan", useAdminUpdatePlan))})

AdminBillingPage ==
  Whole({AnalyticsTab, PendingApprovalsTab, SubscriptionsTab, PaymentMethodsForm, PlansForm})

-----------------------------------------------------------------------------
(* Searches and directories                                                 *)

\* components/admin/AdminSearchCombobox.tsx
\* Each pause in typing asks again; the answers are not put in order.
AdminSearchCombobox == Shown({Turning(Loaded("organisation search", {"organisation"}, "blank"))})

\* app/(admin)/admin/agencies/[orgId]/page.tsx
AgencyDetailPage == Shown({View("agency", useAdminAgency, "said")})

\* app/(admin)/admin/landlords/[profileId]/page.tsx
LandlordDetailPage == Shown({View("landlord", useAdminLandlord, "said")})

-----------------------------------------------------------------------------
(* Settings of the platform                                                 *)

\* components/admin/SettingsPanel.tsx
\* The row puts an end to its spinner whatever happens, but nobody catches a
\* failure.
SettingRow == Patching({"settings"}, Button("save setting", Calls({"setting"})))

TestButton == Telling(Button("test integration", Calls({"probe"})))

SettingsPanel == Part({Loaded("settings", {"setting"}, "said")}, {SettingRow, TestButton})

\* app/(admin)/admin/platform/page.tsx
PlatformSettingRow == Patching({"platform settings"}, Button("save platform setting", Calls({"setting"})))

\* The rate is fetched first and its two settings are saved one after the other.
ExchangeRateCard ==
  Patching({"platform settings"}, Telling(Button("refresh exchange rate", Calls({"setting"}))))

AdminPlatformPage == Part({Loaded("platform settings", {"setting"}, "said")},
  {PlatformSettingRow, ExchangeRateCard})

\* app/(admin)/admin/integrations/page.tsx
IntegrationRow == Patching({"integrations"}, Telling(Button("save integration setting", Calls({"setting"}))))

AdminIntegrationsPage == Part({Loaded("integrations", {"setting"}, "said")},
  {IntegrationRow, Telling(Button("test geobox", Calls({"probe"})))})

-----------------------------------------------------------------------------
(* E-mail templates                                                         *)

\* app/(admin)/admin/email-templates/page.tsx
\* The editor is reset when another template is picked, and its whole text saved.
TemplateEditor == Offered({
  Patching({"templates"}, Telling(AsKept(Button("save e-mail template", Calls({"template"}))))),
  Telling(Button("preview e-mail template", Calls({"probe"}))),
  Telling(Button("send test e-mail", Calls({"probe"})))})

AdminEmailTemplatesPage ==
  Whole({TemplateEditor, Shown({Guarded(Loaded("templates", {"template"}, "said"))})})

-----------------------------------------------------------------------------
(* Feature flags and the permissions of roles                               *)

\* app/(admin)/admin/features/page.tsx
FeatureFlagsTab == Part(
  {Loaded("feature flags", {"feature"}, "said")},
  {Patching({"feature flags"}, Telling(Button("switch feature", Calls({"feature"}))))})

\* Another role can be picked while one is loaded; until its permissions arrive,
\* those of the one before stay on the screen, and can be saved.
RolesPermissionsTab == Part(
  {Loaded("platform roles", {"role"}, "said"),
   Turning(Loaded("platform role permissions", {"permission"}, "said"))},
  {Patching({"platform role permissions"},
     Telling(AsKept(Button("save platform permissions", Calls({"permission"})))))})

AdminFeaturesPage == Whole({FeatureFlagsTab, RolesPermissionsTab})

-----------------------------------------------------------------------------
(* Roles of users                                                           *)

\* app/(admin)/admin/user-roles/page.tsx
UserList == Shown({Turning(Loaded("users", {"user"}, "said"))})

\* Only the button of the role that is being revoked is disabled.
UserRoleDetail == Part(
  {Turning(Loaded("roles of user", {"user role"}, "said"))},
  {Patching({"roles of user"}, Telling(Button("assign role", Calls({"user role"})))),
   Patching({"roles of user"}, Telling(Button("revoke role", Calls({"user role"}))))})

AdminUserRolesPage == Whole({UserList, UserRoleDetail})

-----------------------------------------------------------------------------
(* Demo bookings                                                            *)

\* app/(admin)/admin/demo-bookings/page.tsx
AdminDemoBookingsPage == Part(
  {Turning(Guarded(Loaded("demo bookings", {"booking"}, "said")))},
  {Patching({"demo bookings"}, Telling(Button("change booking status", Calls({"booking"}))))})
=============================================================================
