----------------------------- MODULE MCScreens ------------------------------
(***************************************************************************)
(* Every screen of the catalog, and the defects its tables are known to    *)
(* have: what the properties of Screens excuse, and nothing else.  Each    *)
(* entry is reached; without it the run finds the property violated.       *)
(***************************************************************************)
EXTENDS Screens, LeaseScreens, WorkScreens, PropertyScreens, TenantScreens,
  PortalScreens, AdminScreens, AccountScreens

AllScreens ==
  {LeaseDetailPanel, LeasePanels, NewLeaseForm, MaintenanceDetailPage, InspectionDetailPage,
   InspectorSubmission, TenantPortalPage, TenantDetailPage, TenantSignPage, ContractorsPage,
   PropertyScreen, UnitScreen, Shown({GeocodeField, LocationSearch}),
   AdminPage, LeaseBillingTab, RbacPanel, AdminBillingPage, AdminSearchCombobox,
   AgencyDetailPage, LandlordDetailPage, SettingsPanel, AdminPlatformPage,
   AdminIntegrationsPage, AdminEmailTemplatesPage, AdminFeaturesPage, AdminUserRolesPage,
   AdminDemoBookingsPage, PaymentScreens, SubscriptionScreens, LandlordsPage, SettingsPage,
   NotificationsPage, CompliancePage, ReportsPage, AuditLogPage}

\* LEASE_TRANSITIONS knows states and events the backend does not; the page of a
\* payment lets retry_scheduled be confirmed and failed be rejected; a completed
\* inspection is offered to be cancelled.
KnownRefusable ==
  {"activate lease", "terminate lease", "countersign agreement", "INSPECTION_CANCELLED",
   "confirm payment", "reject payment"}

\* Neither the hook nor its caller has an onError that says something.
KnownSilent ==
  {"INSPECTION_CREATED", "INSPECTION_STARTED", "INSPECTION_COMPLETED", "INSPECTION_APPROVED",
   "INSPECTION_FAILED", "INSPECTION_CANCELLED", "schedule inspection", "report issue",
   "request maintenance", "upload inspection photo", "sign report",
   "commit property import", "commit tenant import", "extend subscription",
   "save setting", "save platform setting", "invite caretaker", "deactivate caretaker",
   "resend caretaker invite", "revoke caretaker invite", "revoke landlord invite",
   "resend landlord invite in the settings", "revoke landlord invite in the settings",
   "resend agency invite", "revoke agency invite in the settings"}

\* Forms that send all they hold, filled before an answer or another edit changed it.
KnownUndoing ==
  {"edit contractor", "edit unit", "edit property", "edit inspection", "edit issue",
   "edit tenant", "change property photos", "change issue photos", "change tenant notes"}

KnownStale ==
  \* the hooks of units invalidate units("undefined"), never those of useUnits("all")
  ({"existing units"} \X
     {"archive unit", "create unit", "edit unit", "rename unit", "rename units",
      "reset unit rules", "save unit rules", "set unit status"})
  \cup {<<"units to lease", "create lease">>}
  \* only the record itself is invalidated, not the lists it is in
  \cup ({"property list", "filtered properties"} \X {"save property rules"})
  \cup ({"tenant list"} \X {"edit tenant", "change tenant notes"})
  \cup ({"lease list"} \X {"confirm onboarding payments", "correct start date",
                           "send for signature", "terminate lease"})
  \cup {<<"inspection list", "assign inspector">>}
  \* what the plan allows is not asked for again
  \cup ({"property limit"} \X {"archive property", "commit property import"})
  \cup ({"unit limit"} \X {"add units", "create unit", "delete units"})
  \cup ({"usage of the plan", "invoices"} \X {"submit subscription payment"})
  \* the administrator's other tabs
  \cup ({"billing analytics", "billing charts"} \X
          {"approve subscription payment", "reject subscription payment",
           "suspend subscription", "extend subscription"})
  \cup ({"subscriptions"} \X {"approve subscription payment", "reject subscription payment"})
  \cup ({"landlords"} \X {"assign landlord", "migrate landlord", "repair landlord",
                          "remove from Logto organisation"})
  \* other hooks and handlers without an invalidation
  \cup ({"payment statistics"} \X {"confirm payment", "reject payment", "cancel payment"})
  \cup {<<"caretaker invites", "resend caretaker invite">>,
        <<"receipt counts", "retry receipt">>,
        \* a page loaded before the change arrives after it was shown
        <<"demo bookings", "change booking status">>}

\* The page waits for an organisation it never asks for again.
KnownStuck == {"organisation of the receipts"}

\* Effects that set the state with whichever answer comes last.
KnownRacing ==
  {"geocode lookup", "rent increases", "eviction notices", "organisation search", "users",
   "role detail", "platform role permissions", "roles of user", "receipts"}

None == {}
=============================================================================
