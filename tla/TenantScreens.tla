--------------------------- MODULE TenantScreens ----------------------------
(***************************************************************************)
(* The pages about tenants: the list, invitations, the import, and the     *)
(* detail page with its notes, documents and the review of an onboarding.  *)
(***************************************************************************)
EXTENDS StateTables

\* components/tenants/TenantTable.tsx
TenantTable == Shown({Turning(View("tenant list", useTenants, "blank"))})

\* components/tenants/InviteModal.tsx
\* The units of a property are asked for with a page size of their own.
InviteForm == Shown({
  View("properties to invite to", useProperties, "blank"),
  View("units to invite to", useUnits("all"), "blank")})

InviteModal == Offered({Button("invite tenant", useInviteTenant)})

\* app/(dashboard)/tenants/components/AnnounceModal.tsx
useCreateAnnouncement == Adds({"announcement"}, {<<"announcements">>}, TRUE)

AnnounceModal == Offered({Button("announce", useCreateAnnouncement)})

\* app/(dashboard)/tenants/components/CreateTenantModal.tsx
useCreateTenant == Adds({"tenant"}, {TenantsAll}, FALSE)

CreateTenantModal == Offered({Telling(Button("create tenant", useCreateTenant))})

\* app/(dashboard)/tenants/components/TenantImportModal.tsx
\* A preview of the file, then the commit; nobody tells of a failed commit.
TenantImportModal == Offered({Button("commit tenant import", useCommitTenantImport)})

\* app/(dashboard)/tenants/[id]/page.tsx
EditTenantForm == Offered({AsSeen(Button("edit tenant", useUpdateTenant))})

\* The list of notes is kept from when the page was opened and sent whole.  A
\* note can be removed while an earlier change of the list is under way.
TenantNotesSection == Offered({AsKept(Open("change tenant notes", useUpdateTenant))})

ResendInviteSection == Offered({
  In({"invited", "started", "rejected"}, Button("resend invite", useResendInvite)),
  In({"invited", "started"}, Button("cancel invite", useCancelInvite))})

ApproveRejectSection == Offered({
  In({"submitted"}, Button("approve tenant", useApproveOnboarding)),
  In({"submitted"}, Button("reject tenant", useRejectOnboarding))})

AnonymiseTenant == Offered({Button("anonymise tenant", useAnonymiseTenant)})

TenantView == Shown({View("tenant", useTenant, "blank")})

\* components/tenants/TenantDocumentsSection.tsx
UploadDialog == Offered({Button("upload document", useUploadTenantDocument)})

DocumentStatus == View("documents", useTenantDocuments, "blank")

DocumentRow == Offered({
  Button("verify document", useVerifyTenantDocument),
  Button("delete document", useDeleteTenantDocument)})

TenantDocumentsSection == Whole({Shown({DocumentStatus}), UploadDialog, DocumentRow})

\* app/(dashboard)/tenants/page.tsx
TenantsPage == Whole({TenantTable, AnnounceModal, TenantImportModal, CreateTenantModal,
  InviteForm, InviteModal})

\* app/(dashboard)/tenants/[id]/page.tsx
TenantDetailPage == Whole({TenantsPage, TenantView, EditTenantForm, TenantNotesSection,
  TenantDocumentsSection, ResendInviteSection, ApproveRejectSection, AnonymiseTenant})
=============================================================================
