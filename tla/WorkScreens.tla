---------------------------- MODULE WorkScreens -----------------------------
(***************************************************************************)
(* The pages of inspections, maintenance issues and contractors, and the   *)
(* pages an inspector or a tenant opens from a link.                       *)
(***************************************************************************)
EXTENDS StateTables

-----------------------------------------------------------------------------
(* Maintenance                                                              *)

\* app/(dashboard)/maintenance/page.tsx
NewIssueDialog == Part(
  {View("properties of an issue", useProperties, "blank")},
  {Button("report issue", useCreateMaintenanceIssue)})

MaintenancePage == Shown({Turning(View("issue list", useMaintenanceIssues, "blank"))})

\* app/(dashboard)/maintenance/[id]/page.tsx
IssueActions ==
  {[event |-> "ISSUE_STARTED", fromStates |-> {"assigned"}],
   [event |-> "ISSUE_RESOLVED", fromStates |-> {"in_progress"}],
   [event |-> "ISSUE_CLOSED", fromStates |-> {"resolved"}],
   [event |-> "ISSUE_CANCELLED", fromStates |-> {"reported", "assigned", "in_progress"}]}

\* A photo is uploaded before the list it joins is sent, and the cross beside
\* the others stays enabled meanwhile: the list is the one of before.
PhotoSection == Offered({AsSeen(Open("change issue photos", useUpdateMaintenanceIssue))})

AssignModal == Part(
  {View("contractors to assign", useContractors, "blank")},
  {In({"reported"},
      Button("assign issue", useTransitionMaintenanceIssue(IssueOffers("ISSUE_ASSIGNED"))))})

EditIssueForm == Offered({AsSeen(Button("edit issue", useUpdateMaintenanceIssue))})

MaintenanceActions == Part(
  {View("issue", useMaintenanceIssue, "blank")},
  {In(a.fromStates, Button(a.event, useTransitionMaintenanceIssue(IssueOffers(a.event)))) :
     a \in IssueActions})

MaintenanceDetailPage == Whole({MaintenancePage, NewIssueDialog, MaintenanceActions,
  PhotoSection, AssignModal, EditIssueForm})

-----------------------------------------------------------------------------
(* Inspections                                                              *)

\* app/(dashboard)/inspections/page.tsx
InspectionsPage == Shown({Turning(View("inspection list", useInspections, "blank"))})

\* app/(dashboard)/inspections/new/page.tsx
NewInspectionPage == Part(
  {View("units to inspect", useUnits(Undefined), "blank"),
   View("inspectors", useContractors, "blank")},
  {Button("schedule inspection", useCreateInspection)})

\* app/(dashboard)/inspections/[id]/page.tsx
InspectionActions ==
  {[event |-> "INSPECTION_STARTED", fromStates |-> {"scheduled"}],
   [event |-> "INSPECTION_COMPLETED", fromStates |-> {"in_progress"}],
   [event |-> "INSPECTION_APPROVED", fromStates |-> {"completed"}],
   [event |-> "INSPECTION_FAILED", fromStates |-> {"in_progress", "completed"}],
   [event |-> "INSPECTION_CANCELLED", fromStates |-> {"scheduled", "in_progress"}],
   [event |-> "INSPECTION_CREATED", fromStates |-> {"failed", "cancelled"}]}

\* types/states.ts
\* The backend's table, which is the one of types/states.ts.
InspectionTakes(event) ==
  CASE event = "INSPECTION_STARTED" -> {"scheduled"}
    [] event = "INSPECTION_COMPLETED" -> {"in_progress"}
    [] event = "INSPECTION_APPROVED" -> {"completed"}
    [] event = "INSPECTION_FAILED" -> {"in_progress", "completed"}
    [] event = "INSPECTION_CANCELLED" -> {"scheduled"}
    [] event = "INSPECTION_CREATED" -> {"failed", "cancelled"}

\* app/(dashboard)/inspections/[id]/page.tsx
EditInspectionForm == Offered({AsSeen(Button("edit inspection", useUpdateInspection))})

ChecklistEditor == Offered({AsKept(Button("save checklist", useUpdateInspection))})

PhotosSection == Offered({Telling(Button("add photos", Calls({"inspection photos"})))})

\* The parent invalidates the inspection once the report or a signature is in.
ReportCalls == Within("inspection", {"completed", "approved"}, {"report"}, {}, FALSE)

ReportSignatureSection == Offered({
  Reloading({"inspection"}, Telling(In({"completed", "approved"}, Button("generate report", ReportCalls)))),
  Reloading({"inspection"}, Telling(In({"completed", "approved"}, Button("sign as landlord", ReportCalls)))),
  Reloading({"inspection"}, Telling(Button("send for signing", Calls({"report"}))))})

AssignInspectorModal == Part(
  {View("inspectors to assign", useContractors, "blank")},
  {Button("assign inspector", useAssignInspector)})

InspectionHeader == Part(
  {View("inspection", useInspection, "blank")},
  {Button("resend inspector invite", useResendInspectorInvite)}
  \cup {In(a.fromStates, Button(a.event, useTransitionInspection(InspectionTakes(a.event)))) :
          a \in InspectionActions})

LinkedIssues == Shown({View("issues of the inspection", useMaintenanceIssues, "blank")})

InspectionDetailPage == Whole({InspectionsPage, NewInspectionPage, InspectionHeader,
  EditInspectionForm, ChecklistEditor, PhotosSection, ReportSignatureSection,
  AssignInspectorModal, LinkedIssues})

-----------------------------------------------------------------------------
(* Pages opened from a link                                                 *)

\* app/inspect/portal/[token]/page.tsx
\* An upload the server refuses is dropped without a word.
PhotoUploadArea == Offered({Button("upload inspection photo", Calls({"inspection photos"}))})

\* The form is gone once it is sent: the answer is not shown from a query.
InspectorPortalPage == Part(
  {View("inspector portal", useInspectorPortal, "said")},
  {In({"scheduled", "in_progress"}, Button("submit inspection",
     [useInspectorSubmit EXCEPT !.row = "inspection",
                                !.takes = {"scheduled", "in_progress", "cancelled"}]))})

InspectorSubmission == Whole({InspectorPortalPage, PhotoUploadArea})

\* app/inspect/sign/[token]/page.tsx
PublicReport == Query(<<"inspection-sign", "token">>, {"report"})

\* The answer is shown in place of the report: nothing has to be loaded again.
TenantSignView == Shown({View("report to sign", PublicReport, "said")})

TenantSignPage == Whole({TenantSignView, Offered({
  Patching({"report to sign"}, In({"unsigned"}, Button("sign report",
    CallsToMove("report", {"unsigned"}))))})})

-----------------------------------------------------------------------------
(* Contractors                                                              *)

\* app/(dashboard)/contractors/page.tsx
ContractorForm == Offered({
  Button("new contractor", useCreateContractor), AsSeen(Button("edit contractor", useUpdateContractor))})

ContractorsPage == Whole({ContractorForm, Part(
  {Turning(View("contractor list", useContractors, "blank"))},
  {Open("deactivate contractor", useDeactivateContractor)})})
=============================================================================
