-------------------------- MODULE PropertyScreens ---------------------------
(***************************************************************************)
(* The pages of properties and units, of their rules, and the import of    *)
(* properties from a spreadsheet.                                          *)
(***************************************************************************)
EXTENDS StateTables

-----------------------------------------------------------------------------
(* Properties                                                               *)

\* app/(dashboard)/properties/page.tsx
\* The import and the button for a new property are there below the limit of
\* the plan.  The archive is not told from the list.
PropertiesPage == Shown({
  View("property list", useProperties, "blank"),
  View("property limit", useSubscriptionUsage, "blank")})

\* A search and filters over what was loaded, and a card or a row for each.
PropertyGrid == Whole({PropertiesPage, Shown({View("filtered properties", useProperties, "blank")})})

\* app/(dashboard)/properties/components/ImportModal.tsx
ImportModal == Offered({Button("commit property import", useCommitImport)})

\* app/(dashboard)/properties/new/page.tsx
NewPropertyPage == Shown({View("organisation of the wizard", useOrganisation, "blank")})

\* app/(dashboard)/properties/[id]/page.tsx
\* The fields of the property as shown when the form opens are sent together.
EditPropertyForm == Offered({AsSeen(Button("edit property", useUpdateProperty))})

\* Each change sends the list of images as it was when it began; the crosses
\* stay enabled while photos are uploaded.
PropertyPhotos == Offered({AsSeen(Open("change property photos", useUpdateProperty))})

PropertyDetailPage == Shown({View("property", useProperty, "blank")})

ArchiveProperty == Offered({Telling(In({"open"}, Button("archive property", useDeleteProperty)))})

-----------------------------------------------------------------------------
(* Rules                                                                    *)

\* app/(dashboard)/properties/[id]/rules/page.tsx
UnitSelector == Shown({View("units with rules", useUnits(Undefined), "blank")})

PropertyRulesPage == Part(
  {View("property of the rules", useProperty, "blank")},
  {Button("save unit rules", useUpdateUnitRules), Button("reset unit rules", useUpdateUnitRules)})

\* components/properties/RulesBuilder.tsx
\* The rules of before are merged into the ones sent.
RulesBuilder == Offered({Button("save property rules", useUpdatePropertyRules)})

-----------------------------------------------------------------------------
(* Units                                                                    *)

\* components/properties/UnitGrid.tsx
InlineRenameInput == Offered({Button("rename unit", useUpdateUnit)})

UnitActionsMenu == Offered({Button("archive unit", useArchiveUnit)})

UnitGrid == Shown({View("unit grid", useUnits(Undefined), "blank")})

\* components/properties/BulkOperationsBar.tsx
applyStatus == Button("set unit status", useBulkUpdateUnits)

applyRename == Button("rename units", useBatchRenameUnits)

applyDelete == Button("delete units", useBatchDeleteUnits)

BulkOperationsBar == Offered({applyStatus, applyRename, applyDelete})

\* app/(dashboard)/properties/[id]/units/page.tsx
UnitsPage == Shown({View("property of the units", useProperty, "blank")})

\* app/(dashboard)/properties/[id]/units/new/page.tsx
NewUnitPage == Offered({Telling(Button("create unit", useCreateUnit))})

\* app/(dashboard)/properties/[id]/units/bulk-add/page.tsx
BulkAddUnitsPage == Part(
  {View("existing units", useUnits("all"), "blank")},
  {Telling(Button("add units", useBulkCreateUnits))})

\* app/(dashboard)/properties/[id]/units/[unitId]/page.tsx
EditUnitForm == Offered({AsSeen(Button("edit unit", useUpdateUnit))})

UnitDetailPage == Shown({View("unit", useUnit, "blank")})

\* The tenant and the lease of an occupied unit, or that it is free.
UnitOccupancy == Shown({
  View("tenant of the unit", useTenant, "blank"), View("lease of the unit", useLease, "blank")})

\* app/(dashboard)/properties/[id]/page.tsx
\* The pages about one property, with the lists that stay in the cache.
PropertyScreen == Whole({PropertyGrid, ImportModal, PropertyDetailPage, EditPropertyForm,
  PropertyPhotos, ArchiveProperty, RulesBuilder, PropertyRulesPage})

\* components/properties/UnitGrid.tsx
UnitScreen == Whole({UnitsPage, UnitSelector, PropertyRulesPage, UnitGrid, InlineRenameInput,
  UnitActionsMenu, BulkOperationsBar, NewUnitPage, BulkAddUnitsPage, EditUnitForm,
  UnitDetailPage, UnitOccupancy, Shown({View("unit limit", useSubscriptionUsage, "blank")})})

-----------------------------------------------------------------------------
(* Addresses                                                                *)

\* components/ui/geocode-field.tsx
\* A geocode is looked up when asked for; the answer of an earlier one is not
\* dropped when a later one was typed.
GeocodeField == Turning(Loaded("geocode lookup", {"place"}, "said"))

\* components/ui/location-search.tsx
\* Villages are searched for what was typed 300 ms ago.
LocationSearch == Turning(View("village search", useVillageSearch, "blank"))
=============================================================================
