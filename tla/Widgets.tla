------------------------------ MODULE Widgets -------------------------------
(***************************************************************************)
(* What the pages of the frontend are put together from, as far as the     *)
(* behaviours of Screens tell them apart: views, controls, and screens.    *)
(***************************************************************************)
EXTENDS MutationHooks

\* lib/queryClient.ts
\* A view of a query hook.  `failed' is what it shows when its first load
\* fails: an error ("said"), as if there were nothing ("blank"), or the
\* skeleton it showed while loading ("waits").
View(name, hook, failed) ==
  [name |-> name, query |-> hook, keeps |-> "cache", turns |-> FALSE, failed |-> failed]

\* A view loaded by an effect into state of the component, so that no key
\* refreshes it.
Loaded(name, facts, failed) ==
  [View(name, Query(<<>>, facts), failed) EXCEPT !.keeps = "effect"]

\* An effect whose cleanup drops the answers of earlier loads.
Guarded(v) == [v EXCEPT !.keeps = "guarded"]

\* keepPreviousData: the last page stays while the next one loads.
Keeping(v) == [v EXCEPT !.keeps = "previous"]

\* components/common/DataTable.tsx
\* A view with pages, a search or filters that are loaded again when chosen.
Turning(v) == [v EXCEPT !.turns = TRUE]

\* components/ui/button.tsx
\* A button, or the form or dialog it ends in, that is disabled while its
\* request is pending.  Its caller tells nothing of a failure.
Button(name, mutation) ==
  [name |-> name, sends |-> mutation, offered |-> {"any"}, locks |-> TRUE,
   carries |-> "change", says |-> FALSE, reloads |-> {}, patches |-> {}]

\* A button that stays enabled while its request is pending.
Open(name, mutation) == [Button(name, mutation) EXCEPT !.locks = FALSE]

\* The button is there when the row is in one of the states.
In(states, c) == [c EXCEPT !.offered = states]

\* The request carries all fields or the whole list as the user saw them, changed
\* in one place.
AsSeen(c) == [c EXCEPT !.carries = "seen"]

\* The request carries the whole of a copy the component keeps and changes.
AsKept(c) == [c EXCEPT !.carries = "kept"]

\* store/useUIStore.ts
\* The caller tells of a failure.
Telling(c) == [c EXCEPT !.says = TRUE]

\* On success the caller has the named views load again, or sets them from
\* the answer.
Reloading(views, c) == [c EXCEPT !.reloads = views]
Patching(views, c) == [c EXCEPT !.patches = views]

\* services/api/client.ts
\* A request made without a mutation hook: no key is invalidated and the
\* caller alone can tell of a failure.
Calls(writes) == Changes(writes, {}, FALSE)
CallsToAdd(writes) == Adds(writes, {}, FALSE)
CallsToMove(row, takes) == Moves(row, takes, {row}, {}, FALSE)

\* features/utilities/components/UtilityPanel.tsx
\* Queries made where they are shown, without a hook.
Readings == Query(<<"utility-readings", "lease">>, {"reading"})
\* features/screenings/components/ScreeningPanel.tsx
Screenings == Query(<<"screenings", "unit">>, {"screening"})

\* types/states.ts
\* The states a row can be in.
RowStates ==
  [none |-> {"any"},
   lease |-> LeaseStates,
   payment |-> P!Statuses,
   fee |-> {"applied", "paid", "waived"},
   deposit |-> {"held", "partially_returned", "fully_returned", "forfeited"},
   property |-> {"open", "archived"},
   tenant |-> {"invited", "started", "submitted", "approved", "activated", "rejected"},
   bill |-> {"pending_verification", "verified", "rejected"},
   inspection |-> {"scheduled", "in_progress", "completed", "approved", "failed", "cancelled"},
   issue |-> {"reported", "assigned", "in_progress", "resolved", "closed", "cancelled"},
   increase |-> {"pending_ack", "acknowledged", "applied", "withdrawn"},
   eviction |-> {"issued", "served", "disputed", "withdrawn", "executed"},
   reading |-> {"unbilled", "billed"},
   report |-> {"unsigned", "signed"},
   screening |-> {"pending", "approved", "rejected"},
   receipt |-> {"pending", "failed", "issued"},
   caretakerInvite |-> InviteStates,
   landlordInvite |-> InviteStates,
   agencyInvite |-> InviteStates]

\* A screen or a part of one, and a screen made of parts.
Part(views, controls) == [views |-> views, controls |-> controls]
Shown(views) == Part(views, {})
Offered(controls) == Part({}, controls)
Whole(parts) ==
  [views |-> UNION {p.views : p \in parts}, controls |-> UNION {p.controls : p \in parts}]
=============================================================================
