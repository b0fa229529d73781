------------------------------ MODULE Screens -------------------------------
(***************************************************************************)
(* One view and one control of a screen of the frontend, the backend they  *)
(* talk to through the BFF proxy, and another user of the same data.       *)
(*                                                                         *)
(* A view loads its data with a query hook, or with an effect and state of *)
(* its own.  A control is a button or form that sends one kind of request. *)
(* The screens themselves are the Catalog, tables translated from the      *)
(* pages; what one control does to one view of its screen is worked out    *)
(* here.  A behaviour keeps to one such pair, so the Catalog may be large. *)
(***************************************************************************)
EXTENDS Naturals, Sequences

CONSTANTS
  Catalog,    \* the screens: records of views and controls
  States,     \* States[kind]: the states a row of that kind can be in
  MaxPress,   \* bound: how often the control is pressed
  MaxFaults,  \* bound: requests that fail or whose answer is lost
  Refusable,  \* known gap: controls offered where the backend refuses them
  Doubling,   \* known gap: controls that can be pressed twice at once
  Silent,     \* known gap: controls whose failure nobody tells
  Stale,      \* known gap: <<view, control>>, a success the view does not show
  Undoing,    \* known gap: controls whose request can undo an earlier one
  Stuck,      \* known gap: views that keep loading once a load has failed
  Racing      \* known gap: views in which an older answer may replace a newer one

VARIABLES
  traits,   \* how the view and the control of this behaviour work
  row,      \* backend: the state of the row the control is about
  writes,   \* backend: how many requests of the control took effect
  loads,    \* the view's loads in the order asked for, with what they bring
  shown,    \* what the view shows
  asks,     \* the control's requests in the order sent
  chosen,   \* the filter, page or search chosen in the view: 0 or 1
  faults,   \* how many requests failed or lost their answer
  meddled,  \* whether another user moved the row
  undone    \* whether a request put back what an earlier one had changed

vars == <<traits, row, writes, loads, shown, asks, chosen, faults, meddled, undone>>

K == INSTANCE MutationHooks

-----------------------------------------------------------------------------
(* Pairs                                                                    *)

\* What the control does can be seen in the view.
Related(v, c) == c.sends.writes \cap v.query.shows # {}

\* What stands in for the view of a control that no view shows anything of, and
\* for the control of a view that no control changes.
Blind == [name |-> "nothing", query |-> K!Query(<<>>, {}), keeps |-> "cache",
          turns |-> FALSE, failed |-> "said"]
Idle == [name |-> "nothing", sends |-> K!Changes({}, {}, FALSE), offered |-> {},
         locks |-> TRUE, carries |-> "change", says |-> FALSE, reloads |-> {}, patches |-> {}]

\* The pairs worth a behaviour: the related ones of a screen, and what is
\* related to nothing on its own.
PairsOf(s) ==
  LET related == {p \in s.views \X s.controls : Related(p[1], p[2])}
  IN  related \cup {<<v, Idle>> : v \in s.views \ {p[1] : p \in related}}
              \cup {<<Blind, c>> : c \in s.controls \ {p[2] : p \in related}}

Pairs == UNION {PairsOf(s) : s \in Catalog}

\* A success makes the view load again: its query was invalidated, or the
\* control's handler calls the view's loader.
Refreshes(v, c) ==
  \/ v.keeps = "cache" /\ K!Invalidated(c.sends.refreshes, v.query.key)
  \/ v.name \in c.reloads

\* The rows a control can be about, as far as it tells them apart: by whether it
\* is offered and whether the backend takes it.
Rows(c) == {[offered |-> s \in c.offered, taken |-> s \in c.sends.takes] : s \in States[c.sends.row]}
NoRow == [offered |-> FALSE, taken |-> FALSE]

\* The properties a pair is known to break.
Gaps(v, c) ==
  {g \in {"refusable", "doubling", "silent", "undoing", "stale", "stuck", "racing"} :
     CASE g = "refusable" -> c.name \in Refusable
       [] g = "doubling" -> c.name \in Doubling
       [] g = "silent" -> c.name \in Silent
       [] g = "undoing" -> c.name \in Undoing
       [] g = "stale" -> <<v.name, c.name>> \in Stale
       [] g = "stuck" -> v.name \in Stuck
       [] g = "racing" -> v.name \in Racing}

\* All that a behaviour of a pair depends on.
Traits(v, c) ==
  [keeps |-> v.keeps, turns |-> v.turns, polls |-> v.query.polls, failed |-> v.failed,
   related |-> Related(v, c), showsRow |-> c.sends.row \in v.query.shows,
   refreshes |-> Refreshes(v, c), patches |-> v.name \in c.patches,
   rows |-> Rows(c), adds |-> c.sends.adds,
   leaves |-> c.sends.leaves, locks |-> c.locks, carries |-> c.carries, told |-> c.sends.told \/ c.says,
   gaps |-> Gaps(v, c)]

\* Pairs of the same traits behave alike: a behaviour stands for all of them.
AllTraits == {Traits(p[1], p[2]) : p \in Pairs}
Examples(t) == {<<p[1].name, p[2].name>> : p \in {q \in Pairs : Traits(q[1], q[2]) = t}}

-----------------------------------------------------------------------------
(* States                                                                   *)

NewLoad(c) == [st |-> "asked", chosen |-> c, row |-> row, writes |-> 0]
Ask(offered, saw) ==
  [st |-> "sent", offered |-> offered, saw |-> saw, met |-> offered,
   took |-> FALSE, lost |-> FALSE, late |-> FALSE]

Unheard == {"stored", "refused", "lost"}
InFlight == {i \in DOMAIN asks : asks[i].st \in {"sent"} \cup Unheard}
Quiet == /\ InFlight = {}
         /\ \A n \in DOMAIN loads : loads[n].st = "done"

TypeOK ==
  /\ traits.rows \subseteq [offered : BOOLEAN, taken : BOOLEAN]
  /\ row \in traits.rows /\ writes \in 0..MaxPress
  /\ \A n \in DOMAIN loads :
       /\ loads[n].st \in {"asked", "served", "broken", "done"}
       /\ loads[n].chosen \in {0, 1} /\ loads[n].row \in traits.rows
       /\ loads[n].writes \in 0..MaxPress
  /\ shown.st \in {"loading", "ready", "failed"}
  /\ shown.load \in 0..Len(loads) /\ shown.chosen \in {0, 1}
  /\ shown.row \in traits.rows \cup {NoRow} /\ shown.writes \in 0..MaxPress
  /\ Len(asks) <= MaxPress
  /\ \A i \in DOMAIN asks :
       /\ asks[i].st \in {"sent", "heard", "told", "silent"} \cup Unheard
       /\ asks[i].offered \in traits.rows /\ asks[i].met \in traits.rows
       /\ asks[i].saw \in 0..MaxPress
       /\ asks[i].took \in BOOLEAN /\ asks[i].lost \in BOOLEAN /\ asks[i].late \in BOOLEAN
  /\ chosen \in {0, 1} /\ faults \in 0..MaxFaults /\ meddled \in BOOLEAN /\ undone \in BOOLEAN

Init ==
  /\ traits \in AllTraits
  /\ row \in traits.rows /\ writes = 0
  /\ chosen = 0 /\ loads = <<NewLoad(0)>>
  /\ shown = [st |-> "loading", load |-> 0, chosen |-> 0, row |-> NoRow, writes |-> 0]
  /\ asks = <<>> /\ faults = 0 /\ meddled = FALSE /\ undone = FALSE

-----------------------------------------------------------------------------
(* Loading                                                                  *)

\* The user turns a page, types a search or picks a filter.
Turn ==
  /\ traits.turns /\ chosen = 0
  /\ chosen' = 1
  /\ loads' = Append(loads, NewLoad(1))
  /\ shown' = IF traits.keeps = "previous" THEN shown ELSE [shown EXCEPT !.st = "loading"]
  /\ UNCHANGED <<traits, row, writes, asks, faults, meddled, undone>>

\* refetchInterval, once everything else has settled.
Poll ==
  /\ traits.polls /\ Quiet
  /\ shown.writes # writes \/ shown.row # row
  /\ loads' = Append(loads, NewLoad(chosen))
  /\ UNCHANGED <<traits, row, writes, shown, asks, chosen, faults, meddled, undone>>

\* The backend serves a load from what it has at that moment, or it fails for
\* good (a query is tried twice, an effect once).
Serve(n) ==
  /\ loads[n].st = "asked"
  /\ \/ /\ loads' = [loads EXCEPT ![n].st = "served", ![n].row = row, ![n].writes = writes]
        /\ UNCHANGED faults
     \/ /\ faults < MaxFaults
        /\ loads' = [loads EXCEPT ![n].st = "broken"]
        /\ faults' = faults + 1
  /\ UNCHANGED <<traits, row, writes, shown, asks, chosen, meddled, undone>>

\* React Query keeps the answer of the last load only; an effect that does not
\* cancel its predecessor sets the state with whatever answer comes.
Heeds(n) == traits.keeps = "effect" \/ n = Len(loads)

Arrive(n) ==
  /\ loads[n].st \in {"served", "broken"}
  /\ loads' = [loads EXCEPT ![n].st = "done"]
  /\ shown' =
       CASE ~Heeds(n) -> shown
         [] Heeds(n) /\ loads[n].st = "served" ->
              [st |-> "ready", load |-> n, chosen |-> loads[n].chosen,
               row |-> loads[n].row, writes |-> loads[n].writes]
         [] Heeds(n) /\ loads[n].st = "broken" /\ shown.st = "ready" -> shown
         [] OTHER ->
              [shown EXCEPT !.load = n, !.row = NoRow, !.chosen = loads[n].chosen,
                            !.st = CASE traits.failed = "said" -> "failed"
                                     [] traits.failed = "blank" -> "ready"
                                     [] OTHER -> "loading"]
  /\ UNCHANGED <<traits, row, writes, asks, chosen, faults, meddled, undone>>

-----------------------------------------------------------------------------
(* Acting                                                                   *)

\* The user presses the control, offered for the state shown by the view, or
\* by another view of the screen that is up to date.  A control that sets the view
\* from its answer is part of what the view shows.  Once a row was added the form
\* is closed.
Press ==
  LET seen == IF traits.showsRow THEN shown.row ELSE row
  IN  /\ Len(asks) < MaxPress
      /\ traits.showsRow \/ traits.patches => shown.st = "ready"
      /\ seen.offered
      /\ traits.locks => InFlight = {}
      /\ traits.adds => \A i \in DOMAIN asks : asks[i].st # "heard"
      /\ asks' = Append(asks, Ask(seen, shown.writes))
      /\ UNCHANGED <<traits, row, writes, loads, shown, chosen, faults, meddled, undone>>

\* What a request carries: the change alone, the whole of what was shown when it
\* was made ("seen"), or a copy its component keeps ("kept"), in which only what
\* was asked for later is missing.
Outdated(i) ==
  \/ traits.carries = "seen" /\ asks[i].saw # writes
  \/ traits.carries = "kept" /\ \E j \in DOMAIN asks : j > i /\ asks[j].took

\* The backend takes a request: the row leaves the states that allow it, if it
\* is moved at all, and what is carried replaces what is there.
Effect(i) ==
  LET next == {s \in traits.rows : ~s.taken}
  IN  /\ row.taken
      /\ writes' = writes + 1
      /\ row' \in (IF traits.leaves /\ next # {} THEN next ELSE {row})
      /\ undone' = (undone \/ Outdated(i))

Handle(i) ==
  /\ asks[i].st = "sent"
  /\ \/ Effect(i) /\ asks' = [asks EXCEPT ![i].st = "stored", ![i].took = TRUE]
     \/ /\ ~row.taken
        /\ asks' = [asks EXCEPT ![i].st = "refused", ![i].met = row]
        /\ UNCHANGED <<row, writes, undone>>
  /\ UNCHANGED <<traits, loads, shown, chosen, faults, meddled>>

\* The answer is lost, or the proxy gives up after 10 s: the backend has taken
\* the request, never will, or is still at it.
Lose(i) ==
  /\ faults < MaxFaults
  /\ faults' = faults + 1
  /\ \/ /\ asks[i].st \in {"sent", "stored"}
        /\ asks' = [asks EXCEPT ![i].st = "lost", ![i].lost = TRUE]
     \/ /\ asks[i].st = "sent"
        /\ asks' = [asks EXCEPT ![i].st = "lost", ![i].lost = TRUE, ![i].late = TRUE]
  /\ UNCHANGED <<traits, row, writes, loads, shown, chosen, meddled, undone>>

\* A success refreshes the view, sets it from the answer, or leaves it alone.
Succeeds(i) ==
  /\ asks[i].st = "stored"
  /\ asks' = [asks EXCEPT ![i].st = "heard"]
  /\ IF traits.refreshes THEN loads' = Append(loads, NewLoad(chosen)) /\ UNCHANGED shown
     ELSE /\ UNCHANGED loads
          /\ shown' = IF traits.patches
                      THEN [shown EXCEPT !.row = row, !.writes = writes] ELSE shown
  /\ UNCHANGED <<traits, row, writes, chosen, faults, meddled, undone>>

\* A failure is told by the hook or by the caller, or by nobody.
Fails(i) ==
  LET word == IF traits.told THEN "told" ELSE "silent"
  IN  /\ asks[i].st \in {"refused", "lost"}
      /\ asks' = [asks EXCEPT ![i].st = word]
      /\ UNCHANGED <<traits, row, writes, loads, shown, chosen, faults, meddled, undone>>

\* The backend ends a request the proxy gave up.
EndsLate(i) ==
  /\ asks[i].late
  /\ Effect(i)
  /\ asks' = [asks EXCEPT ![i].late = FALSE, ![i].took = TRUE]
  /\ UNCHANGED <<traits, loads, shown, chosen, faults, meddled>>

\* Another user moves the row.
Meddle ==
  /\ ~meddled
  /\ \E other \in traits.rows \ {row} : row' = other
  /\ meddled' = TRUE
  /\ UNCHANGED <<traits, writes, loads, shown, asks, chosen, faults, undone>>

Next ==
  \/ Turn \/ Poll \/ Press \/ Meddle
  \/ \E n \in DOMAIN loads : Serve(n) \/ Arrive(n)
  \/ \E i \in DOMAIN asks : Handle(i) \/ Lose(i) \/ Succeeds(i) \/ Fails(i) \/ EndsLate(i)

Spec == Init /\ [][Next]_vars

-----------------------------------------------------------------------------
(* Properties                                                               *)

\* A control is not offered in a state in which the backend refuses it: a
\* refusal means that somebody else moved the row in between.
OfferedIsTaken ==
  \A i \in DOMAIN asks :
    asks[i].st = "refused" /\ asks[i].met = asks[i].offered => "refusable" \in traits.gaps

\* One form adds one row: a second one takes an answer that was lost.
TwoRowsNeedALostAnswer ==
  traits.adds /\ writes > 1 =>
    (\E i \in DOMAIN asks : asks[i].lost) \/ "doubling" \in traits.gaps

\* The user is told of every request that failed.
FailureIsSaid ==
  (\E i \in DOMAIN asks : asks[i].st = "silent") => "silent" \in traits.gaps

\* A request does not put back what another one of the same control changed,
\* unless one of them was given up.
UndoesNothing == undone => (\E i \in DOMAIN asks : asks[i].lost) \/ "undoing" \in traits.gaps

\* Once nothing is under way, a view shows what the control did and what was
\* chosen; a polling view may be late.
ShownIsTrue ==
  Quiet /\ faults = 0 /\ ~meddled /\ shown.st = "ready" =>
    \/ shown.chosen = chosen /\ (traits.related => shown.writes = writes)
    \/ traits.polls
    \/ "racing" \in traits.gaps
    \/ "stale" \in traits.gaps

\* A view whose loads have all ended is not still loading.
LoadingEnds == Quiet /\ shown.st = "loading" => "stuck" \in traits.gaps
=============================================================================
