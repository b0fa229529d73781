--------------------------- MODULE ScreensProofs ----------------------------
(***************************************************************************)
(* What a screen needs for each of the properties of Screens, proved for   *)
(* every catalog, every number of requests and every number of faults.     *)
(* The run works a catalog out pair by pair; the theorems say which        *)
(* entries of the tables decide: a pair of a view and a control that meets *)
(* the condition of a property, or is listed as a known gap, never breaks  *)
(* it, however loads, requests, answers and other users interleave.        *)
(***************************************************************************)
EXTENDS Screens, TLAPS

-----------------------------------------------------------------------------
(* Conditions on a pair                                                     *)

NeverOffered(t) == \A r \in t.rows : ~r.offered
OffersOnlyTaken(t) == \A r \in t.rows : r.offered => r.taken

\* The control is offered only where the backend refuses it.
Futile(t) == \A r \in t.rows : ~(r.offered /\ r.taken)

\* One form is one row: a form that adds one is disabled while its request is out.
AddsOnce(t) == t.adds => t.locks \/ NeverOffered(t)

TellsFailure(t) == t.told \/ NeverOffered(t)

\* A request carries the change alone, or the copy its component keeps with the
\* control disabled meanwhile.
CarriesItsOwn(t) == t.carries = "change" \/ (t.carries = "kept" /\ t.locks)

\* Answers to loads cannot overtake each other: the last one is heeded, or there
\* is one only.
InOrder(t) == t.keeps # "effect" \/ (~t.turns /\ (~t.related \/ ~t.refreshes))

\* A success reaches the view, or there is none.
Reaches(t) == t.related => t.refreshes \/ (t.patches /\ ~t.turns) \/ Futile(t)

SaysFailedLoad(t) == t.failed \in {"said", "blank"}

-----------------------------------------------------------------------------
(* The inductive invariants                                                 *)

BothRows == [offered : BOOLEAN, taken : BOOLEAN]

LoadSet == [st : {"asked", "served", "broken", "done"}, chosen : {0, 1},
            row : BothRows, writes : Nat]
AskSet == [st : {"sent", "stored", "refused", "lost", "heard", "told", "silent"},
           offered : BothRows, saw : Nat, met : BothRows,
           took : BOOLEAN, lost : BOOLEAN, late : BOOLEAN]
ShownSet == [st : {"loading", "ready", "failed"}, load : Nat, chosen : {0, 1},
             row : BothRows, writes : Nat]

LoadsType == /\ loads \in Seq(LoadSet) /\ Len(loads) > 0
             /\ \A n \in 1..Len(loads) : loads[n].row \in traits.rows
AsksType == /\ asks \in Seq(AskSet)
            /\ \A i \in 1..Len(asks) :
                 /\ asks[i].offered \in traits.rows /\ asks[i].offered.offered
                 /\ asks[i].late => asks[i].lost
                 /\ asks[i].st = "lost" => asks[i].lost
ShownType == /\ shown \in ShownSet
             /\ shown.row \in traits.rows \cup {NoRow}
RestType == /\ traits \in AllTraits /\ row \in traits.rows /\ writes \in Nat
            /\ chosen \in {0, 1} /\ faults \in Nat
            /\ meddled \in BOOLEAN /\ undone \in BOOLEAN

\* The types, what a press was offered, and where a lost answer is noted.
TypeInv == LoadsType /\ AsksType /\ ShownType /\ RestType

Last == loads[Len(loads)]
Out == {"sent", "stored", "refused", "lost"}

\* What an answer says of a request that failed.
AnswerInv ==
  \A i \in 1..Len(asks) :
    /\ asks[i].st = "refused" => ~asks[i].met.taken
    /\ asks[i].st = "silent" => ~traits.told

\* Of a control that locks only the last request can be out, and of a form that
\* adds a row only the last one was heard.
LockInv ==
  traits.locks =>
    \A i \in 1..Len(asks) :
      /\ asks[i].st \in Out => i = Len(asks)
      /\ traits.adds /\ asks[i].st = "heard" => i = Len(asks)

NothingLost == \A i \in 1..Len(asks) : ~asks[i].lost

\* Each request that took effect was stored; the second one of a form would
\* need the first to be lost.
WritesInv ==
  /\ writes > 0 => Len(asks) > 0
  /\ traits.adds /\ traits.locks /\ NothingLost /\ writes > 0 =>
       writes = 1 /\ asks[Len(asks)].st \in {"stored", "heard"}

UndoneInv == CarriesItsOwn(traits) /\ undone => ~NothingLost

\* A view that loads has a load under way.
LoadingInv == SaysFailedLoad(traits) /\ shown.st = "loading" => Last.st # "done"

\* Without a fault nothing was broken, nothing lost.
FaultInv == faults = 0 => /\ NothingLost
                          /\ \A n \in 1..Len(loads) : loads[n].st # "broken"

\* The last load asks for what is chosen, and is shown once it is done.
ChosenInv ==
  /\ Last.chosen = chosen
  /\ ~traits.turns => /\ chosen = 0 /\ shown.chosen = 0
                      /\ \A n \in 1..Len(loads) : loads[n].chosen = 0
  /\ traits.keeps # "effect" /\ faults = 0 /\ Last.st = "done" => shown.chosen = chosen

\* Some request was stored and its answer is on the way.
Answering == \E i \in 1..Len(asks) : asks[i].st = "stored"

\* A refreshed view: its last load brings all that was written, is still to
\* be served, or is about to be followed by another one.
FreshInv ==
  traits.refreshes /\ traits.keeps # "effect" /\ faults = 0 =>
    /\ Last.st = "asked" \/ Last.writes = writes \/ Answering
    /\ Last.st = "done" => shown.writes = Last.writes

\* A view set from the answer: it loads once, before the control can be pressed.
PatchedInv ==
  traits.patches /\ ~traits.turns /\ ~traits.refreshes /\ ~traits.polls /\ faults = 0 =>
    /\ Len(loads) = 1
    /\ Last.st # "done" =>
         asks = <<>> /\ writes = 0 /\ shown.st = "loading" /\ Last.writes = 0
    /\ Last.st = "done" => shown.writes = writes \/ Answering

\* A control offered only where it is refused writes nothing, as long as nobody
\* else moves the row.
FutileInv ==
  Futile(traits) /\ ~meddled =>
    /\ writes = 0 /\ shown.writes = 0
    /\ shown.row \in {row, NoRow}
    /\ \A n \in 1..Len(loads) : loads[n].writes = 0 /\ loads[n].row = row
    /\ \A i \in 1..Len(asks) : asks[i].offered = row

ScreenInv ==
  /\ AnswerInv /\ LockInv /\ WritesInv /\ UndoneInv /\ LoadingInv
  /\ FaultInv /\ ChosenInv /\ FreshInv /\ PatchedInv /\ FutileInv

-----------------------------------------------------------------------------
(* What the traits of a pair are made of                                    *)

LEMMA TraitsRows == \A t \in AllTraits : t.rows \subseteq BothRows
<1>1. ASSUME NEW s, NEW X PROVE (s \in X) \in BOOLEAN
  <2>1. CASE s \in X
    <3>1. (s \in X) = TRUE
      BY <2>1
    <3> QED
      BY <3>1
  <2>2. CASE s \notin X
    <3>1. (s \in X) = FALSE
      BY <2>2
    <3> QED
      BY <3>1
  <2> QED
    BY <2>1, <2>2
<1>2. ASSUME NEW c, NEW r \in Rows(c) PROVE r \in BothRows
  <2>1. PICK s : r = [offered |-> s \in c.offered, taken |-> s \in c.sends.takes]
    BY DEF Rows
  <2>2. (s \in c.offered) \in BOOLEAN /\ (s \in c.sends.takes) \in BOOLEAN
    BY <1>1
  <2> DEFINE o == s \in c.offered
             k == s \in c.sends.takes
  <2>3. r = [offered |-> o, taken |-> k] /\ o \in BOOLEAN /\ k \in BOOLEAN
    BY <2>1, <2>2
  <2> HIDE DEF o, k
  <2> QED
    BY <2>3 DEF BothRows
<1>3. \A v, c : Traits(v, c).rows = Rows(c)
  BY DEF Traits
<1> QED
  BY <1>2, <1>3 DEF AllTraits

LEMMA NoRowType == NoRow \in BothRows /\ ~NoRow.offered
  BY DEF NoRow, BothRows

LEMMA TypesOfRows ==
  ASSUME TypeInv
  PROVE  /\ traits.rows \subseteq BothRows /\ row \in BothRows
         /\ \A n \in 1..Len(loads) : loads[n] \in LoadSet
         /\ \A i \in 1..Len(asks) : asks[i] \in AskSet
         /\ Len(loads) \in Nat \ {0} /\ Len(asks) \in Nat
         /\ DOMAIN loads = 1..Len(loads) /\ DOMAIN asks = 1..Len(asks)
  BY TraitsRows DEF TypeInv, LoadsType, AsksType, RestType

-----------------------------------------------------------------------------
(* What each action does, field by field                                    *)

\* Request i changes and keeps what it was offered; what was lost stays lost.
AskChanges(i) ==
  /\ asks' \in Seq(AskSet) /\ Len(asks') = Len(asks)
  /\ \A j \in 1..Len(asks) : j # i => asks'[j] = asks[j]
  /\ asks'[i].offered = asks[i].offered
  /\ asks[i].lost => asks'[i].lost

\* Load n changes and asks for what it asked for.
LoadChanges(n) ==
  /\ loads' \in Seq(LoadSet) /\ Len(loads') = Len(loads)
  /\ \A j \in 1..Len(loads) : j # n => loads'[j] = loads[j]
  /\ loads'[n].chosen = loads[n].chosen

\* One more load, of what is chosen now.
LoadAsked ==
  /\ loads' \in Seq(LoadSet) /\ Len(loads') = Len(loads) + 1
  /\ \A j \in 1..Len(loads) : loads'[j] = loads[j]
  /\ loads'[Len(loads')] = [st |-> "asked", chosen |-> chosen', row |-> row, writes |-> 0]

\* One element of a sequence is replaced.
LEMMA Replaced ==
  ASSUME NEW S, NEW s \in Seq(S), NEW i \in 1..Len(s), NEW e \in S
  PROVE  /\ [s EXCEPT ![i] = e] \in Seq(S)
         /\ Len([s EXCEPT ![i] = e]) = Len(s) /\ [s EXCEPT ![i] = e][i] = e
         /\ \A j \in 1..Len(s) : j # i => [s EXCEPT ![i] = e][j] = s[j]
  OBVIOUS

\* A request that changes into another one of the same offer.
LEMMA Changing ==
  ASSUME TypeInv, NEW i \in 1..Len(asks), NEW e \in AskSet,
         asks' = [asks EXCEPT ![i] = e],
         e.offered = asks[i].offered, asks[i].lost => e.lost
  PROVE  AskChanges(i) /\ asks'[i] = e
<1>1. asks \in Seq(AskSet)
  BY DEF TypeInv, AsksType
<1> QED
  BY <1>1, Replaced DEF AskChanges

LEMMA HandleFacts ==
  ASSUME TypeInv, NEW i \in 1..Len(asks), Handle(i)
  PROVE  /\ AskChanges(i) /\ asks[i].st = "sent"
         /\ asks'[i].lost = asks[i].lost /\ asks'[i].late = asks[i].late
         /\ \/ asks'[i].st = "stored" /\ Effect(i)
            \/ asks'[i].st = "refused" /\ ~asks'[i].met.taken /\ UNCHANGED <<row, writes, undone>>
         /\ UNCHANGED <<traits, loads, shown, chosen, faults, meddled>>
<1>1. asks \in Seq(AskSet) /\ asks[i] \in AskSet /\ row \in BothRows
  BY TypesOfRows DEF TypeInv, AsksType
<1>2. CASE asks' = [asks EXCEPT ![i].st = "stored", ![i].took = TRUE] /\ Effect(i)
  <2> DEFINE e == [asks[i] EXCEPT !.st = "stored", !.took = TRUE]
  <2>1. e \in AskSet /\ e.st = "stored" /\ e.offered = asks[i].offered
        /\ e.lost = asks[i].lost /\ e.late = asks[i].late
    BY <1>1 DEF AskSet
  <2>2. asks' = [asks EXCEPT ![i] = e]
    BY <1>1, <1>2
  <2> HIDE DEF e
  <2>3. AskChanges(i) /\ asks'[i] = e
    BY <2>1, <2>2, Changing
  <2> QED
    BY <1>2, <2>1, <2>3 DEF Handle
<1>3. CASE /\ asks' = [asks EXCEPT ![i].st = "refused", ![i].met = row]
           /\ ~row.taken /\ UNCHANGED <<row, writes, undone>>
  <2> DEFINE e == [asks[i] EXCEPT !.st = "refused", !.met = row]
  <2>1. e \in AskSet /\ e.st = "refused" /\ e.met = row /\ e.offered = asks[i].offered
        /\ e.lost = asks[i].lost /\ e.late = asks[i].late
    BY <1>1 DEF AskSet
  <2>2. asks' = [asks EXCEPT ![i] = e]
    BY <1>1, <1>3
  <2> HIDE DEF e
  <2>3. AskChanges(i) /\ asks'[i] = e
    BY <2>1, <2>2, Changing
  <2> QED
    BY <1>3, <2>1, <2>3 DEF Handle
<1> QED
  BY <1>2, <1>3 DEF Handle

LEMMA LoseFacts ==
  ASSUME TypeInv, NEW i \in 1..Len(asks), Lose(i)
  PROVE  /\ AskChanges(i) /\ asks[i].st \in {"sent", "stored"}
         /\ asks'[i].st = "lost" /\ asks'[i].lost
         /\ faults' = faults + 1
         /\ UNCHANGED <<traits, row, writes, loads, shown, chosen, meddled, undone>>
<1>1. asks \in Seq(AskSet) /\ asks[i] \in AskSet
  BY TypesOfRows DEF TypeInv, AsksType
<1>2. CASE /\ asks[i].st \in {"sent", "stored"}
           /\ asks' = [asks EXCEPT ![i].st = "lost", ![i].lost = TRUE]
  <2> DEFINE e == [asks[i] EXCEPT !.st = "lost", !.lost = TRUE]
  <2>1. e \in AskSet /\ e.st = "lost" /\ e.lost /\ e.offered = asks[i].offered
    BY <1>1 DEF AskSet
  <2>2. asks' = [asks EXCEPT ![i] = e]
    BY <1>1, <1>2
  <2> HIDE DEF e
  <2>3. AskChanges(i) /\ asks'[i] = e
    BY <2>1, <2>2, Changing
  <2> QED
    BY <1>2, <2>1, <2>3 DEF Lose
<1>3. CASE /\ asks[i].st = "sent"
           /\ asks' = [asks EXCEPT ![i].st = "lost", ![i].lost = TRUE, ![i].late = TRUE]
  <2> DEFINE e == [asks[i] EXCEPT !.st = "lost", !.lost = TRUE, !.late = TRUE]
  <2>1. e \in AskSet /\ e.st = "lost" /\ e.lost /\ e.offered = asks[i].offered
    BY <1>1 DEF AskSet
  <2>2. asks' = [asks EXCEPT ![i] = e]
    BY <1>1, <1>3
  <2> HIDE DEF e
  <2>3. AskChanges(i) /\ asks'[i] = e
    BY <2>1, <2>2, Changing
  <2> QED
    BY <1>3, <2>1, <2>3 DEF Lose
<1> QED
  BY <1>2, <1>3 DEF Lose

LEMMA SucceedsFacts ==
  ASSUME TypeInv, NEW i \in 1..Len(asks), Succeeds(i)
  PROVE  /\ AskChanges(i) /\ asks[i].st = "stored" /\ asks'[i].st = "heard"
         /\ asks'[i].lost = asks[i].lost /\ asks'[i].late = asks[i].late
         /\ \/ traits.refreshes /\ LoadAsked /\ UNCHANGED shown
            \/ /\ ~traits.refreshes /\ UNCHANGED loads
               /\ \/ traits.patches /\ shown' = [shown EXCEPT !.row = row, !.writes = writes]
                  \/ ~traits.patches /\ UNCHANGED shown
         /\ UNCHANGED <<traits, row, writes, chosen, faults, meddled, undone>>
<1>1. asks \in Seq(AskSet) /\ asks[i] \in AskSet
  BY TypesOfRows DEF TypeInv, AsksType
<1>2. AskChanges(i) /\ asks'[i].st = "heard"
      /\ asks'[i].lost = asks[i].lost /\ asks'[i].late = asks[i].late
  <2> DEFINE e == [asks[i] EXCEPT !.st = "heard"]
  <2>1. e \in AskSet /\ e.st = "heard" /\ e.offered = asks[i].offered
        /\ e.lost = asks[i].lost /\ e.late = asks[i].late
    BY <1>1 DEF AskSet
  <2>2. asks' = [asks EXCEPT ![i] = e]
    BY <1>1 DEF Succeeds
  <2> HIDE DEF e
  <2> QED
    BY <2>1, <2>2, Changing
<1>3. ASSUME loads' = Append(loads, NewLoad(chosen)), UNCHANGED chosen
      PROVE  LoadAsked
  BY <1>3, TypesOfRows DEF LoadAsked, NewLoad, LoadSet, TypeInv, LoadsType, RestType
<1> QED
  BY <1>2, <1>3 DEF Succeeds

LEMMA FailsFacts ==
  ASSUME TypeInv, NEW i \in 1..Len(asks), Fails(i)
  PROVE  /\ AskChanges(i) /\ asks[i].st \in {"refused", "lost"}
         /\ asks'[i].st = (IF traits.told THEN "told" ELSE "silent")
         /\ asks'[i].lost = asks[i].lost /\ asks'[i].late = asks[i].late
         /\ UNCHANGED <<traits, row, writes, loads, shown, chosen, faults, meddled, undone>>
<1>1. asks \in Seq(AskSet) /\ asks[i] \in AskSet
  BY TypesOfRows DEF TypeInv, AsksType
<1> DEFINE e == [asks[i] EXCEPT !.st = IF traits.told THEN "told" ELSE "silent"]
<1>2. /\ e \in AskSet /\ e.st = (IF traits.told THEN "told" ELSE "silent")
      /\ e.offered = asks[i].offered /\ e.lost = asks[i].lost /\ e.late = asks[i].late
  BY <1>1 DEF AskSet
<1>3. asks' = [asks EXCEPT ![i] = e]
  BY <1>1 DEF Fails
<1> HIDE DEF e
<1>4. AskChanges(i) /\ asks'[i] = e
  BY <1>2, <1>3, Changing
<1> QED
  BY <1>2, <1>4 DEF Fails

LEMMA EndsLateFacts ==
  ASSUME TypeInv, NEW i \in 1..Len(asks), EndsLate(i)
  PROVE  /\ AskChanges(i) /\ asks[i].late /\ asks[i].lost
         /\ asks'[i].st = asks[i].st /\ asks'[i].met = asks[i].met
         /\ asks'[i].lost /\ ~asks'[i].late
         /\ Effect(i)
         /\ UNCHANGED <<traits, loads, shown, chosen, faults, meddled>>
<1>1. asks \in Seq(AskSet) /\ asks[i] \in AskSet /\ (asks[i].late => asks[i].lost)
  BY TypesOfRows DEF TypeInv, AsksType
<1> DEFINE e == [asks[i] EXCEPT !.late = FALSE, !.took = TRUE]
<1>2. /\ e \in AskSet /\ e.st = asks[i].st /\ e.met = asks[i].met
      /\ e.offered = asks[i].offered /\ e.lost = asks[i].lost /\ ~e.late
  BY <1>1 DEF AskSet
<1>3. asks' = [asks EXCEPT ![i] = e]
  BY <1>1 DEF EndsLate
<1> HIDE DEF e
<1>4. AskChanges(i) /\ asks'[i] = e
  BY <1>2, <1>3, Changing
<1> QED
  BY <1>1, <1>2, <1>4 DEF EndsLate

LEMMA PressFacts ==
  ASSUME TypeInv, Press
  PROVE  /\ asks' \in Seq(AskSet) /\ Len(asks') = Len(asks) + 1
         /\ \A j \in 1..Len(asks) : asks'[j] = asks[j]
         /\ LET e == asks'[Len(asks')] IN
              /\ e.st = "sent" /\ ~e.lost /\ ~e.late
              /\ e.offered \in traits.rows /\ e.offered.offered
              /\ e.offered \in {row, shown.row}
         /\ traits.locks => \A j \in 1..Len(asks) : asks[j].st \notin Out
         /\ traits.adds => \A j \in 1..Len(asks) : asks[j].st # "heard"
         /\ traits.patches => shown.st = "ready"
         /\ UNCHANGED <<traits, row, writes, loads, shown, chosen, faults, meddled, undone>>
<1> DEFINE seen == IF traits.showsRow THEN shown.row ELSE row
<1>1. asks \in Seq(AskSet) /\ row \in traits.rows /\ traits.rows \subseteq BothRows
      /\ shown.row \in traits.rows \cup {NoRow} /\ shown.writes \in Nat
  BY TypesOfRows DEF TypeInv, AsksType, RestType, ShownType, ShownSet
<1>2. seen.offered /\ asks' = Append(asks, Ask(seen, shown.writes))
  BY DEF Press
<1>3. seen \in traits.rows /\ seen \in {row, shown.row}
  BY <1>1, <1>2, NoRowType
<1>4. Ask(seen, shown.writes) \in AskSet
  BY <1>1, <1>3 DEF Ask, AskSet
<1> HIDE DEF seen
<1>5. /\ asks' \in Seq(AskSet) /\ Len(asks') = Len(asks) + 1
      /\ \A j \in 1..Len(asks) : asks'[j] = asks[j]
      /\ asks'[Len(asks')] = Ask(seen, shown.writes)
  BY <1>1, <1>2, <1>4
<1>6. \A j \in 1..Len(asks) : asks[j].st \in Out => j \in InFlight
  BY TypesOfRows DEF InFlight, Unheard, Out
<1> QED
  BY <1>2, <1>3, <1>5, <1>6, TypesOfRows DEF Press, Ask

LEMMA TurnFacts ==
  ASSUME TypeInv, Turn
  PROVE  /\ traits.turns /\ LoadAsked /\ chosen' = 1
         /\ shown' \in ShownSet /\ shown'.row = shown.row /\ shown'.st \in {"loading", shown.st}
         /\ shown'.writes = shown.writes
         /\ UNCHANGED <<traits, row, writes, asks, faults, meddled, undone>>
<1>1. loads \in Seq(LoadSet) /\ shown \in ShownSet /\ row \in BothRows
  BY TypesOfRows DEF TypeInv, LoadsType, ShownType
<1>2. NewLoad(1) \in LoadSet
  BY <1>1 DEF NewLoad, LoadSet
<1>3. chosen' = 1 /\ loads' = Append(loads, NewLoad(1))
  BY DEF Turn
<1>4. LoadAsked
  BY <1>1, <1>2, <1>3 DEF LoadAsked, NewLoad
<1>5. shown' \in {shown, [shown EXCEPT !.st = "loading"]}
  BY DEF Turn
<1> QED
  BY <1>1, <1>4, <1>5 DEF Turn, ShownSet

LEMMA PollFacts ==
  ASSUME TypeInv, Poll
  PROVE  /\ traits.polls /\ LoadAsked
         /\ UNCHANGED <<traits, row, writes, shown, asks, chosen, faults, meddled, undone>>
<1>1. loads \in Seq(LoadSet) /\ row \in BothRows /\ chosen \in {0, 1}
  BY TypesOfRows DEF TypeInv, LoadsType, RestType
<1>2. NewLoad(chosen) \in LoadSet
  BY <1>1 DEF NewLoad, LoadSet
<1>3. chosen' = chosen /\ loads' = Append(loads, NewLoad(chosen))
  BY DEF Poll
<1>4. LoadAsked
  BY <1>1, <1>2, <1>3 DEF LoadAsked, NewLoad
<1> QED
  BY <1>4 DEF Poll

LEMMA ChangingLoad ==
  ASSUME TypeInv, NEW n \in 1..Len(loads), NEW e \in LoadSet,
         loads' = [loads EXCEPT ![n] = e], e.chosen = loads[n].chosen
  PROVE  LoadChanges(n) /\ loads'[n] = e
<1>1. loads \in Seq(LoadSet)
  BY DEF TypeInv, LoadsType
<1> QED
  BY <1>1, Replaced DEF LoadChanges

LEMMA ServeFacts ==
  ASSUME TypeInv, NEW n \in 1..Len(loads), Serve(n)
  PROVE  /\ LoadChanges(n) /\ loads[n].st = "asked"
         /\ \/ /\ loads'[n].st = "served" /\ loads'[n].row = row /\ loads'[n].writes = writes
               /\ UNCHANGED faults
            \/ /\ loads'[n].st = "broken" /\ loads'[n].row = loads[n].row
               /\ loads'[n].writes = loads[n].writes
               /\ faults' = faults + 1
         /\ UNCHANGED <<traits, row, writes, shown, asks, chosen, meddled, undone>>
<1>1. loads \in Seq(LoadSet) /\ loads[n] \in LoadSet /\ row \in BothRows /\ writes \in Nat
  BY TypesOfRows DEF TypeInv, LoadsType, RestType
<1>2. CASE /\ loads' = [loads EXCEPT ![n].st = "served", ![n].row = row, ![n].writes = writes]
           /\ UNCHANGED faults
  <2> DEFINE e == [loads[n] EXCEPT !.st = "served", !.row = row, !.writes = writes]
  <2>1. e \in LoadSet /\ e.st = "served" /\ e.row = row /\ e.writes = writes
        /\ e.chosen = loads[n].chosen
    BY <1>1 DEF LoadSet
  <2>2. loads' = [loads EXCEPT ![n] = e]
    BY <1>1, <1>2
  <2> HIDE DEF e
  <2>3. LoadChanges(n) /\ loads'[n] = e
    BY <2>1, <2>2, ChangingLoad
  <2> QED
    BY <1>2, <2>1, <2>3 DEF Serve
<1>3. CASE loads' = [loads EXCEPT ![n].st = "broken"] /\ faults' = faults + 1
  <2> DEFINE e == [loads[n] EXCEPT !.st = "broken"]
  <2>1. e \in LoadSet /\ e.st = "broken" /\ e.row = loads[n].row /\ e.writes = loads[n].writes
        /\ e.chosen = loads[n].chosen
    BY <1>1 DEF LoadSet
  <2>2. loads' = [loads EXCEPT ![n] = e]
    BY <1>1, <1>3
  <2> HIDE DEF e
  <2>3. LoadChanges(n) /\ loads'[n] = e
    BY <2>1, <2>2, ChangingLoad
  <2> QED
    BY <1>3, <2>1, <2>3 DEF Serve
<1> QED
  BY <1>2, <1>3 DEF Serve

\* What a view shows once a load brought its answer.
Filled(n) == [st |-> "ready", load |-> n, chosen |-> loads[n].chosen,
              row |-> loads[n].row, writes |-> loads[n].writes]

LEMMA ArriveFacts ==
  ASSUME TypeInv, NEW n \in 1..Len(loads), Arrive(n)
  PROVE  /\ LoadChanges(n) /\ loads[n].st \in {"served", "broken"}
         /\ loads'[n].st = "done" /\ loads'[n].row = loads[n].row
         /\ loads'[n].writes = loads[n].writes
         /\ shown' \in ShownSet
         /\ \/ ~Heeds(n) /\ UNCHANGED shown
            \/ Heeds(n) /\ loads[n].st = "served" /\ shown' = Filled(n)
            \/ /\ Heeds(n) /\ loads[n].st = "broken"
               /\ \/ shown.st = "ready" /\ UNCHANGED shown
                  \/ /\ shown'.st = "loading" => ~SaysFailedLoad(traits)
                     /\ shown'.row = NoRow /\ shown'.chosen = loads[n].chosen
                     /\ shown'.writes = shown.writes
         /\ UNCHANGED <<traits, row, writes, asks, chosen, faults, meddled, undone>>
<1>1. loads \in Seq(LoadSet) /\ loads[n] \in LoadSet /\ shown \in ShownSet /\ n \in Nat
  BY TypesOfRows DEF TypeInv, LoadsType, ShownType
<1>2. /\ LoadChanges(n) /\ loads'[n].st = "done"
      /\ loads'[n].row = loads[n].row /\ loads'[n].writes = loads[n].writes
  <2> DEFINE e == [loads[n] EXCEPT !.st = "done"]
  <2>1. e \in LoadSet /\ e.st = "done" /\ e.row = loads[n].row /\ e.writes = loads[n].writes
        /\ e.chosen = loads[n].chosen
    BY <1>1 DEF LoadSet
  <2>2. loads' = [loads EXCEPT ![n] = e]
    BY <1>1 DEF Arrive
  <2> HIDE DEF e
  <2> QED
    BY <2>1, <2>2, ChangingLoad
<1>3. Filled(n) \in ShownSet
  BY <1>1 DEF Filled, LoadSet, ShownSet
<1> DEFINE after == CASE traits.failed = "said" -> "failed"
                      [] traits.failed = "blank" -> "ready"
                      [] OTHER -> "loading"
           failing == [shown EXCEPT !.load = n, !.row = NoRow, !.chosen = loads[n].chosen,
                                    !.st = after]
<1>4. after \in {"failed", "ready", "loading"} /\ (after = "loading" => ~SaysFailedLoad(traits))
  BY DEF SaysFailedLoad
<1>5. loads[n].st \in {"served", "broken"}
      /\ shown' = (CASE ~Heeds(n) -> shown
                     [] Heeds(n) /\ loads[n].st = "served" -> Filled(n)
                     [] Heeds(n) /\ loads[n].st = "broken" /\ shown.st = "ready" -> shown
                     [] OTHER -> failing)
  BY DEF Arrive, Filled
<1> HIDE DEF after
<1>6. /\ failing \in ShownSet /\ failing.st = after /\ failing.row = NoRow
      /\ failing.chosen = loads[n].chosen /\ failing.writes = shown.writes
  BY <1>1, <1>4, NoRowType DEF ShownSet, LoadSet
<1> HIDE DEF failing
<1>7. \/ ~Heeds(n) /\ UNCHANGED shown
      \/ Heeds(n) /\ loads[n].st = "served" /\ shown' = Filled(n)
      \/ /\ Heeds(n) /\ loads[n].st = "broken"
         /\ (shown.st = "ready" /\ UNCHANGED shown) \/ shown' = failing
  BY <1>5
<1>8. UNCHANGED <<traits, row, writes, asks, chosen, faults, meddled, undone>>
  BY DEF Arrive
<1> QED
  BY <1>1, <1>2, <1>3, <1>4, <1>5, <1>6, <1>7, <1>8

LEMMA EffectFacts ==
  ASSUME TypeInv, NEW i \in 1..Len(asks), Effect(i)
  PROVE  /\ row.taken /\ writes' = writes + 1 /\ row' \in traits.rows
         /\ undone' \in BOOLEAN /\ (undone' => undone \/ Outdated(i))
<1>1. row \in traits.rows /\ undone \in BOOLEAN
  BY DEF TypeInv, RestType
<1>2. row.taken /\ writes' = writes + 1 /\ row' \in traits.rows
  BY <1>1 DEF Effect
<1>3. undone' = (undone \/ Outdated(i))
  BY DEF Effect
<1>4. (undone \/ Outdated(i)) \in BOOLEAN
  <2>1. CASE undone \/ Outdated(i)
    <3>1. (undone \/ Outdated(i)) = TRUE
      BY <2>1
    <3> QED
      BY <3>1
  <2>2. CASE ~(undone \/ Outdated(i))
    <3>1. (undone \/ Outdated(i)) = FALSE
      BY <2>2
    <3> QED
      BY <3>1
  <2> QED
    BY <2>1, <2>2
<1>5. undone' => undone \/ Outdated(i)
  BY <1>3
<1> QED
  BY <1>2, <1>3, <1>4, <1>5

LEMMA MeddleFacts ==
  ASSUME TypeInv, Meddle
  PROVE  /\ row' \in traits.rows /\ meddled'
         /\ meddled' \in BOOLEAN
         /\ UNCHANGED <<traits, writes, loads, shown, asks, chosen, faults, undone>>
  BY DEF Meddle

LEMMA NextCases ==
  ASSUME TypeInv, Next
  PROVE  \/ Turn \/ Poll \/ Press \/ Meddle
         \/ \E n \in 1..Len(loads) : Serve(n) \/ Arrive(n)
         \/ \E i \in 1..Len(asks) : Handle(i) \/ Lose(i) \/ Succeeds(i) \/ Fails(i) \/ EndsLate(i)
  BY TypesOfRows DEF Next

-----------------------------------------------------------------------------
(* Types                                                                    *)

LEMMA LoadsChange ==
  ASSUME TypeInv, NEW n \in 1..Len(loads), LoadChanges(n), UNCHANGED traits,
         loads'[n].row \in traits.rows
  PROVE  LoadsType'
  BY DEF TypeInv, LoadsType, LoadChanges

LEMMA LoadsGrow ==
  ASSUME TypeInv, LoadAsked, UNCHANGED traits
  PROVE  LoadsType'
  BY DEF TypeInv, LoadsType, LoadAsked, RestType

LEMMA AsksChange ==
  ASSUME TypeInv, NEW i \in 1..Len(asks), AskChanges(i), UNCHANGED traits,
         asks'[i].late => asks'[i].lost, asks'[i].st = "lost" => asks'[i].lost
  PROVE  AsksType'
  BY DEF TypeInv, AsksType, AskChanges

LEMMA TypeInit == Init => TypeInv
<1> SUFFICES ASSUME Init PROVE TypeInv
  OBVIOUS
<1>1. traits \in AllTraits /\ row \in traits.rows /\ row \in BothRows
  BY TraitsRows DEF Init
<1>2. NewLoad(0) \in LoadSet
  BY <1>1 DEF NewLoad, LoadSet
<1>3. LoadsType
  BY <1>1, <1>2 DEF Init, LoadsType, NewLoad
<1>4. AsksType
  BY DEF Init, AsksType
<1>5. ShownType
  BY NoRowType DEF Init, ShownType, ShownSet
<1>6. RestType
  BY <1>1 DEF Init, RestType
<1> QED
  BY <1>3, <1>4, <1>5, <1>6 DEF TypeInv

LEMMA TypeStep ==
  ASSUME TypeInv, [Next]_vars
  PROVE  TypeInv'
<1> USE DEF TypeInv
<1>1. CASE Turn
  <2>1. LoadsType'
    BY <1>1, TurnFacts, LoadsGrow
  <2>2. AsksType' /\ ShownType' /\ RestType'
    BY <1>1, TurnFacts DEF AsksType, ShownType, RestType
  <2> QED
    BY <2>1, <2>2
<1>2. CASE Poll
  <2>1. LoadsType'
    BY <1>2, PollFacts, LoadsGrow
  <2>2. AsksType' /\ ShownType' /\ RestType'
    BY <1>2, PollFacts DEF AsksType, ShownType, RestType
  <2> QED
    BY <2>1, <2>2
<1>3. CASE Press
  <2>1. AsksType'
    BY <1>3, PressFacts DEF AsksType
  <2>2. LoadsType' /\ ShownType' /\ RestType'
    BY <1>3, PressFacts DEF LoadsType, ShownType, RestType
  <2> QED
    BY <2>1, <2>2
<1>4. CASE Meddle
  BY <1>4, MeddleFacts DEF LoadsType, AsksType, ShownType, RestType
<1>5. ASSUME NEW n \in 1..Len(loads), Serve(n)
      PROVE  TypeInv'
  <2>1. loads'[n].row \in traits.rows
    BY <1>5, ServeFacts DEF LoadsType, RestType
  <2>2. LoadsType'
    BY <1>5, <2>1, ServeFacts, LoadsChange
  <2>3. AsksType' /\ ShownType' /\ RestType'
    BY <1>5, ServeFacts DEF AsksType, ShownType, RestType
  <2> QED
    BY <2>2, <2>3
<1>6. ASSUME NEW n \in 1..Len(loads), Arrive(n)
      PROVE  TypeInv'
  <2>1. loads[n].row \in traits.rows
    BY DEF LoadsType
  <2>2. LoadsType'
    BY <1>6, <2>1, ArriveFacts, LoadsChange
  <2>3. shown'.row \in traits.rows \cup {NoRow}
    BY <1>6, <2>1, ArriveFacts DEF ShownType, Filled
  <2>4. AsksType' /\ ShownType' /\ RestType'
    BY <1>6, <2>3, ArriveFacts DEF AsksType, ShownType, RestType
  <2> QED
    BY <2>2, <2>4
<1>7. ASSUME NEW i \in 1..Len(asks), Handle(i)
      PROVE  TypeInv'
  <2>1. asks[i].late => asks[i].lost
    BY DEF AsksType
  <2>2. AsksType'
    BY <1>7, <2>1, HandleFacts, AsksChange
  <2>3. row' \in traits.rows /\ writes' \in Nat /\ undone' \in BOOLEAN
    BY <1>7, HandleFacts, EffectFacts DEF RestType
  <2>4. LoadsType' /\ ShownType' /\ RestType'
    BY <1>7, <2>3, HandleFacts DEF LoadsType, ShownType, RestType
  <2> QED
    BY <2>2, <2>4
<1>8. ASSUME NEW i \in 1..Len(asks), Lose(i)
      PROVE  TypeInv'
  <2>1. AsksType'
    BY <1>8, LoseFacts, AsksChange
  <2>2. LoadsType' /\ ShownType' /\ RestType'
    BY <1>8, LoseFacts DEF LoadsType, ShownType, RestType
  <2> QED
    BY <2>1, <2>2
<1>9. ASSUME NEW i \in 1..Len(asks), Succeeds(i)
      PROVE  TypeInv'
  <2>1. asks[i].late => asks[i].lost
    BY DEF AsksType
  <2>2. AsksType'
    BY <1>9, <2>1, SucceedsFacts, AsksChange
  <2>3. LoadsType'
    <3>1. CASE LoadAsked
      BY <1>9, <3>1, SucceedsFacts, LoadsGrow
    <3>2. CASE UNCHANGED loads
      BY <1>9, <3>2, SucceedsFacts DEF LoadsType
    <3> QED
      BY <1>9, <3>1, <3>2, SucceedsFacts
  <2>4. ShownType'
    <3>1. CASE UNCHANGED shown
      BY <1>9, <3>1, SucceedsFacts DEF ShownType
    <3>2. CASE shown' = [shown EXCEPT !.row = row, !.writes = writes]
      BY <1>9, <3>2, SucceedsFacts, TypesOfRows DEF ShownType, ShownSet, RestType
    <3> QED
      BY <1>9, <3>1, <3>2, SucceedsFacts
  <2>5. RestType'
    BY <1>9, SucceedsFacts DEF RestType
  <2> QED
    BY <2>2, <2>3, <2>4, <2>5
<1>10. ASSUME NEW i \in 1..Len(asks), Fails(i)
       PROVE  TypeInv'
  <2>1. asks[i].late => asks[i].lost
    BY DEF AsksType
  <2>2. AsksType'
    BY <1>10, <2>1, FailsFacts, AsksChange
  <2>3. LoadsType' /\ ShownType' /\ RestType'
    BY <1>10, FailsFacts DEF LoadsType, ShownType, RestType
  <2> QED
    BY <2>2, <2>3
<1>11. ASSUME NEW i \in 1..Len(asks), EndsLate(i)
       PROVE  TypeInv'
  <2>1. AsksType'
    BY <1>11, EndsLateFacts, AsksChange
  <2>2. row' \in traits.rows /\ writes' \in Nat /\ undone' \in BOOLEAN
    BY <1>11, EndsLateFacts, EffectFacts DEF RestType
  <2>3. LoadsType' /\ ShownType' /\ RestType'
    BY <1>11, <2>2, EndsLateFacts DEF LoadsType, ShownType, RestType
  <2> QED
    BY <2>1, <2>3
<1>12. CASE UNCHANGED vars
  BY <1>12 DEF vars, LoadsType, AsksType, ShownType, RestType
<1> HIDE DEF TypeInv
<1> QED
  BY <1>1, <1>2, <1>3, <1>4, <1>5, <1>6, <1>7, <1>8, <1>9, <1>10, <1>11, <1>12, NextCases

-----------------------------------------------------------------------------
(* The requests                                                             *)

LEMMA AskCases ==
  ASSUME TypeInv, [Next]_vars
  PROVE  /\ UNCHANGED traits
         /\ \/ UNCHANGED <<asks, writes, undone>>
            \/ Press
            \/ \E i \in 1..Len(asks) :
                 Handle(i) \/ Lose(i) \/ Succeeds(i) \/ Fails(i) \/ EndsLate(i)
<1>1. CASE Turn \/ Poll \/ Meddle
  BY <1>1, TurnFacts, PollFacts, MeddleFacts
<1>2. CASE Press
  BY <1>2, PressFacts
<1>3. ASSUME NEW n \in 1..Len(loads), Serve(n) \/ Arrive(n)
      PROVE  UNCHANGED traits /\ UNCHANGED <<asks, writes, undone>>
  BY <1>3, ServeFacts, ArriveFacts
<1>4. ASSUME NEW i \in 1..Len(asks),
             Handle(i) \/ Lose(i) \/ Succeeds(i) \/ Fails(i) \/ EndsLate(i)
      PROVE  UNCHANGED traits
  BY <1>4, HandleFacts, LoseFacts, SucceedsFacts, FailsFacts, EndsLateFacts
<1>5. CASE UNCHANGED vars
  BY <1>5 DEF vars
<1> QED
  BY <1>1, <1>2, <1>3, <1>4, <1>5, NextCases

LEMMA AnswerStep ==
  ASSUME TypeInv, AnswerInv, [Next]_vars
  PROVE  AnswerInv'
<1>1. UNCHANGED traits
  BY AskCases
<1>2. CASE UNCHANGED <<asks, writes, undone>>
  BY <1>1, <1>2 DEF AnswerInv
<1>3. CASE Press
  BY <1>1, <1>3, PressFacts, TypesOfRows DEF AnswerInv
<1>4. ASSUME NEW i \in 1..Len(asks), AskChanges(i),
             asks'[i].st = "refused" => ~asks'[i].met.taken,
             asks'[i].st = "silent" => ~traits.told
      PROVE  AnswerInv'
  BY <1>1, <1>4 DEF AnswerInv, AskChanges
<1>5. ASSUME NEW i \in 1..Len(asks), Handle(i) \/ Lose(i) \/ Succeeds(i)
      PROVE  AnswerInv'
  BY <1>4, <1>5, HandleFacts, LoseFacts, SucceedsFacts
<1>6. ASSUME NEW i \in 1..Len(asks), Fails(i)
      PROVE  AnswerInv'
  BY <1>4, <1>6, FailsFacts
<1>7. ASSUME NEW i \in 1..Len(asks), EndsLate(i)
      PROVE  AnswerInv'
  BY <1>4, <1>7, EndsLateFacts DEF AnswerInv
<1> QED
  BY <1>2, <1>3, <1>5, <1>6, <1>7, AskCases

LEMMA LockStep ==
  ASSUME TypeInv, LockInv, [Next]_vars
  PROVE  LockInv'
<1>1. UNCHANGED traits
  BY AskCases
<1>2. CASE UNCHANGED <<asks, writes, undone>>
  BY <1>1, <1>2 DEF LockInv
<1>3. CASE Press
  <2>1. /\ Len(asks') = Len(asks) + 1 /\ Len(asks) \in Nat
        /\ \A j \in 1..Len(asks) : asks'[j] = asks[j]
    BY <1>3, PressFacts, TypesOfRows
  <2>2. traits.locks => \A j \in 1..Len(asks) : asks'[j].st \notin Out
    BY <1>3, <2>1, PressFacts
  <2>3. traits.adds => \A j \in 1..Len(asks) : asks'[j].st # "heard"
    BY <1>3, <2>1, PressFacts
  <2>4. \A j \in 1..Len(asks') : j \in 1..Len(asks) \/ j = Len(asks')
    BY <2>1
  <2> QED
    BY <1>1, <2>2, <2>3, <2>4 DEF LockInv
<1>4. ASSUME NEW i \in 1..Len(asks), AskChanges(i),
             asks[i].st \in Out \/ asks'[i].st = asks[i].st
      PROVE  LockInv'
  BY <1>1, <1>4 DEF LockInv, AskChanges
<1>5. ASSUME NEW i \in 1..Len(asks),
             Handle(i) \/ Lose(i) \/ Succeeds(i) \/ Fails(i) \/ EndsLate(i)
      PROVE  LockInv'
  BY <1>4, <1>5, HandleFacts, LoseFacts, SucceedsFacts, FailsFacts, EndsLateFacts DEF Out
<1> QED
  BY <1>2, <1>3, <1>5, AskCases

\* A lost answer stays lost.
LEMMA LostStays ==
  ASSUME TypeInv, NEW i \in 1..Len(asks), AskChanges(i), NothingLost'
  PROVE  NothingLost
  BY DEF NothingLost, AskChanges

LEMMA WritesStep ==
  ASSUME TypeInv, LockInv, WritesInv, [Next]_vars
  PROVE  WritesInv'
<1>1. UNCHANGED traits /\ writes \in Nat /\ Len(asks) \in Nat
  BY AskCases, TypesOfRows DEF TypeInv, RestType
<1>2. CASE UNCHANGED <<asks, writes, undone>>
  BY <1>1, <1>2 DEF WritesInv, NothingLost
<1>3. CASE Press
  <2>1. UNCHANGED writes /\ Len(asks') = Len(asks) + 1
        /\ \A j \in 1..Len(asks) : asks'[j] = asks[j]
    BY <1>3, PressFacts
  <2>2. NothingLost' => NothingLost
    BY <1>1, <2>1 DEF NothingLost
  <2>3. ASSUME traits.adds, traits.locks, NothingLost, writes > 0
        PROVE  FALSE
    <3>1. Len(asks) \in 1..Len(asks) /\ asks[Len(asks)].st \in {"stored", "heard"}
      BY <1>1, <2>3 DEF WritesInv
    <3>2. asks[Len(asks)].st \notin Out /\ asks[Len(asks)].st # "heard"
      BY <1>3, <2>3, <3>1, PressFacts
    <3> QED
      BY <3>1, <3>2 DEF Out
  <2> QED
    BY <1>1, <2>1, <2>2, <2>3 DEF WritesInv
<1>4. ASSUME NEW i \in 1..Len(asks), Handle(i)
      PROVE  WritesInv'
  <2>1. AskChanges(i) /\ asks[i].st = "sent" /\ Len(asks') = Len(asks) /\ Len(asks) > 0
    BY <1>1, <1>4, HandleFacts DEF AskChanges
  <2>2. NothingLost' => NothingLost
    BY <2>1, LostStays
  <2>3. ASSUME traits.adds, traits.locks, NothingLost
        PROVE  writes = 0 /\ i = Len(asks)
    <3>1. i = Len(asks)
      BY <2>1, <2>3 DEF LockInv, Out
    <3>2. ~(asks[i].st \in {"stored", "heard"})
      BY <2>1
    <3> QED
      BY <1>1, <2>3, <3>1, <3>2 DEF WritesInv
  <2>4. CASE asks'[i].st = "stored" /\ Effect(i)
    <3>1. writes' = writes + 1
      BY <2>4, EffectFacts
    <3> QED
      BY <1>1, <2>1, <2>2, <2>3, <2>4, <3>1 DEF WritesInv
  <2>5. CASE asks'[i].st = "refused" /\ UNCHANGED <<row, writes, undone>>
    BY <1>1, <2>1, <2>2, <2>3, <2>5 DEF WritesInv
  <2> QED
    BY <1>4, <2>4, <2>5, HandleFacts
<1>5. ASSUME NEW i \in 1..Len(asks), Lose(i)
      PROVE  WritesInv'
  <2>1. AskChanges(i) /\ asks'[i].lost /\ UNCHANGED writes /\ Len(asks') = Len(asks)
    BY <1>5, LoseFacts DEF AskChanges
  <2>2. ~NothingLost'
    BY <2>1 DEF NothingLost
  <2> QED
    BY <2>1, <2>2 DEF WritesInv
<1>6. ASSUME NEW i \in 1..Len(asks), Succeeds(i)
      PROVE  WritesInv'
  <2>1. AskChanges(i) /\ asks'[i].st = "heard" /\ UNCHANGED writes /\ Len(asks') = Len(asks)
        /\ \A j \in 1..Len(asks) : j # i => asks'[j] = asks[j]
    BY <1>6, SucceedsFacts DEF AskChanges
  <2>2. NothingLost' => NothingLost
    BY <2>1, LostStays
  <2> QED
    BY <1>1, <2>1, <2>2 DEF WritesInv
<1>7. ASSUME NEW i \in 1..Len(asks), Fails(i)
      PROVE  WritesInv'
  <2>1. AskChanges(i) /\ asks[i].st \in {"refused", "lost"} /\ UNCHANGED writes
        /\ Len(asks') = Len(asks) /\ \A j \in 1..Len(asks) : j # i => asks'[j] = asks[j]
    BY <1>7, FailsFacts DEF AskChanges
  <2>2. NothingLost' => NothingLost
    BY <2>1, LostStays
  <2> QED
    BY <1>1, <2>1, <2>2 DEF WritesInv
<1>8. ASSUME NEW i \in 1..Len(asks), EndsLate(i)
      PROVE  WritesInv'
  <2>1. AskChanges(i) /\ asks'[i].lost /\ Len(asks') = Len(asks) /\ Len(asks) > 0
    BY <1>1, <1>8, EndsLateFacts DEF AskChanges
  <2>2. ~NothingLost'
    BY <2>1 DEF NothingLost
  <2> QED
    BY <2>1, <2>2 DEF WritesInv
<1> QED
  BY <1>2, <1>3, <1>4, <1>5, <1>6, <1>7, <1>8, AskCases

LEMMA UndoneStep ==
  ASSUME TypeInv, LockInv, UndoneInv, [Next]_vars
  PROVE  UndoneInv'
<1>1. UNCHANGED traits
  BY AskCases
<1>2. CarriesItsOwn(traits)' <=> CarriesItsOwn(traits)
  BY <1>1
<1>3. CASE UNCHANGED <<asks, writes, undone>>
  BY <1>2, <1>3 DEF UndoneInv, NothingLost
<1>4. CASE Press
  <2>1. NothingLost' => NothingLost
    BY <1>4, PressFacts, TypesOfRows DEF NothingLost
  <2> QED
    BY <1>2, <1>4, <2>1, PressFacts DEF UndoneInv
<1>5. ASSUME NEW i \in 1..Len(asks), Handle(i)
      PROVE  UndoneInv'
  <2>1. NothingLost' => NothingLost
    BY <1>5, HandleFacts, LostStays
  <2>2. CarriesItsOwn(traits) => ~Outdated(i)
    <3>1. CASE traits.carries = "change"
      BY <3>1 DEF Outdated
    <3>2. CASE traits.carries = "kept" /\ traits.locks
      <4>1. i = Len(asks)
        BY <1>5, <3>2, HandleFacts DEF LockInv, Out
      <4> QED
        BY <3>2, <4>1, TypesOfRows DEF Outdated
    <3> QED
      BY <3>1, <3>2 DEF CarriesItsOwn
  <2>3. CarriesItsOwn(traits) /\ undone' => undone
    BY <1>5, <2>2, HandleFacts, EffectFacts
  <2> QED
    BY <1>2, <2>1, <2>3 DEF UndoneInv
<1>6. ASSUME NEW i \in 1..Len(asks), Lose(i) \/ Succeeds(i) \/ Fails(i)
      PROVE  UndoneInv'
  <2>1. AskChanges(i) /\ UNCHANGED undone
    BY <1>6, LoseFacts, SucceedsFacts, FailsFacts
  <2>2. NothingLost' => NothingLost
    BY <2>1, LostStays
  <2> QED
    BY <1>2, <2>1, <2>2 DEF UndoneInv
<1>7. ASSUME NEW i \in 1..Len(asks), EndsLate(i)
      PROVE  UndoneInv'
  <2>1. AskChanges(i) /\ asks'[i].lost
    BY <1>7, EndsLateFacts
  <2>2. ~NothingLost'
    BY <2>1 DEF NothingLost, AskChanges
  <2> QED
    BY <2>2 DEF UndoneInv
<1> QED
  BY <1>3, <1>4, <1>5, <1>6, <1>7, AskCases

-----------------------------------------------------------------------------
(* The loads                                                                *)

LEMMA LoadCases ==
  ASSUME TypeInv, [Next]_vars
  PROVE  /\ UNCHANGED traits
         /\ \/ UNCHANGED <<loads, shown, chosen>>
            \/ Turn \/ Poll
            \/ \E n \in 1..Len(loads) : Serve(n) \/ Arrive(n)
            \/ \E i \in 1..Len(asks) : Succeeds(i)
<1>1. CASE Press \/ Meddle
  BY <1>1, PressFacts, MeddleFacts
<1>2. ASSUME NEW i \in 1..Len(asks), Handle(i) \/ Lose(i) \/ Fails(i) \/ EndsLate(i)
      PROVE  UNCHANGED <<loads, shown, chosen>>
  BY <1>2, HandleFacts, LoseFacts, FailsFacts, EndsLateFacts
<1>3. CASE UNCHANGED vars
  BY <1>3 DEF vars
<1>4. UNCHANGED traits
  BY AskCases
<1> QED
  BY <1>1, <1>2, <1>3, <1>4, NextCases

\* The last load is the new one.
LEMMA LastAsked ==
  ASSUME TypeInv, LoadAsked
  PROVE  Last'.st = "asked" /\ Last'.chosen = chosen' /\ Last'.row = row /\ Last'.writes = 0
  BY DEF LoadAsked, Last

\* Of a load that changes either the last one stays, or it is the last one.
LEMMA LastChanges ==
  ASSUME TypeInv, NEW n \in 1..Len(loads), LoadChanges(n)
  PROVE  /\ Len(loads') = Len(loads)
         /\ Last'.chosen = Last.chosen
         /\ n # Len(loads) => Last' = Last
         /\ n = Len(loads) => Last = loads[n] /\ Last' = loads'[n]
<1>1. Len(loads) \in 1..Len(loads)
  BY TypesOfRows
<1> QED
  BY <1>1 DEF LoadChanges, Last

LEMMA LoadingStep ==
  ASSUME TypeInv, LoadingInv, [Next]_vars
  PROVE  LoadingInv'
<1>1. SaysFailedLoad(traits)' <=> SaysFailedLoad(traits)
  BY LoadCases
<1>2. CASE UNCHANGED <<loads, shown, chosen>>
  BY <1>1, <1>2 DEF LoadingInv, Last
<1>3. CASE LoadAsked
  BY <1>3, LastAsked DEF LoadingInv
<1>4. ASSUME NEW n \in 1..Len(loads), Serve(n)
      PROVE  LoadingInv'
  <2>1. LoadChanges(n) /\ loads'[n].st \in {"served", "broken"} /\ UNCHANGED shown
    BY <1>4, ServeFacts
  <2> QED
    BY <1>1, <2>1, LastChanges DEF LoadingInv
<1>5. ASSUME NEW n \in 1..Len(loads), Arrive(n)
      PROVE  LoadingInv'
  <2>1. LoadChanges(n) /\ loads[n].st \in {"served", "broken"}
    BY <1>5, ArriveFacts
  <2>2. CASE ~Heeds(n) /\ UNCHANGED shown
    BY <1>1, <2>1, <2>2, LastChanges DEF LoadingInv, Heeds
  <2>3. CASE shown' = Filled(n)
    BY <2>3 DEF LoadingInv, Filled
  <2>4. CASE shown.st = "ready" /\ UNCHANGED shown
    BY <2>4 DEF LoadingInv
  <2>5. CASE shown'.st = "loading" => ~SaysFailedLoad(traits)
    BY <1>1, <2>5 DEF LoadingInv
  <2> QED
    BY <1>5, <2>2, <2>3, <2>4, <2>5, ArriveFacts
<1>6. ASSUME NEW i \in 1..Len(asks), Succeeds(i), UNCHANGED loads
      PROVE  LoadingInv'
  <2>1. shown'.st = shown.st
    BY <1>6, SucceedsFacts DEF TypeInv, ShownType, ShownSet
  <2> QED
    BY <1>1, <1>6, <2>1 DEF LoadingInv, Last
<1> QED
  BY <1>2, <1>3, <1>4, <1>5, <1>6, LoadCases, TurnFacts, PollFacts, SucceedsFacts

LEMMA FaultStep ==
  ASSUME TypeInv, FaultInv, [Next]_vars
  PROVE  FaultInv'
<1>1. faults \in Nat /\ Len(loads) \in Nat /\ Len(asks) \in Nat
  BY TypesOfRows DEF TypeInv, RestType
<1> DEFINE Unbroken == \A n \in 1..Len(loads) : loads[n].st # "broken"
<1>2. ASSUME LoadAsked, Unbroken PROVE Unbroken'
  <2>1. \A n \in 1..Len(loads') : n \in 1..Len(loads) \/ n = Len(loads')
    BY <1>1, <1>2 DEF LoadAsked
  <2>2. loads'[Len(loads')].st = "asked"
    BY <1>2 DEF LoadAsked
  <2> QED
    BY <1>2, <2>1, <2>2 DEF LoadAsked
<1>3. CASE Turn \/ Poll
  BY <1>2, <1>3, TurnFacts, PollFacts DEF FaultInv, NothingLost
<1>4. CASE Press
  <2>1. NothingLost => NothingLost'
    <3>1. \A j \in 1..Len(asks') : j \in 1..Len(asks) \/ j = Len(asks')
      BY <1>1, <1>4, PressFacts
    <3> QED
      BY <1>4, <3>1, PressFacts DEF NothingLost
  <2> QED
    BY <1>4, <2>1, PressFacts DEF FaultInv
<1>5. CASE Meddle
  BY <1>5, MeddleFacts DEF FaultInv, NothingLost
<1>6. ASSUME NEW n \in 1..Len(loads), Serve(n)
      PROVE  FaultInv'
  <2>1. LoadChanges(n) /\ UNCHANGED asks
    BY <1>6, ServeFacts
  <2>2. CASE loads'[n].st = "served" /\ UNCHANGED faults
    BY <2>1, <2>2 DEF FaultInv, NothingLost, LoadChanges
  <2>3. CASE faults' = faults + 1
    BY <1>1, <2>3 DEF FaultInv
  <2> QED
    BY <1>6, <2>2, <2>3, ServeFacts
<1>7. ASSUME NEW n \in 1..Len(loads), Arrive(n)
      PROVE  FaultInv'
  <2>1. LoadChanges(n) /\ loads'[n].st = "done" /\ UNCHANGED <<asks, faults>>
    BY <1>7, ArriveFacts
  <2> QED
    BY <2>1 DEF FaultInv, NothingLost, LoadChanges
<1>8. ASSUME NEW i \in 1..Len(asks), Lose(i)
      PROVE  FaultInv'
  BY <1>1, <1>8, LoseFacts DEF FaultInv
<1>9. ASSUME NEW i \in 1..Len(asks), AskChanges(i), asks'[i].lost = asks[i].lost, NothingLost
      PROVE  NothingLost'
  BY <1>9 DEF AskChanges, NothingLost
<1>10. ASSUME NEW i \in 1..Len(asks), Handle(i) \/ Fails(i)
       PROVE  FaultInv'
  <2>1. AskChanges(i) /\ asks'[i].lost = asks[i].lost /\ UNCHANGED <<loads, faults>>
    BY <1>10, HandleFacts, FailsFacts
  <2> QED
    BY <1>9, <2>1 DEF FaultInv
<1>11. ASSUME NEW i \in 1..Len(asks), Succeeds(i)
       PROVE  FaultInv'
  <2>1. /\ AskChanges(i) /\ asks'[i].lost = asks[i].lost /\ UNCHANGED faults
        /\ LoadAsked \/ UNCHANGED loads
    BY <1>11, SucceedsFacts
  <2> QED
    BY <1>2, <1>9, <2>1 DEF FaultInv
<1>12. ASSUME NEW i \in 1..Len(asks), EndsLate(i)
       PROVE  FaultInv'
  BY <1>12, EndsLateFacts DEF FaultInv, NothingLost
<1>13. CASE UNCHANGED vars
  BY <1>13 DEF vars, FaultInv, NothingLost
<1> QED
  BY <1>3, <1>4, <1>5, <1>6, <1>7, <1>8, <1>10, <1>11, <1>12, <1>13, NextCases

LEMMA FaultsGrow ==
  ASSUME TypeInv, [Next]_vars
  PROVE  faults' = 0 => faults = 0
<1>1. faults' = faults \/ faults' = faults + 1
  <2>1. CASE UNCHANGED vars
    BY <2>1 DEF vars
  <2> QED
    BY <2>1, NextCases, TurnFacts, PollFacts, PressFacts, MeddleFacts, ServeFacts, ArriveFacts,
       HandleFacts, LoseFacts, SucceedsFacts, FailsFacts, EndsLateFacts
<1>2. faults \in Nat
  BY DEF TypeInv, RestType
<1> QED
  BY <1>1, <1>2

LEMMA ChosenStep ==
  ASSUME TypeInv, FaultInv, ChosenInv, [Next]_vars
  PROVE  ChosenInv'
<1>1. UNCHANGED traits /\ faults \in Nat /\ Len(loads) \in Nat
  BY LoadCases, TypesOfRows DEF TypeInv, RestType
<1>2. faults' = 0 => faults = 0
  BY FaultsGrow
<1>3. CASE UNCHANGED <<loads, shown, chosen>>
  BY <1>1, <1>2, <1>3 DEF ChosenInv, Last
<1> DEFINE Single == chosen = 0 /\ shown.chosen = 0 /\ \A n \in 1..Len(loads) : loads[n].chosen = 0
<1>4. ASSUME LoadAsked, ~traits.turns => UNCHANGED chosen /\ UNCHANGED shown
      PROVE  ChosenInv'
  <2>1. Last'.chosen = chosen' /\ Last'.st = "asked"
    BY <1>4, LastAsked
  <2>2. ASSUME ~traits.turns PROVE Single'
    <3>1. \A n \in 1..Len(loads') : n \in 1..Len(loads) \/ n = Len(loads')
      BY <1>1, <1>4 DEF LoadAsked
    <3> QED
      BY <1>4, <2>2, <3>1 DEF LoadAsked, ChosenInv
  <2> QED
    BY <1>1, <2>1, <2>2 DEF ChosenInv
<1>5. CASE Turn
  BY <1>4, <1>5, TurnFacts
<1>6. CASE Poll
  BY <1>4, <1>6, PollFacts
<1>7. ASSUME NEW n \in 1..Len(loads), Serve(n)
      PROVE  ChosenInv'
  <2>1. /\ LoadChanges(n) /\ UNCHANGED <<shown, chosen>>
        /\ loads'[n].st \in {"served", "broken"}
    BY <1>7, ServeFacts
  <2>2. ~traits.turns => Single'
    BY <2>1 DEF ChosenInv, LoadChanges
  <2>3. Last'.st = "done" => Last' = Last
    BY <2>1, LastChanges
  <2> QED
    BY <1>1, <1>2, <2>1, <2>2, <2>3, LastChanges DEF ChosenInv
<1>8. ASSUME NEW n \in 1..Len(loads), Arrive(n)
      PROVE  ChosenInv'
  <2>1. LoadChanges(n) /\ UNCHANGED chosen
    BY <1>8, ArriveFacts
  <2>2. shown'.chosen \in {shown.chosen, loads[n].chosen}
    BY <1>8, ArriveFacts DEF Filled
  <2>3. ~traits.turns => Single'
    BY <2>1, <2>2 DEF ChosenInv, LoadChanges
  <2>4. ASSUME traits.keeps # "effect", faults = 0, Last'.st = "done"
        PROVE  shown'.chosen = chosen
    <3>1. CASE n = Len(loads)
      <4>1. Heeds(n) /\ loads[n].st = "served"
        BY <1>8, <2>4, <3>1, ArriveFacts DEF Heeds, FaultInv
      <4>2. shown' = Filled(n) /\ loads[n] = Last
        BY <1>8, <4>1, <3>1, ArriveFacts DEF Last
      <4> QED
        BY <4>2 DEF Filled, ChosenInv
    <3>2. CASE n # Len(loads)
      <4>1. Last' = Last
        BY <2>1, <3>2, LastChanges
      <4>2. UNCHANGED shown
        BY <1>8, <2>4, <3>2, ArriveFacts DEF Heeds
      <4> QED
        BY <2>4, <4>1, <4>2 DEF ChosenInv
    <3> QED
      BY <3>1, <3>2
  <2> QED
    BY <1>1, <1>2, <2>1, <2>3, <2>4, LastChanges DEF ChosenInv
<1>9. ASSUME NEW i \in 1..Len(asks), Succeeds(i)
      PROVE  ChosenInv'
  <2>1. CASE LoadAsked /\ UNCHANGED shown
    BY <1>4, <1>9, <2>1, SucceedsFacts
  <2>2. CASE UNCHANGED loads
    <3>1. shown'.chosen = shown.chosen /\ UNCHANGED chosen
      BY <1>9, <2>2, SucceedsFacts DEF TypeInv, ShownType, ShownSet
    <3> QED
      BY <1>1, <1>2, <2>2, <3>1 DEF ChosenInv, Last
  <2> QED
    BY <1>9, <2>1, <2>2, SucceedsFacts
<1> QED
  BY <1>3, <1>5, <1>6, <1>7, <1>8, <1>9, LoadCases

LEMMA AnsweringStays ==
  ASSUME TypeInv, NEW i \in 1..Len(asks), AskChanges(i), Answering,
         asks[i].st = "stored" => asks'[i].st = "stored"
  PROVE  Answering'
<1>1. PICK j \in 1..Len(asks) : asks[j].st = "stored"
  BY DEF Answering
<1>2. Len(asks') = Len(asks) /\ asks'[j].st = "stored"
  BY <1>1 DEF AskChanges
<1> QED
  BY <1>2 DEF Answering

LEMMA AnsweringMore ==
  ASSUME TypeInv, Press, Answering
  PROVE  Answering'
<1>1. PICK j \in 1..Len(asks) : asks[j].st = "stored"
  BY DEF Answering
<1>2. j \in 1..Len(asks') /\ asks'[j].st = "stored"
  BY <1>1, PressFacts, TypesOfRows
<1> QED
  BY <1>2 DEF Answering

\* A request that is answered, refused or stored leaves the answers under way
\* alone, except its own.
LEMMA AnsweringHandled ==
  ASSUME TypeInv, NEW i \in 1..Len(asks), Handle(i) \/ Fails(i)
  PROVE  /\ Answering => Answering'
         /\ writes' = writes \/ Answering'
         /\ UNCHANGED <<traits, loads, shown, faults>>
<1>1. /\ AskChanges(i) /\ asks[i].st # "stored" /\ Len(asks') = Len(asks)
      /\ writes' = writes \/ asks'[i].st = "stored"
      /\ UNCHANGED <<traits, loads, shown, faults>>
  BY HandleFacts, FailsFacts DEF AskChanges
<1> QED
  BY <1>1, AnsweringStays DEF Answering

LEMMA LateIsFault ==
  ASSUME TypeInv, FaultInv, NEW i \in 1..Len(asks), EndsLate(i)
  PROVE  faults' # 0
  BY EndsLateFacts DEF FaultInv, NothingLost

LEMMA LoseIsFault ==
  ASSUME TypeInv, NEW i \in 1..Len(asks), Lose(i)
  PROVE  faults' # 0
  BY LoseFacts DEF TypeInv, RestType

LEMMA FreshStep ==
  ASSUME TypeInv, FaultInv, FreshInv, [Next]_vars
  PROVE  FreshInv'
<1> DEFINE Brought == Last.st = "asked" \/ Last.writes = writes \/ Answering
           Seen == Last.st = "done" => shown.writes = Last.writes
<1> SUFFICES ASSUME traits.refreshes, traits.keeps # "effect", faults' = 0
             PROVE  Brought' /\ Seen'
  BY LoadCases DEF FreshInv
<1>1. faults = 0 /\ Brought /\ Seen /\ faults \in Nat
  BY FaultsGrow DEF FreshInv, TypeInv, RestType
<1>2. CASE LoadAsked
  BY <1>2, LastAsked
<1>3. CASE Press
  <2>1. UNCHANGED <<loads, shown, writes>>
    BY <1>3, PressFacts
  <2> QED
    BY <1>1, <1>3, <2>1, AnsweringMore DEF Last
<1>4. CASE Meddle
  BY <1>1, <1>4, MeddleFacts DEF Last, Answering
<1>5. ASSUME NEW n \in 1..Len(loads), Serve(n)
      PROVE  Brought' /\ Seen'
  <2>1. /\ LoadChanges(n) /\ UNCHANGED <<shown, asks, writes>>
        /\ loads'[n].st = "served" /\ loads'[n].writes = writes
    BY <1>1, <1>5, ServeFacts
  <2>2. Answering => Answering'
    BY <2>1 DEF Answering
  <2> QED
    BY <1>1, <2>1, <2>2, LastChanges
<1>6. ASSUME NEW n \in 1..Len(loads), Arrive(n)
      PROVE  Brought' /\ Seen'
  <2>1. /\ LoadChanges(n) /\ UNCHANGED <<asks, writes>>
        /\ loads[n].st = "served" /\ loads'[n].writes = loads[n].writes
    BY <1>1, <1>6, ArriveFacts DEF FaultInv
  <2>2. Answering => Answering'
    BY <2>1 DEF Answering
  <2>3. CASE n = Len(loads)
    <3>1. shown'.writes = loads[n].writes
      BY <1>6, <2>1, <2>3, ArriveFacts DEF Heeds, Filled
    <3> QED
      BY <1>1, <2>1, <2>2, <2>3, <3>1, LastChanges
  <2>4. CASE n # Len(loads)
    <3>1. UNCHANGED shown
      BY <1>6, <2>4, ArriveFacts DEF Heeds
    <3> QED
      BY <1>1, <2>1, <2>2, <2>4, <3>1, LastChanges
  <2> QED
    BY <2>3, <2>4
<1>7. ASSUME NEW i \in 1..Len(asks), Handle(i) \/ Fails(i)
      PROVE  Brought' /\ Seen'
  <2>1. Last' = Last /\ UNCHANGED shown
    BY <1>7, AnsweringHandled DEF Last
  <2> QED
    BY <1>1, <1>7, <2>1, AnsweringHandled
<1>8. ASSUME NEW i \in 1..Len(asks), Succeeds(i)
      PROVE  Brought' /\ Seen'
  BY <1>2, <1>8, SucceedsFacts
<1>9. CASE UNCHANGED vars
  BY <1>1, <1>9 DEF vars, Last, Answering
<1> HIDE DEF Brought, Seen
<1> QED
  BY <1>2, <1>3, <1>4, <1>5, <1>6, <1>7, <1>8, <1>9, NextCases, TurnFacts, PollFacts,
     LoseIsFault, LateIsFault

LEMMA PatchedStep ==
  ASSUME TypeInv, FaultInv, PatchedInv, [Next]_vars
  PROVE  PatchedInv'
<1> DEFINE Before == Last.st # "done" =>
                       asks = <<>> /\ writes = 0 /\ shown.st = "loading" /\ Last.writes = 0
           Once == Last.st = "done" => shown.writes = writes \/ Answering
           Goal == Len(loads) = 1 /\ Before /\ Once
<1> SUFFICES ASSUME traits.patches, ~traits.turns, ~traits.refreshes, ~traits.polls, faults' = 0
             PROVE  Goal'
  BY LoadCases DEF PatchedInv
<1>1. faults = 0 /\ faults \in Nat /\ Len(loads) = 1 /\ Before /\ Once
  BY FaultsGrow DEF PatchedInv, TypeInv, RestType
<1>2. ASSUME NEW i \in 1..Len(asks) PROVE Last.st = "done"
  BY <1>1, <1>2
<1>3. CASE Press
  <2>1. UNCHANGED <<loads, shown, writes>> /\ shown.st = "ready"
    BY <1>3, PressFacts
  <2> QED
    BY <1>1, <1>3, <2>1, AnsweringMore DEF Last
<1>4. CASE Meddle
  BY <1>1, <1>4, MeddleFacts DEF Last, Answering
<1>5. ASSUME NEW n \in 1..Len(loads), Serve(n)
      PROVE  Goal'
  <2>1. /\ LoadChanges(n) /\ UNCHANGED <<shown, asks, writes>> /\ loads[n].st = "asked"
        /\ loads'[n].st = "served" /\ loads'[n].writes = writes /\ n = Len(loads)
    BY <1>1, <1>5, ServeFacts
  <2> QED
    BY <1>1, <2>1, LastChanges
<1>6. ASSUME NEW n \in 1..Len(loads), Arrive(n)
      PROVE  Goal'
  <2>1. /\ LoadChanges(n) /\ UNCHANGED <<asks, writes>> /\ n = Len(loads)
        /\ loads[n].st = "served" /\ loads'[n].st = "done"
    BY <1>1, <1>6, ArriveFacts DEF FaultInv
  <2>2. shown'.writes = loads[n].writes
    BY <1>6, <2>1, ArriveFacts DEF Heeds, Filled
  <2> QED
    BY <1>1, <2>1, <2>2, LastChanges
<1>7. ASSUME NEW i \in 1..Len(asks), Handle(i) \/ Fails(i)
      PROVE  Goal'
  <2>1. Last.st = "done"
    BY <1>2
  <2>2. Last' = Last /\ Len(loads') = Len(loads) /\ UNCHANGED shown
    BY <1>7, AnsweringHandled DEF Last
  <2> QED
    BY <1>1, <1>7, <2>1, <2>2, AnsweringHandled
<1>8. ASSUME NEW i \in 1..Len(asks), Succeeds(i)
      PROVE  Goal'
  <2>1. Last.st = "done"
    BY <1>2
  <2>2. UNCHANGED <<loads, writes>> /\ shown' = [shown EXCEPT !.row = row, !.writes = writes]
    BY <1>8, SucceedsFacts
  <2>3. shown'.writes = writes
    BY <2>2 DEF TypeInv, ShownType, ShownSet
  <2> QED
    BY <1>1, <2>1, <2>2, <2>3 DEF Last
<1>9. CASE UNCHANGED vars
  BY <1>1, <1>9 DEF vars, Last, Answering
<1> HIDE DEF Goal
<1> QED
  BY <1>3, <1>4, <1>5, <1>6, <1>7, <1>8, <1>9, NextCases, TurnFacts, PollFacts,
     LoseIsFault, LateIsFault

LEMMA FutileStep ==
  ASSUME TypeInv, FutileInv, [Next]_vars
  PROVE  FutileInv'
<1> DEFINE NoneShown == writes = 0 /\ shown.writes = 0 /\ shown.row \in {row, NoRow}
           NoneLoaded == \A n \in 1..Len(loads) : loads[n].writes = 0 /\ loads[n].row = row
           NoneSent == \A i \in 1..Len(asks) : asks[i].offered = row
<1>1. UNCHANGED traits /\ (Futile(traits)' <=> Futile(traits))
  BY LoadCases
<1>2. ASSUME Futile(traits), ~meddled', UNCHANGED meddled
      PROVE  NoneShown /\ NoneLoaded /\ NoneSent
  BY <1>2 DEF FutileInv
<1>3. ASSUME NoneShown, NoneLoaded, NoneSent, Futile(traits), NEW i \in 1..Len(asks), Effect(i)
      PROVE  FALSE
  <2>1. row.taken /\ asks[i].offered = row
    BY <1>3, EffectFacts
  <2>2. row \in traits.rows /\ row.offered
    BY <2>1 DEF TypeInv, AsksType
  <2> QED
    BY <1>3, <2>1, <2>2 DEF Futile
<1>4. ASSUME LoadAsked, UNCHANGED row, NoneLoaded PROVE NoneLoaded'
  <2>1. \A n \in 1..Len(loads') : n \in 1..Len(loads) \/ n = Len(loads')
    BY <1>4, TypesOfRows DEF LoadAsked
  <2> QED
    BY <1>4, <2>1 DEF LoadAsked
<1>5. ASSUME NEW i \in 1..Len(asks), AskChanges(i), UNCHANGED row, NoneSent PROVE NoneSent'
  BY <1>5 DEF AskChanges
<1>6. CASE Turn
  <2>1. LoadAsked /\ shown'.row = shown.row /\ shown'.writes = shown.writes
        /\ UNCHANGED <<writes, row, asks, meddled>>
    BY <1>6, TurnFacts
  <2> QED
    BY <1>1, <1>2, <1>4, <2>1 DEF FutileInv
<1>7. CASE Poll
  <2>1. LoadAsked /\ UNCHANGED <<writes, row, shown, asks, meddled>>
    BY <1>7, PollFacts
  <2> QED
    BY <1>1, <1>2, <1>4, <2>1 DEF FutileInv
<1>8. CASE Press
  <2>1. UNCHANGED <<writes, row, shown, loads, meddled>>
    BY <1>8, PressFacts
  <2>2. ASSUME NoneShown, NoneSent PROVE NoneSent'
    <3>1. asks'[Len(asks')].offered = row
      BY <1>8, <2>2, PressFacts, NoRowType
    <3>2. \A j \in 1..Len(asks') : j \in 1..Len(asks) \/ j = Len(asks')
      BY <1>8, PressFacts, TypesOfRows
    <3> QED
      BY <1>8, <2>1, <2>2, <3>1, <3>2, PressFacts
  <2> QED
    BY <1>1, <1>2, <2>1, <2>2 DEF FutileInv
<1>9. CASE Meddle
  BY <1>9, MeddleFacts DEF FutileInv
<1>10. ASSUME NEW n \in 1..Len(loads), Serve(n)
       PROVE  FutileInv'
  <2>1. /\ LoadChanges(n) /\ UNCHANGED <<writes, row, shown, asks, meddled>>
        /\ \/ loads'[n].row = row /\ loads'[n].writes = writes
           \/ loads'[n].row = loads[n].row /\ loads'[n].writes = loads[n].writes
    BY <1>10, ServeFacts
  <2>2. ASSUME NoneShown, NoneLoaded PROVE NoneLoaded'
    BY <2>1, <2>2 DEF LoadChanges
  <2> QED
    BY <1>1, <1>2, <2>1, <2>2 DEF FutileInv
<1>11. ASSUME NEW n \in 1..Len(loads), Arrive(n)
       PROVE  FutileInv'
  <2>1. /\ LoadChanges(n) /\ UNCHANGED <<writes, row, asks, meddled>>
        /\ loads'[n].row = loads[n].row /\ loads'[n].writes = loads[n].writes
    BY <1>11, ArriveFacts
  <2>2. ASSUME NoneLoaded PROVE NoneLoaded'
    BY <2>1, <2>2 DEF LoadChanges
  <2>3. ASSUME NoneShown, NoneLoaded PROVE NoneShown'
    BY <1>11, <2>1, <2>3, ArriveFacts DEF Filled
  <2> QED
    BY <1>1, <1>2, <2>1, <2>2, <2>3 DEF FutileInv
<1>12. ASSUME NEW i \in 1..Len(asks), Handle(i)
       PROVE  FutileInv'
  <2>1. AskChanges(i) /\ UNCHANGED <<loads, shown, meddled>>
        /\ (Effect(i) \/ UNCHANGED <<row, writes, undone>>)
    BY <1>12, HandleFacts
  <2>2. ASSUME Futile(traits), ~meddled' PROVE UNCHANGED <<row, writes>>
    BY <1>2, <1>3, <2>1, <2>2
  <2> QED
    BY <1>1, <1>2, <1>5, <2>1, <2>2 DEF FutileInv
<1>13. ASSUME NEW i \in 1..Len(asks), Lose(i) \/ Fails(i)
       PROVE  FutileInv'
  <2>1. AskChanges(i) /\ UNCHANGED <<row, writes, loads, shown, meddled>>
    BY <1>13, LoseFacts, FailsFacts
  <2> QED
    BY <1>1, <1>2, <1>5, <2>1 DEF FutileInv
<1>14. ASSUME NEW i \in 1..Len(asks), Succeeds(i)
       PROVE  FutileInv'
  <2>1. AskChanges(i) /\ UNCHANGED <<row, writes, meddled>> /\ (LoadAsked \/ UNCHANGED loads)
        /\ (UNCHANGED shown \/ shown' = [shown EXCEPT !.row = row, !.writes = writes])
    BY <1>14, SucceedsFacts
  <2>2. ASSUME NoneShown PROVE NoneShown'
    BY <2>1, <2>2 DEF TypeInv, ShownType, ShownSet
  <2>3. ASSUME NoneLoaded PROVE NoneLoaded'
    BY <1>4, <2>1, <2>3
  <2> QED
    BY <1>1, <1>2, <1>5, <2>1, <2>2, <2>3 DEF FutileInv
<1>15. ASSUME NEW i \in 1..Len(asks), EndsLate(i)
       PROVE  FutileInv'
  BY <1>1, <1>2, <1>3, <1>15, EndsLateFacts DEF FutileInv
<1>16. CASE UNCHANGED vars
  BY <1>16 DEF vars, FutileInv, Futile
<1> QED
  BY <1>6, <1>7, <1>8, <1>9, <1>10, <1>11, <1>12, <1>13, <1>14, <1>15, <1>16, NextCases

-----------------------------------------------------------------------------
(* The invariants of every behaviour                                        *)

LEMMA ScreenInit == Init => ScreenInv
<1> SUFFICES ASSUME Init PROVE ScreenInv
  OBVIOUS
<1>1. /\ asks = <<>> /\ Len(asks) = 0 /\ writes = 0 /\ undone = FALSE /\ chosen = 0
      /\ shown = [st |-> "loading", load |-> 0, chosen |-> 0, row |-> NoRow, writes |-> 0]
  BY DEF Init
<1>2. /\ Len(loads) = 1 /\ loads[1] = Last
      /\ Last = [st |-> "asked", chosen |-> 0, row |-> row, writes |-> 0]
  BY DEF Init, NewLoad, Last
<1>3. AnswerInv /\ LockInv /\ WritesInv /\ UndoneInv
  BY <1>1 DEF AnswerInv, LockInv, WritesInv, UndoneInv
<1>4. LoadingInv /\ FaultInv /\ ChosenInv
  BY <1>1, <1>2 DEF LoadingInv, FaultInv, ChosenInv, NothingLost
<1>5. FreshInv /\ PatchedInv /\ FutileInv
  BY <1>1, <1>2 DEF FreshInv, PatchedInv, FutileInv
<1> QED
  BY <1>3, <1>4, <1>5 DEF ScreenInv

\* What holds of every behaviour of every pair: the types, and what the screens'
\* properties rest on.
THEOREM ScreenInvariant == Spec => [](TypeInv /\ ScreenInv)
<1>1. Init => TypeInv /\ ScreenInv
  BY TypeInit, ScreenInit
<1>2. TypeInv /\ ScreenInv /\ [Next]_vars => (TypeInv /\ ScreenInv)'
  <2> SUFFICES ASSUME TypeInv, ScreenInv, [Next]_vars
               PROVE  TypeInv' /\ ScreenInv'
    OBVIOUS
  <2> USE DEF ScreenInv
  <2>1. TypeInv'
    BY TypeStep
  <2>2. AnswerInv' /\ LockInv' /\ WritesInv' /\ UndoneInv'
    BY AnswerStep, LockStep, WritesStep, UndoneStep
  <2>3. LoadingInv' /\ FaultInv' /\ ChosenInv'
    BY LoadingStep, FaultStep, ChosenStep
  <2>4. FreshInv' /\ PatchedInv' /\ FutileInv'
    BY FreshStep, PatchedStep, FutileStep
  <2> QED
    BY <2>1, <2>2, <2>3, <2>4
<1> QED
  BY <1>1, <1>2, PTL DEF Spec

-----------------------------------------------------------------------------
(* The properties of Screens                                                *)

\* OfferedIsTaken holds of every screen whose controls are offered only in states
\* the backend takes them in, or are known not to be: a refusal means that
\* somebody else moved the row, whatever the view showed when it was pressed.
THEOREM ScreensOfferWhatIsTaken ==
  ASSUME \A t \in AllTraits : "refusable" \in t.gaps \/ OffersOnlyTaken(t)
  PROVE  Spec => []OfferedIsTaken
<1>1. TypeInv /\ ScreenInv => OfferedIsTaken
  <2> SUFFICES ASSUME TypeInv, ScreenInv, NEW i \in DOMAIN asks,
                      asks[i].st = "refused", asks[i].met = asks[i].offered
               PROVE  "refusable" \in traits.gaps
    BY DEF OfferedIsTaken
  <2>1. /\ i \in 1..Len(asks) /\ traits \in AllTraits
        /\ asks[i].offered \in traits.rows /\ asks[i].offered.offered
    BY TypesOfRows DEF TypeInv, AsksType, RestType
  <2>2. ~asks[i].offered.taken
    BY <2>1 DEF ScreenInv, AnswerInv
  <2> QED
    BY <2>1, <2>2 DEF OffersOnlyTaken
<1> QED
  BY <1>1, ScreenInvariant, PTL

\* TwoRowsNeedALostAnswer holds of every screen whose forms that add a row are
\* disabled while their request is out: however often the form is pressed, a
\* second row takes an answer that was lost.
THEOREM ScreensAddOneRow ==
  ASSUME \A t \in AllTraits : "doubling" \in t.gaps \/ AddsOnce(t)
  PROVE  Spec => []TwoRowsNeedALostAnswer
<1>1. TypeInv /\ ScreenInv => TwoRowsNeedALostAnswer
  <2> SUFFICES ASSUME TypeInv, ScreenInv, traits.adds, writes > 1, "doubling" \notin traits.gaps
               PROVE  \E i \in DOMAIN asks : asks[i].lost
    BY DEF TwoRowsNeedALostAnswer
  <2>1. traits \in AllTraits /\ writes \in Nat /\ DOMAIN asks = 1..Len(asks) /\ Len(asks) \in Nat
    BY TypesOfRows DEF TypeInv, RestType
  <2>2. 1 \in 1..Len(asks)
    BY <2>1 DEF ScreenInv, WritesInv
  <2>3. traits.locks
    <3>1. asks[1].offered \in traits.rows /\ asks[1].offered.offered
      BY <2>2 DEF TypeInv, AsksType
    <3> QED
      BY <2>1, <3>1 DEF AddsOnce, NeverOffered
  <2>4. ~NothingLost
    BY <2>1, <2>3 DEF ScreenInv, WritesInv
  <2> QED
    BY <2>1, <2>4 DEF NothingLost
<1> QED
  BY <1>1, ScreenInvariant, PTL

\* FailureIsSaid holds of every screen on which the hook or the caller of a
\* control tells of its failure.
THEOREM ScreensTellFailures ==
  ASSUME \A t \in AllTraits : "silent" \in t.gaps \/ TellsFailure(t)
  PROVE  Spec => []FailureIsSaid
<1>1. TypeInv /\ ScreenInv => FailureIsSaid
  <2> SUFFICES ASSUME TypeInv, ScreenInv, NEW i \in DOMAIN asks, asks[i].st = "silent"
               PROVE  "silent" \in traits.gaps
    BY DEF FailureIsSaid
  <2>1. /\ i \in 1..Len(asks) /\ traits \in AllTraits
        /\ asks[i].offered \in traits.rows /\ asks[i].offered.offered
    BY TypesOfRows DEF TypeInv, AsksType, RestType
  <2>2. ~traits.told
    BY <2>1 DEF ScreenInv, AnswerInv
  <2> QED
    BY <2>1, <2>2 DEF TellsFailure, NeverOffered
<1> QED
  BY <1>1, ScreenInvariant, PTL

\* UndoesNothing holds of every screen whose controls send the change alone, or
\* send a copy they keep and are disabled meanwhile: a request puts back what an
\* earlier one changed only when one of them was given up.
THEOREM ScreensUndoNothing ==
  ASSUME \A t \in AllTraits : "undoing" \in t.gaps \/ CarriesItsOwn(t)
  PROVE  Spec => []UndoesNothing
<1>1. TypeInv /\ ScreenInv => UndoesNothing
  <2> SUFFICES ASSUME TypeInv, ScreenInv, undone, "undoing" \notin traits.gaps
               PROVE  \E i \in DOMAIN asks : asks[i].lost
    BY DEF UndoesNothing
  <2>1. traits \in AllTraits /\ DOMAIN asks = 1..Len(asks)
    BY TypesOfRows DEF TypeInv, RestType
  <2> QED
    BY <2>1 DEF ScreenInv, UndoneInv, NothingLost
<1> QED
  BY <1>1, ScreenInvariant, PTL

\* ShownIsTrue holds of every view that polls, or whose loads cannot overtake each
\* other and which the control reaches: once loads and requests have settled it
\* shows what was chosen and what the control wrote.
THEOREM ScreensShowWhatIsTrue ==
  ASSUME \A t \in AllTraits :
           \/ t.polls \/ "stale" \in t.gaps \/ "racing" \in t.gaps
           \/ InOrder(t) /\ Reaches(t)
  PROVE  Spec => []ShownIsTrue
<1>1. TypeInv /\ ScreenInv => ShownIsTrue
  <2> SUFFICES ASSUME TypeInv, ScreenInv, Quiet, faults = 0, ~meddled,
                      ~traits.polls, "racing" \notin traits.gaps, "stale" \notin traits.gaps
               PROVE  shown.chosen = chosen /\ (traits.related => shown.writes = writes)
    BY DEF ShownIsTrue
  <2>1. InOrder(traits) /\ Reaches(traits)
    BY DEF TypeInv, RestType
  <2>2. Last.st = "done" /\ ~Answering
    BY TypesOfRows DEF Quiet, InFlight, Unheard, Last, Answering
  <2>3. shown.chosen = chosen
    BY <2>1, <2>2 DEF ScreenInv, ChosenInv, InOrder
  <2>4. ASSUME traits.related PROVE shown.writes = writes
    <3>1. CASE traits.refreshes
      BY <2>1, <2>2, <2>4, <3>1 DEF ScreenInv, FreshInv, InOrder
    <3>2. CASE ~traits.refreshes /\ traits.patches /\ ~traits.turns
      BY <2>2, <3>2 DEF ScreenInv, PatchedInv
    <3>3. CASE Futile(traits)
      BY <3>3 DEF ScreenInv, FutileInv
    <3> QED
      BY <2>1, <2>4, <3>1, <3>2, <3>3 DEF Reaches
  <2> QED
    BY <2>3, <2>4
<1> QED
  BY <1>1, ScreenInvariant, PTL

\* LoadingEnds holds of every view that says or clears a load that failed.
THEOREM ScreensStopLoading ==
  ASSUME \A t \in AllTraits : "stuck" \in t.gaps \/ SaysFailedLoad(t)
  PROVE  Spec => []LoadingEnds
<1>1. TypeInv /\ ScreenInv => LoadingEnds
  <2> SUFFICES ASSUME TypeInv, ScreenInv, Quiet, shown.st = "loading"
               PROVE  "stuck" \in traits.gaps
    BY DEF LoadingEnds
  <2>1. Last.st = "done"
    BY TypesOfRows DEF Quiet, Last
  <2>2. ~SaysFailedLoad(traits)
    BY <2>1 DEF ScreenInv, LoadingInv
  <2> QED
    BY <2>2 DEF TypeInv, RestType
<1> QED
  BY <1>1, ScreenInvariant, PTL
=============================================================================
