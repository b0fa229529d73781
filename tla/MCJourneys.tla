----------------------------- MODULE MCJourneys -----------------------------
(***************************************************************************)
(* Three journeys of a user, checked in one run: a behaviour takes one of  *)
(* them and leaves the variables of the others as they start.  Nothing of  *)
(* the fair actions is enabled there, so the fairness of each journey is   *)
(* that of its own module.                                                 *)
(***************************************************************************)
EXTENDS Onboarding

CONSTANTS t1, t2, free, basic, pro

\* One tab and trouble, or two tabs without.
MCScopes == {[tabs |-> {t1}, troubles |-> 1, fixes |-> 1],
             [tabs |-> {t1}, troubles |-> 2, fixes |-> 0],
             [tabs |-> {t1, t2}, troubles |-> 0, fixes |-> 1]}

\* Start dates are only compared: every lease is drawn up with the first.
MCDrafts == [start : {1}, months : {0, 1}, deposit : BOOLEAN]

VARIABLES journey, sub, proof, crossed, extended, wired, cookie, me, at, showing

Plan == INSTANCE Subscriptions WITH Free <- free, Paid <- {basic, pro}, Proofs <- 1..3
Guards == INSTANCE RouteGuards

planVars == <<sub, proof, crossed, extended>>
pageVars == <<wired, cookie, me, at, showing>>
all == <<journey, vars, planVars, pageVars>>

JInit ==
  /\ journey \in {"onboarding", "plan", "pages"}
  /\ Init /\ Plan!Init /\ Guards!Init
  /\ journey # "pages" => wired = FALSE /\ cookie = {} /\ me = {}
  /\ journey # "onboarding" =>
       lease.deposit /\ lease.months = 1 /\ tenant = "approved" /\ scope.troubles = 2

JNext ==
  /\ UNCHANGED journey
  /\ \/ journey = "onboarding" /\ Next /\ UNCHANGED <<planVars, pageVars>>
     \/ journey = "plan" /\ Plan!Next /\ UNCHANGED <<vars, pageVars>>
     \/ journey = "pages" /\ Guards!Next /\ UNCHANGED <<vars, planVars>>

JSpec == JInit /\ [][JNext]_all /\ Fairness /\ Guards!Fairness

\* A paid plan is active only when it was paid for (Subscriptions).
ActivePlanWasPaid == Plan!ActivePlanWasPaid

\* Every page asked for ends in one that is drawn (RouteGuards).
NavigationSettles == Guards!NavigationSettles
=============================================================================
