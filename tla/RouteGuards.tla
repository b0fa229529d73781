---------------------------- MODULE RouteGuards ----------------------------
(***************************************************************************)
(* Where a signed-in user ends up who opens a page: middleware.ts decides  *)
(* by the roles in the cookies, the layouts' gates by those of GET /me,    *)
(* and each may send the user on to a page the other guards.  Whether      *)
(* Next.js compiles the middleware depends on where it lies (beside app,   *)
(* that is in src/, where it does not), so a behaviour may go without.     *)
(***************************************************************************)

VARIABLES
  wired,    \* the middleware runs
  cookie,   \* the roles in the user_roles cookie
  me,       \* the roles GET /me answers
  at,       \* the page asked for
  showing   \* closed, asking (for the page), gate (loaded), blank, page

vars == <<wired, cookie, me, at, showing>>

Pages == {"/", "/dashboard", "/portal", "/admin"}
\* owner stands for manager, maintenance and landlord as well.
Roles == {"superadmin", "owner", "caretaker", "tenant"}

TypeOK ==
  /\ wired \in BOOLEAN /\ cookie \subseteq Roles /\ me \subseteq Roles
  /\ at \in Pages
  /\ showing \in {"closed", "asking", "gate", "blank", "page"}

Init ==
  /\ wired \in BOOLEAN /\ cookie \in SUBSET Roles /\ me \in SUBSET Roles
  /\ at = "/" /\ showing = "closed"

User == UNCHANGED <<wired, cookie, me>>

\* The user follows a link, or types an address.
Visit ==
  /\ showing \in {"closed", "page", "blank"}
  /\ at' \in Pages /\ showing' = "asking" /\ User

\* Mutants: whoever has none of the staff's roles.
NoStaff(roles) == roles \cap {"superadmin", "owner", "caretaker"} = {}

\* Tenants without another role.
PureTenant(roles) == roles \cap {"superadmin", "owner", "caretaker"} = {} /\ "tenant" \in roles

\* middleware: "/" is public, and the last redirect is meant for the staff's
\* pages but spares none of the others.
SentTo(page) ==
  CASE page = "/" -> page
    [] page = "/admin" /\ "superadmin" \notin cookie -> "/"
    [] page = "/portal" /\ "tenant" \notin cookie -> "/"
    [] PureTenant(cookie) -> "/portal"
    [] OTHER -> page

\* A redirect, also one to the page itself, is asked for anew.
Redirected(page) == page # "/" /\ (SentTo(page) # page \/ PureTenant(cookie))

Middleware ==
  /\ showing = "asking" /\ User
  /\ IF wired /\ Redirected(at) THEN at' = SentTo(at) /\ UNCHANGED showing
     ELSE showing' = "gate" /\ UNCHANGED at

\* The gates: AuthGate sends pure tenants to the portal, but draws nothing for
\* caretakers among the tenants; PortalAuthGate sends all others away; the
\* admin's pages and the public ones have none.
Gate ==
  /\ showing = "gate" /\ User
  /\ \/ /\ at = "/dashboard" /\ PureTenant(me)
        /\ at' = "/portal" /\ showing' = "asking"
     \/ /\ at = "/portal" /\ "tenant" \notin me
        /\ at' = "/dashboard" /\ showing' = "asking"
     \/ /\ at = "/dashboard" /\ ~ PureTenant(me)
        /\ showing' = IF "tenant" \in me /\ me \cap {"superadmin", "owner"} = {}
                      THEN "blank" ELSE "page"
        /\ UNCHANGED at
     \/ /\ (at = "/portal" /\ "tenant" \in me) \/ at \in {"/", "/admin"}
        /\ showing' = "page" /\ UNCHANGED at

Next == Visit \/ Middleware \/ Gate

Fairness == WF_vars(Middleware) /\ WF_vars(Gate)

Spec == Init /\ [][Next]_vars /\ Fairness

\* Every page asked for ends in one that is drawn: the guards, which read the
\* roles from different places, do not send a user round in circles.  Two kinds
\* of user are excepted: tenants without another role where the middleware runs
\* (it sends /portal to /portal), and caretakers who are tenants (on the
\* dashboard, AuthGate's two lists of roles differ).
NavigationSettles ==
  \/ wired /\ PureTenant(cookie)
  \/ "caretaker" \in me /\ "tenant" \in me /\ me \cap {"superadmin", "owner"} = {}
  \/ (showing = "asking" ~> showing = "page")
=============================================================================
