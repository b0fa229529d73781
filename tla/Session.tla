------------------------------ MODULE Session ------------------------------
(***************************************************************************)
(* The session of one browser: httpOnly cookies shared by its tabs, the    *)
(* route handlers that set them, and in each tab the bootstrap and silent  *)
(* refresh of useAuth beside the 401 interceptor of the API client.        *)
(*                                                                         *)
(* Logto is external.  Each sign-in opens a grant with one live refresh    *)
(* token; using it makes every copy of it stale, and a stale one is        *)
(* refused ("Logto rotates the refresh token on every use").  A request    *)
(* carries the cookies of the moment it is sent; a document that goes away *)
(* aborts its requests, whatever the server made of them.  Switching the   *)
(* organisation is left out: its only caller, OrgSwitcher, never renders.  *)
(***************************************************************************)
EXTENDS Naturals, FiniteSets

CONSTANTS
  Tabs,       \* the browser's tabs
  Calls,      \* data requests, beside the one GET /me of each tab
  Home,       \* Home[c]: the tab that makes data request c
  Scopes      \* bounds, one of which a behaviour keeps to: the tabs and data
              \* requests it uses, and how often a sign-in is granted, an
              \* access token expires, and a request fails for no fault of
              \* the session

ASSUME SessionAssumption ==
  /\ Tabs \cap Calls = {} /\ Home \in [Calls -> Tabs]
  /\ \A bound \in Scopes :
       /\ bound.uses \subseteq Tabs \cup Calls
       /\ bound.grants \in Nat /\ bound.lapses \in Nat /\ bound.faults \in Nat

VARIABLES
  cookie,   \* logto_session, refresh_token and pkce_state
  grants,   \* external: how many grants Logto opened
  tab,      \* where each tab is and how far its bootstrap got
  axios,    \* client.ts _isRefreshing: idle, in the refresh, in the retry
  post,     \* the refresh request in flight through each door
  bye,      \* the logout request in flight of each tab
  call,     \* each API request
  lapses,   \* how often an access token expired
  faults,   \* how many requests failed
  scope,    \* which of Scopes this behaviour keeps to
  mishaps,  \* history: what happened that may end a session
  ended     \* history: the user signed out and nobody signed in since

vars == <<cookie, grants, tab, axios, post, bye, call, lapses, faults, scope,
          mishaps, ended>>
counts == <<grants, lapses, faults, scope>>

\* The two places of a tab that call POST /api/auth/refresh.  Each keeps one
\* request at a time; neither knows of the other's.
Doors == Tabs \X {"axios", "auth"}

\* GET /me is named by its tab.
Requests == Tabs \cup Calls
TabOf(c) == IF c \in Tabs THEN c ELSE Home[c]

\* A copy of a refresh token: of which grant, and whether Logto accepts it.
Tokens == [grant : Nat, live : BOOLEAN]
NoToken == [grant |-> 0, live |-> FALSE]
Token(g) == [grant |-> g, live |-> TRUE]
Aged(token, g) == IF token.grant = g THEN [token EXCEPT !.live = FALSE] ELSE token

Nobody == "nobody"
NoPost == [st |-> "none", token |-> NoToken, fresh |-> NoToken]
NoBye == [on |-> FALSE, token |-> NoToken]
NoCall == [st |-> "idle", with |-> "none"]
Doing(st, access) == [st |-> st, with |-> access]
\* Mutants: a second 401 is not passed on.
GotUnlessDenied(c, result) ==
  IF c \in Tabs /\ result # "denied" THEN Doing(result, "none") ELSE NoCall

\* Request c got its answer; the bootstrap looks at that of GET /me.
Got(c, result) == IF c \in Tabs THEN Doing(result, "none") ELSE NoCall
SignedOut == [access |-> "none", refresh |-> NoToken, pkce |-> Nobody]
Away == [at |-> "login", boot |-> "none", auth |-> FALSE, timer |-> FALSE]
Opened == [Away EXCEPT !.at = "app", !.boot = "session"]

\* overlap: a refresh and another refresh or a logout were under way at once;
\* dropped: a page was left with a refresh or logout sent; idp and network: Logto
\* or the browser's connection failed; anonymous: there was no refresh token;
\* backend and revoked: the backend answered an error, or 401 to a live token.
Mishaps == {"overlap", "dropped", "idp", "network", "anonymous", "lapse",
            "logout", "backend", "revoked"}

TypeOK ==
  /\ cookie \in [access : {"none", "valid", "expired"}, refresh : Tokens,
                 pkce : Tabs \cup {Nobody}]
  /\ tab \in [Tabs -> [at : {"login", "idp", "app"},
                       boot : {"none", "session", "renew", "me", "again",
                               "meAgain", "done", "stuck"},
                       auth : BOOLEAN, timer : BOOLEAN]]
  /\ axios \in [Tabs -> {"idle", "refresh", "retry"}]
  /\ post \in [Doors -> [st : {"none", "sent", "ok", "refused", "missing",
                               "broken"}, token : Tokens, fresh : Tokens]]
  /\ bye \in [Tabs -> [on : BOOLEAN, token : Tokens]]
  /\ call \in [Requests -> [st : {"idle", "sent", "lead", "wait", "stranded",
                                  "leadRetry", "retry", "ok", "error", "denied"},
                            with : {"none", "valid", "expired"}]]
  /\ grants \in 0..scope.grants /\ lapses \in 0..scope.lapses /\ faults \in 0..scope.faults
  /\ scope \in Scopes /\ mishaps \subseteq Mishaps /\ ended \in BOOLEAN

Init ==
  /\ cookie = SignedOut
  /\ tab = [t \in Tabs |-> Away]
  /\ axios = [t \in Tabs |-> "idle"]
  /\ post = [d \in Doors |-> NoPost]
  /\ bye = [t \in Tabs |-> NoBye]
  /\ call = [c \in Requests |-> NoCall]
  /\ grants = 0 /\ lapses = 0 /\ faults = 0
  /\ scope \in Scopes /\ mishaps = {} /\ ended = FALSE

-----------------------------------------------------------------------------
(* Shared steps                                                             *)

Sent == {d \in Doors : post[d].st # "none"}
SigningOut == {t \in Tabs : bye[t].on}

\* A request fails for no fault of the session, within the bound.
Spend == faults < scope.faults /\ faults' = faults + 1
Fault(kind) == Spend /\ mishaps' = mishaps \cup {kind}
NoFault == UNCHANGED <<faults, mishaps>>

\* Logto exchanges or revokes the live token of grant g: every copy is stale.
AgedPosts(posts, g) ==
  [d \in Doors |-> [posts[d] EXCEPT !.token = Aged(@, g), !.fresh = Aged(@, g)]]
AgedByes(g) == [t \in Tabs |-> [bye[t] EXCEPT !.token = Aged(@, g)]]
AgedCookie(g) == [cookie EXCEPT !.refresh = Aged(@, g)]

\* The memory of tab t is gone with its document; page replaces it.
Forgets(t, page) ==
  /\ tab' = [tab EXCEPT ![t] = page]
  /\ axios' = [axios EXCEPT ![t] = "idle"]
  /\ call' = [c \in Requests |-> IF TabOf(c) = t THEN NoCall ELSE call[c]]
PostsWithout(t) == [d \in Doors |-> IF d[1] = t THEN NoPost ELSE post[d]]

\* A navigation in tab t, for the reasons why.  What it had sent is aborted:
\* Logto may have rotated or revoked the token all the same.
Replaces(t, page, why) ==
  LET mine == {d \in Sent : d[1] = t}
      dropped == mine # {} \/ bye[t].on
      unheard == {post[d].token : d \in {e \in mine : post[e].st = "sent"}}
                 \cup {bye[t].token}
  IN  /\ Forgets(t, page)
      /\ mishaps' = mishaps \cup why \cup (IF dropped THEN {"dropped"} ELSE {})
      /\ \/ /\ post' = PostsWithout(t)
            /\ bye' = [bye EXCEPT ![t] = NoBye]
            /\ UNCHANGED cookie
         \/ \E token \in unheard :
              /\ token.live
              /\ post' = AgedPosts(PostsWithout(t), token.grant)
              /\ bye' = [AgedByes(token.grant) EXCEPT ![t] = NoBye]
              /\ cookie' = AgedCookie(token.grant)

\* Mutants: the request leaves without the cookies.
SendsBare(d) ==
  /\ post[d].st = "none"
  /\ post' = [post EXCEPT ![d] = [NoPost EXCEPT !.st = "sent"]]
  /\ mishaps' = mishaps
       \cup (IF Sent \cup SigningOut # {} THEN {"overlap"} ELSE {})

\* A refresh request leaves through door d with the refresh cookie.
Sends(d) ==
  /\ post[d].st = "none"
  /\ post' = [post EXCEPT ![d] = [NoPost EXCEPT !.st = "sent",
                                                !.token = cookie.refresh]]
  /\ mishaps' = mishaps
       \cup (IF Sent \cup SigningOut # {} THEN {"overlap"} ELSE {})
       \cup (IF cookie.refresh = NoToken THEN {"anonymous"} ELSE {})

\* silentRefresh: a caller joins the request in flight, or sends one.
SilentRefresh(t) ==
  IF post[<<t, "auth">>].st = "none" THEN Sends(<<t, "auth">>)
  ELSE UNCHANGED <<post, mishaps>>

-----------------------------------------------------------------------------
(* Signing in, opening a page                                               *)

\* GET /api/logto/sign-in: the state cookie is one per browser.
SignIn(t) ==
  /\ t \in scope.uses /\ tab[t].at = "login" /\ grants < scope.grants
  /\ tab' = [tab EXCEPT ![t].at = "idp"]
  /\ cookie' = [cookie EXCEPT !.pkce = t]
  /\ UNCHANGED <<axios, post, bye, call, counts, mishaps, ended>>

\* GET /api/logto/sign-in-callback: the state must be the stored one; then
\* the code buys a session, with a refresh token if Logto grants one.
Callback(t) ==
  /\ tab[t].at = "idp"
  /\ \/ /\ cookie.pkce # t
        /\ tab' = [tab EXCEPT ![t].at = "login"]
        /\ UNCHANGED <<cookie, grants, ended>>
     \/ /\ cookie.pkce = t
        /\ \/ /\ grants < scope.grants
              /\ grants' = grants + 1
              /\ cookie' = [access |-> "valid", pkce |-> Nobody,
                            refresh |-> Token(grants + 1)]
           \/ /\ cookie' = [cookie EXCEPT !.access = "valid", !.pkce = Nobody]
              /\ UNCHANGED grants
        /\ tab' = [tab EXCEPT ![t] = Opened]
        /\ ended' = FALSE
  /\ UNCHANGED <<axios, post, bye, call, lapses, scope, faults, mishaps>>

\* middleware: a page is let through with a session cookie; an expired one
\* needs a refresh cookie beside it.  It lies outside src/, beside which Next.js
\* looks for it, so that it may as well not run.
LetsIn == \/ cookie.access = "valid"
          \/ cookie.access = "expired" /\ cookie.refresh # NoToken

\* The user opens the application, or reloads it.
Open(t) ==
  /\ t \in scope.uses
  /\ tab[t].at = "login" \/ tab[t].boot \in {"done", "stuck"}
  /\ \/ Replaces(t, Opened, {})
     \/ ~ LetsIn /\ tab[t].at = "app" /\ Replaces(t, Away, {})
  /\ UNCHANGED <<counts, ended>>

-----------------------------------------------------------------------------
(* Time: a session cookie's maxAge is the lifetime of the token it holds    *)

AccessExpires ==
  /\ cookie.access = "valid" /\ lapses < scope.lapses
  /\ cookie' = [cookie EXCEPT !.access = "expired"]
  /\ lapses' = lapses + 1
  /\ mishaps' = mishaps
       \cup (IF cookie.refresh = NoToken THEN {"anonymous"} ELSE {})
  /\ UNCHANGED <<grants, tab, axios, post, bye, call, faults, scope, ended>>

CookieExpires ==
  /\ cookie.access = "expired"
  /\ cookie' = [cookie EXCEPT !.access = "none"]
  /\ mishaps' = mishaps \cup {"lapse"}
  /\ UNCHANGED <<tab, axios, post, bye, call, counts, ended>>

-----------------------------------------------------------------------------
(* useAuth                                                                  *)

\* bootstrap, steps 1 to 4: GET /api/auth/session, which only reads the cookies
\* and does not fail here, then refresh or GET /me.
BootSession(t) ==
  /\ tab[t].boot = "session"
  /\ \/ /\ cookie.access = "none"      \* resolveAuth(null): AuthGate leaves
        /\ Replaces(t, Away, {})
     \/ /\ cookie.access = "expired"
        /\ tab' = [tab EXCEPT ![t].boot = "renew"]
        /\ SilentRefresh(t)
        /\ UNCHANGED <<cookie, axios, bye, call>>
     \/ /\ cookie.access = "valid"
        /\ tab' = [tab EXCEPT ![t].boot = "me", ![t].timer = TRUE]
        /\ call' = [call EXCEPT ![t] = Doing("sent", "valid")]
        /\ UNCHANGED <<cookie, axios, post, bye, mishaps>>
  /\ UNCHANGED <<counts, ended>>

\* bootstrap, step 4, once GET /me is settled: resolveAuth(user), or a second
\* try after a 401, or nothing at all (its resolveAuth(null) is commented out).
BootMe(t) ==
  /\ \/ /\ tab[t].boot \in {"me", "meAgain"} /\ call[t].st = "ok"
        /\ tab' = [tab EXCEPT ![t].boot = "done", ![t].auth = TRUE]
        /\ UNCHANGED <<post, mishaps>>
     \/ /\ \/ tab[t].boot \in {"me", "meAgain"} /\ call[t].st = "error"
           \/ tab[t].boot = "meAgain" /\ call[t].st = "denied"
        /\ tab' = [tab EXCEPT ![t].boot = "stuck"]
        /\ UNCHANGED <<post, mishaps>>
     \/ /\ tab[t].boot = "me" /\ call[t].st = "denied"
        /\ tab' = [tab EXCEPT ![t].boot = "again"]
        /\ SilentRefresh(t)
  /\ call' = [call EXCEPT ![t] = NoCall]
  /\ UNCHANGED <<cookie, axios, bye, counts, ended>>

\* The timer set for 60 s before the expiry.
TimerFires(t) ==
  /\ tab[t].timer
  /\ tab' = [tab EXCEPT ![t].timer = FALSE]
  /\ SilentRefresh(t)
  /\ UNCHANGED <<cookie, axios, bye, call, counts, ended>>

\* logout: the timer is cleared, POST /api/auth/logout is sent.
LogsOut(t) ==
  /\ bye' = [bye EXCEPT ![t] = [on |-> TRUE, token |-> cookie.refresh]]
  /\ tab' = [tab EXCEPT ![t].timer = FALSE]

Logout(t) ==
  /\ tab[t].at = "app" /\ tab[t].boot = "done" /\ ~bye[t].on
  /\ LogsOut(t)
  /\ mishaps' = mishaps \cup {"logout"}
       \cup (IF Sent = {} THEN {} ELSE {"overlap"})
  /\ UNCHANGED <<cookie, axios, post, call, counts, ended>>

\* Mutants: the refresh cookie is forgotten.
ClearedAccessOnly == [SignedOut EXCEPT !.refresh = cookie.refresh]

\* clearAuthCookies.
Cleared == SignedOut

\* The handler revokes the token it was sent and clears every auth cookie;
\* should the request fail, the tab goes to /login with the cookies kept.
LogoutAnswered(t) ==
  LET g == bye[t].token.grant
  IN  /\ bye[t].on
      /\ \/ /\ Forgets(t, Away)
            /\ cookie' = Cleared
            /\ post' = AgedPosts(PostsWithout(t), g)
            /\ bye' = [AgedByes(g) EXCEPT ![t] = NoBye]
            /\ ended' = TRUE
            /\ NoFault
         \/ /\ Spend
            /\ Replaces(t, Away, {"network"})
            /\ UNCHANGED ended
      /\ UNCHANGED <<grants, lapses, scope>>

-----------------------------------------------------------------------------
(* POST /api/auth/refresh on the server                                     *)

\* resolveSessionTokens: the base refresh, then the organisation's token,
\* which rotates once more and whose failure is swallowed: a rotation whose
\* answer never came leaves a stale token in the cookie.  Whatever Logto or
\* its absence refuses becomes one 401.
Refresh(d) ==
  LET g == post[d].token.grant
      answer(st) == post' = [post EXCEPT ![d].st = st]
      success(token) ==
        /\ post[d].token.live
        /\ post' = [AgedPosts(post, g) EXCEPT ![d].st = "ok", ![d].fresh = token]
        /\ cookie' = AgedCookie(g) /\ bye' = AgedByes(g)
  IN  /\ post[d].st = "sent"
      /\ \/ /\ post[d].token = NoToken
            /\ answer("missing") /\ NoFault /\ UNCHANGED <<cookie, bye>>
         \/ /\ post[d].token # NoToken /\ ~post[d].token.live
            /\ answer("refused") /\ NoFault /\ UNCHANGED <<cookie, bye>>
         \/ success(Token(g)) /\ NoFault
         \/ success(Aged(Token(g), g)) /\ Fault("idp")
         \/ /\ post[d].token # NoToken
            /\ answer("refused") /\ Fault("idp") /\ UNCHANGED <<cookie, bye>>
      /\ UNCHANGED <<grants, tab, axios, call, lapses, scope, ended>>

\* The browser's connection fails under a refresh: fetch throws.
ConnectionFails(d) ==
  /\ post[d].st \in {"sent", "ok"}
  /\ post' = [post EXCEPT ![d].st = "broken"]
  /\ Fault("network")
  /\ UNCHANGED <<cookie, grants, tab, axios, bye, call, lapses, scope, ended>>

\* Mutants: the rotated token is thrown away; the expiry is not renewed.
RenewedAccessOnly(d) == [cookie EXCEPT !.access = "valid"]
RenewedWithStatus(d) == [cookie EXCEPT !.access = post[d].st, !.refresh = post[d].fresh]

\* The cookies a successful refresh sets.
Renewed(d) == [cookie EXCEPT !.access = "valid", !.refresh = post[d].fresh]

-----------------------------------------------------------------------------
(* The refresh answer in the tab                                            *)

\* silentRefresh: a new expiry and timer, and the bootstrap goes on; no refresh
\* token or no connection gives null; any other refusal logs out.
AuthHears(t) ==
  LET d == <<t, "auth">>
      booting == tab[t].boot \in {"renew", "again"}
  IN  /\ \/ /\ post[d].st = "ok"
            /\ cookie' = Renewed(d)
            /\ tab' = [tab EXCEPT ![t].timer = TRUE, ![t].boot =
                         CASE @ = "renew" -> "me" [] @ = "again" -> "meAgain"
                           [] OTHER -> @]
            /\ call' = IF booting THEN [call EXCEPT ![t] = Doing("sent", "valid")]
                       ELSE call
            /\ UNCHANGED bye
         \/ /\ post[d].st \in {"missing", "broken"}
            /\ tab' = IF booting THEN [tab EXCEPT ![t].boot = "stuck"] ELSE tab
            /\ UNCHANGED <<cookie, bye, call>>
         \/ /\ post[d].st = "refused"
            /\ IF bye[t].on THEN UNCHANGED <<bye, tab>> ELSE LogsOut(t)
            /\ UNCHANGED <<cookie, call>>
      /\ post' = [post EXCEPT ![d] = NoPost]
      /\ UNCHANGED <<axios, counts, mishaps, ended>>

\* Mutants: the leading request alone is told.
ToldLeaderOnly(t, result) ==
  [c \in Requests |->
     IF TabOf(c) # t \/ call[c].st # "lead" THEN call[c]
     ELSE IF result = "denied" THEN Got(c, "denied")
     ELSE Doing("leadRetry", "valid")]

\* The subscribers of tab t and its leading request are told: retry, or denied.
Told(t, result) ==
  [c \in Requests |->
     IF TabOf(c) # t \/ call[c].st \notin {"lead", "wait", "stranded"} THEN call[c]
     ELSE IF result = "denied" THEN Got(c, "denied")
     ELSE Doing(IF call[c].st = "lead" THEN "leadRetry" ELSE "retry", "valid")]

\* The interceptor after its refresh: retry with the subscribers, reject them
\* when there is no refresh token, go to /login on any other refusal.
AxiosHears(t) ==
  LET d == <<t, "axios">>
  IN  /\ \/ /\ post[d].st = "ok"
            /\ cookie' = Renewed(d)
            /\ axios' = [axios EXCEPT ![t] = "retry"]
            /\ call' = Told(t, "retry")
            /\ post' = [post EXCEPT ![d] = NoPost]
            /\ UNCHANGED <<tab, bye, mishaps>>
         \/ /\ post[d].st = "missing"
            /\ axios' = [axios EXCEPT ![t] = "idle"]
            /\ call' = Told(t, "denied")
            /\ post' = [post EXCEPT ![d] = NoPost]
            /\ UNCHANGED <<cookie, tab, bye, mishaps>>
         \/ /\ post[d].st \in {"refused", "broken"}
            /\ Replaces(t, Away, {})
      /\ UNCHANGED <<counts, ended>>

-----------------------------------------------------------------------------
(* API requests through the BFF proxy                                       *)

Ask(c) ==
  /\ c \in scope.uses /\ call[c].st = "idle"
  /\ tab[Home[c]].at = "app" /\ tab[Home[c]].auth
  /\ call' = [call EXCEPT ![c] = Doing("sent", cookie.access)]
  /\ UNCHANGED <<cookie, tab, axios, post, bye, counts, mishaps, ended>>

\* The backend, or the proxy for want of a session cookie, answers 401 to a
\* token that expired; the backend also to one whose user's roles changed.
Unauthorised(c) ==
  IF call[c].with = "valid" THEN faults < scope.faults /\ faults' = faults + 1
  ELSE UNCHANGED faults

\* A first 401: lead the refresh, or subscribe to the one under way.  Who
\* subscribes while the leader retries has missed the notification.
Denied(c) ==
  LET t == TabOf(c)
      becomes(st) == call' = [call EXCEPT ![c] = Doing(st, "none")]
  IN  /\ call[c].st = "sent"
      /\ Unauthorised(c)
      /\ \/ /\ axios[t] = "idle"
            /\ axios' = [axios EXCEPT ![t] = "refresh"]
            /\ becomes("lead")
            /\ Sends(<<t, "axios">>)
         \/ /\ axios[t] = "refresh" /\ becomes("wait")
            /\ UNCHANGED <<axios, post, mishaps>>
         \/ /\ axios[t] = "retry" /\ becomes("stranded")
            /\ UNCHANGED <<axios, post, mishaps>>
      /\ UNCHANGED <<cookie, grants, tab, bye, lapses, scope, ended>>

\* An answer no refresh follows: data, an error of the backend (402, 422,
\* 503 ...), or a second 401.
Settled(c, result) ==
  \/ result = "ok" /\ call[c].with = "valid" /\ NoFault
  \/ result = "error" /\ Fault("backend")
  \/ /\ result = "denied" /\ Unauthorised(c)
     /\ mishaps' = mishaps \cup {"revoked"}

Answered(c) ==
  /\ \E r \in {"ok", "error", "denied"} :
       /\ call[c].st \in (IF r = "denied" THEN {"retry"} ELSE {"sent", "retry"})
       /\ Settled(c, r)
       /\ call' = [call EXCEPT ![c] = Got(c, r)]
  /\ UNCHANGED <<cookie, grants, tab, axios, post, bye, lapses, scope, ended>>

\* The leader's retry: success ends the refresh without a word to whoever
\* subscribed since; a failure of any kind notifies them and leaves for /login.
LeaderAnswered(c) ==
  LET t == TabOf(c)
  IN  /\ call[c].st = "leadRetry"
      /\ \/ /\ Settled(c, "ok")
            /\ call' = [call EXCEPT ![c] = Got(c, "ok")]
            /\ axios' = [axios EXCEPT ![t] = "idle"]
            /\ UNCHANGED <<cookie, tab, post, bye>>
         \/ Spend /\ Replaces(t, Away, {"backend"})
         \/ Unauthorised(c) /\ Replaces(t, Away, {"revoked"})
      /\ UNCHANGED <<grants, lapses, scope, ended>>

-----------------------------------------------------------------------------
Next ==
  \/ AccessExpires \/ CookieExpires
  \/ \E t \in Tabs :
       \/ SignIn(t) \/ Callback(t) \/ Open(t) \/ BootSession(t) \/ BootMe(t)
       \/ TimerFires(t) \/ Logout(t) \/ LogoutAnswered(t)
       \/ AuthHears(t) \/ AxiosHears(t)
  \/ \E d \in Doors : Refresh(d) \/ ConnectionFails(d)
  \/ \E c \in Calls : Ask(c)
  \/ \E c \in Requests : Denied(c) \/ Answered(c) \/ LeaderAnswered(c)

\* Servers answer, answers arrive, and a page's own script runs on.  Nothing
\* obliges the user, the clock or a fault.
Fairness ==
  /\ \A t \in Tabs :
       /\ WF_vars(BootSession(t) \/ BootMe(t)) /\ WF_vars(LogoutAnswered(t))
       /\ WF_vars(AuthHears(t)) /\ WF_vars(AxiosHears(t))
  /\ \A d \in Doors : WF_vars(Refresh(d))
  /\ \A c \in Requests :
       WF_vars(Denied(c) \/ Answered(c) \/ LeaderAnswered(c))

Spec == Init /\ [][Next]_vars /\ Fairness

-----------------------------------------------------------------------------
(* Properties                                                               *)

\* The rotation of refresh tokens survives the two refresh paths: the token
\* in the cookie is one Logto accepts, or a refresh is replacing it, unless
\* requests overlapped, were dropped, or met a fault.
CookieTokenIsLive ==
  \/ cookie.refresh = NoToken
  \/ cookie.refresh.live
  \/ Sent # {}
  \/ mishaps \cap {"overlap", "dropped", "idp", "network"} # {}

\* An automatic logout, an interceptor's redirect and a gate's never end a
\* working session that nothing happened to.
SignedOutForACause ==
  [][\A t \in Tabs :
       /\ tab[t].at = "app" /\ tab'[t].at = "login"
       /\ tab[t].auth \/ cookie.access # "none"
       => mishaps' # {}]_vars

\* After a sign-out was answered no cookie of the session is left or comes
\* back before the next sign-in, unless a refresh was under way beside it.
SignedOutStaysOut ==
  ended /\ "overlap" \notin mishaps =>
    cookie.access = "none" /\ cookie.refresh = NoToken

\* A bootstrap that gives up (the spinner of AuthGate stays) met a failed
\* request or had no refresh token.
StuckNeedsAFault ==
  \A t \in Tabs : tab[t].boot = "stuck" =>
    mishaps \cap {"network", "anonymous", "backend", "revoked"} # {}

\* A request that subscribed to the refresh under way is answered: retried,
\* rejected, or gone with its page.
WaitersAreReleased ==
  \A c \in Requests : call[c].st = "wait" ~> call[c].st # "wait"

\* A page that was let in resolves: the user is known, the bootstrap gave up,
\* or the tab is back at the login page.
BootSettles ==
  \A t \in Tabs : tab[t].boot = "session" ~>
    tab[t].boot \in {"done", "stuck"} \/ tab[t].at = "login"
=============================================================================
