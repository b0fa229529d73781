---------------------------- MODULE SessionProofs ----------------------------
(***************************************************************************)
(* What ends a session, proved for any tabs, data requests and bounds.     *)
(* Two facts carry it.  As long as no two requests that use the refresh    *)
(* token overlapped, one refresh at most is under way and no sign-out      *)
(* beside it; and as long as nothing went wrong at all, that refresh holds *)
(* the live token or brings the live one back.                             *)
(***************************************************************************)
EXTENDS Session, TLAPS

-----------------------------------------------------------------------------
(* The invariant: what is under way. *)

\* No copy of a token is live before its grant was opened.
Sound(token) == token.grant = 0 => ~token.live

TokenInv ==
    /\ Sound(cookie.refresh)
    /\ \A d \in Doors : Sound(post[d].token) /\ Sound(post[d].fresh)
    /\ \A t \in Tabs : Sound(bye[t].token) /\ (~bye[t].on => ~bye[t].token.live)

\* One refresh at a time, and none beside a sign-out.
OneInv ==
    "overlap" \notin mishaps =>
        /\ \A d, e \in Doors : post[d].st # "none" /\ post[e].st # "none" => d = e
        /\ \A d \in Doors, t \in Tabs : post[d].st = "none" \/ ~bye[t].on

\* Signed out, nothing under way can bring a cookie back.
EndedInv ==
    ended /\ "overlap" \notin mishaps =>
        /\ cookie.access = "none" /\ cookie.refresh = NoToken
        /\ \A d \in Doors : /\ post[d].st \in {"none", "sent", "missing", "broken"}
                            /\ post[d].st = "sent" => post[d].token = NoToken

\* Nothing that could cost the cookie its live token has happened.
Quiet == mishaps \cap {"overlap", "dropped", "idp", "network"} = {}

\* The live token is in the cookie or on its way there.
LiveInv ==
    Quiet =>
        /\ \A d \in Doors : /\ post[d].st = "sent" => post[d].token = NoToken \/ post[d].token.live
                            /\ post[d].st = "ok" => post[d].fresh.live
                            /\ post[d].st # "refused"
        /\ \/ cookie.refresh = NoToken
           \/ cookie.refresh.live
           \/ \E d \in Doors : post[d].st = "ok"

\* A refresh without an answer of use has its reason.
PostsInv ==
    \A d \in Doors :
        /\ post[d].st = "sent" /\ post[d].token = NoToken => "anonymous" \in mishaps
        /\ post[d].st = "missing" => "anonymous" \in mishaps
        /\ post[d].st = "broken" => "network" \in mishaps

WireInv == TokenInv /\ OneInv /\ EndedInv /\ LiveInv /\ PostsInv

-----------------------------------------------------------------------------
(* The invariant: what the pages show. *)

\* GET /me that failed has its reason.
MeInv ==
    \A t \in Tabs :
        /\ call[t].st = "error" => "backend" \in mishaps
        /\ call[t].st = "denied" => mishaps \cap {"revoked", "anonymous"} # {}

\* A page past its first look at the session has one, or something happened to it.
CauseInv ==
    /\ \A t \in Tabs :
         /\ tab[t].auth => tab[t].boot = "done"
         /\ bye[t].on => mishaps # {}
         /\ tab[t].at = "app" /\ tab[t].boot # "session" /\ cookie.access = "none" =>
              mishaps # {}
    /\ cookie.access = "expired" /\ cookie.refresh = NoToken => mishaps # {}

PageInv == MeInv /\ StuckNeedsAFault /\ CauseInv

SessionInv == TypeOK /\ WireInv /\ PageInv
-----------------------------------------------------------------------------
(* Tokens, and the types of what is built from them. *)

Cookies == [access : {"none", "valid", "expired"}, refresh : Tokens, pkce : Tabs \cup {Nobody}]
Pages == [at : {"login", "idp", "app"},
          boot : {"none", "session", "renew", "me", "again", "meAgain", "done", "stuck"},
          auth : BOOLEAN, timer : BOOLEAN]
Posts == [st : {"none", "sent", "ok", "refused", "missing", "broken"},
          token : Tokens, fresh : Tokens]
Byes == [on : BOOLEAN, token : Tokens]
CallStates == {"idle", "sent", "lead", "wait", "stranded", "leadRetry", "retry",
               "ok", "error", "denied"}
CallSet == [st : CallStates, with : {"none", "valid", "expired"}]

LEMMA TypeParts ==
    ASSUME TypeOK
    PROVE  /\ cookie \in Cookies /\ tab \in [Tabs -> Pages] /\ post \in [Doors -> Posts]
           /\ axios \in [Tabs -> {"idle", "refresh", "retry"}]
           /\ bye \in [Tabs -> Byes] /\ call \in [Requests -> CallSet]
           /\ scope \in Scopes /\ mishaps \subseteq Mishaps
           /\ scope.grants \in Nat /\ scope.lapses \in Nat /\ scope.faults \in Nat
           /\ grants \in 0..scope.grants /\ lapses \in 0..scope.lapses
           /\ faults \in 0..scope.faults /\ ended \in BOOLEAN
<1>1. scope \in Scopes
  BY DEF TypeOK
<1>2. scope.grants \in Nat /\ scope.lapses \in Nat /\ scope.faults \in Nat
  BY <1>1, SessionAssumption
<1>3. cookie \in Cookies
  BY DEF TypeOK, Cookies
<1>4. tab \in [Tabs -> Pages]
  BY DEF TypeOK, Pages
<1>5. post \in [Doors -> Posts] /\ bye \in [Tabs -> Byes]
  BY DEF TypeOK, Posts, Byes
<1>6. call \in [Requests -> CallSet]
  BY DEF TypeOK, CallSet, CallStates
<1> QED
  BY <1>1, <1>2, <1>3, <1>4, <1>5, <1>6 DEF TypeOK

\* The types again, to be read off a next state.
Typed ==
    /\ cookie \in Cookies /\ tab \in [Tabs -> Pages] /\ post \in [Doors -> Posts]
    /\ axios \in [Tabs -> {"idle", "refresh", "retry"}]
    /\ bye \in [Tabs -> Byes] /\ call \in [Requests -> CallSet]
    /\ scope \in Scopes /\ mishaps \subseteq Mishaps
    /\ grants \in 0..scope.grants /\ lapses \in 0..scope.lapses
    /\ faults \in 0..scope.faults /\ ended \in BOOLEAN

LEMMA TypedIsTypeOK == Typed => TypeOK
<1> SUFFICES ASSUME Typed PROVE TypeOK
  OBVIOUS
<1>1. cookie \in Cookies /\ tab \in [Tabs -> Pages] /\ post \in [Doors -> Posts]
  BY DEF Typed
<1>2. call \in [Requests -> [st : CallStates, with : {"none", "valid", "expired"}]]
  BY DEF Typed, CallSet
<1> QED
  BY <1>1, <1>2 DEF Typed, TypeOK, Cookies, Pages, Posts, Byes, CallStates

LEMMA TypedNext == Typed' => TypeOK'
BY TypedIsTypeOK, PTL

LEMMA TokenFacts ==
    /\ NoToken \in Tokens /\ ~NoToken.live /\ NoToken.grant = 0 /\ Sound(NoToken)
    /\ \A token \in Tokens : Sound(token) /\ token.grant = 0 => token = NoToken
    /\ \A g \in Nat : /\ Token(g) \in Tokens /\ Token(g).live /\ Token(g).grant = g
                      /\ g # 0 => Sound(Token(g))
<1>1. \A token \in Tokens : token.grant = 0 /\ token.live = FALSE => token = NoToken
  BY DEF Tokens, NoToken
<1> QED
  BY <1>1 DEF Tokens, NoToken, Token, Sound

LEMMA AgedFacts ==
    ASSUME NEW token \in Tokens, NEW g
    PROVE  /\ Aged(token, g) \in Tokens
           /\ Aged(token, g).grant = token.grant
           /\ Aged(token, g).live => token.live
           /\ Sound(token) => Sound(Aged(token, g))
           /\ token.grant # g => Aged(token, g) = token
           /\ token.grant = g => ~Aged(token, g).live
           /\ token = NoToken => Aged(token, g) = NoToken
           /\ Sound(token) /\ Aged(token, g) = NoToken => token = NoToken
<1>1. CASE token.grant = g
  <2>1. /\ Aged(token, g) = [token EXCEPT !.live = FALSE]
        /\ token.grant \in Nat /\ token.live \in BOOLEAN
    BY <1>1 DEF Aged, Tokens
  <2>2. /\ Aged(token, g) \in Tokens /\ Aged(token, g).grant = token.grant
        /\ ~Aged(token, g).live
    BY <2>1 DEF Tokens
  <2>3. Sound(Aged(token, g))
    BY <2>2 DEF Sound
  <2>4. token = NoToken => Aged(token, g) = NoToken
    BY <2>2, <2>3, TokenFacts
  <2>5. Sound(token) /\ Aged(token, g) = NoToken => token = NoToken
    BY <2>2, TokenFacts
  <2> QED
    BY <1>1, <2>2, <2>3, <2>4, <2>5
<1>2. CASE token.grant # g
  BY <1>2 DEF Aged
<1> QED
  BY <1>1, <1>2

LEMMA RecordTypes ==
    /\ NoPost \in Posts /\ NoBye \in Byes /\ NoCall \in CallSet
    /\ SignedOut \in Cookies /\ Away \in Pages /\ Opened \in Pages
    /\ \A st \in CallStates, access \in {"none", "valid", "expired"} :
         Doing(st, access) \in CallSet
    /\ \A c \in Requests, result \in {"ok", "error", "denied"} : Got(c, result) \in CallSet
<1>1. NoPost \in Posts /\ NoBye \in Byes
  BY TokenFacts DEF NoPost, NoBye, Posts, Byes
<1>2. SignedOut \in Cookies /\ Away \in Pages /\ Opened \in Pages
  BY TokenFacts DEF SignedOut, Cookies, Away, Opened, Pages
<1>3. \A st \in CallStates, access \in {"none", "valid", "expired"} :
         Doing(st, access) \in CallSet
  BY DEF Doing, CallSet
<1>4. NoCall \in CallSet
  BY DEF NoCall, CallSet, CallStates
<1>5. \A c \in Requests, result \in {"ok", "error", "denied"} : Got(c, result) \in CallSet
  <2>1. {"ok", "error", "denied"} \subseteq CallStates
    BY DEF CallStates
  <2> QED
    BY <1>3, <1>4, <2>1 DEF Got
<1> QED
  BY <1>1, <1>2, <1>3, <1>4, <1>5

LEMMA PageShapes ==
    /\ Away.at = "login" /\ Away.boot = "none" /\ ~Away.auth
    /\ Opened.at = "app" /\ Opened.boot = "session" /\ ~Opened.auth
<1>1. Away.at = "login" /\ Away.boot = "none" /\ ~Away.auth
  BY DEF Away
<1>2. Opened.at = "app" /\ Opened.boot = "session" /\ Opened.auth = Away.auth
  BY DEF Away, Opened
<1> QED
  BY <1>1, <1>2

\* A copy in a request grows stale.
LEMMA PostForms ==
    ASSUME NEW p \in Posts, NEW g
    PROVE  LET q == [p EXCEPT !.token = Aged(@, g), !.fresh = Aged(@, g)]
           IN  /\ q \in Posts /\ q.st = p.st
               /\ q.token = Aged(p.token, g) /\ q.fresh = Aged(p.fresh, g)
<1>1. p.token \in Tokens /\ p.fresh \in Tokens
  BY DEF Posts
<1>2. Aged(p.token, g) \in Tokens /\ Aged(p.fresh, g) \in Tokens
  BY <1>1, AgedFacts
<1> QED
  BY <1>2 DEF Posts

LEMMA AgedPostsFacts ==
    ASSUME NEW posts \in [Doors -> Posts], NEW g
    PROVE  /\ AgedPosts(posts, g) \in [Doors -> Posts]
           /\ \A d \in Doors : /\ AgedPosts(posts, g)[d].st = posts[d].st
                               /\ AgedPosts(posts, g)[d].token = Aged(posts[d].token, g)
                               /\ AgedPosts(posts, g)[d].fresh = Aged(posts[d].fresh, g)
<1> DEFINE q(d) == [posts[d] EXCEPT !.token = Aged(@, g), !.fresh = Aged(@, g)]
<1>1. AgedPosts(posts, g) = [d \in Doors |-> q(d)]
  BY DEF AgedPosts
<1>2. \A d \in Doors : /\ q(d) \in Posts /\ q(d).st = posts[d].st
                       /\ q(d).token = Aged(posts[d].token, g)
                       /\ q(d).fresh = Aged(posts[d].fresh, g)
  BY PostForms
<1> HIDE DEF q
<1> QED
  BY <1>1, <1>2

LEMMA AgedByesFacts ==
    ASSUME bye \in [Tabs -> Byes], NEW g
    PROVE  /\ AgedByes(g) \in [Tabs -> Byes]
           /\ \A t \in Tabs : /\ AgedByes(g)[t].on = bye[t].on
                              /\ AgedByes(g)[t].token = Aged(bye[t].token, g)
<1> DEFINE q(t) == [bye[t] EXCEPT !.token = Aged(@, g)]
<1>1. AgedByes(g) = [t \in Tabs |-> q(t)]
  BY DEF AgedByes
<1>2. \A t \in Tabs : q(t) \in Byes /\ q(t).on = bye[t].on /\ q(t).token = Aged(bye[t].token, g)
  <2> SUFFICES ASSUME NEW t \in Tabs
               PROVE  q(t) \in Byes /\ q(t).on = bye[t].on /\ q(t).token = Aged(bye[t].token, g)
    OBVIOUS
  <2>1. bye[t] \in Byes /\ bye[t].token \in Tokens
    BY DEF Byes
  <2>2. Aged(bye[t].token, g) \in Tokens
    BY <2>1, AgedFacts
  <2> QED
    BY <2>1, <2>2 DEF Byes
<1> HIDE DEF q
<1> QED
  BY <1>1, <1>2

LEMMA AgedCookieFacts ==
    ASSUME cookie \in Cookies, NEW g
    PROVE  /\ AgedCookie(g) \in Cookies /\ AgedCookie(g).access = cookie.access
           /\ AgedCookie(g).refresh = Aged(cookie.refresh, g)
<1>1. cookie.refresh \in Tokens
  BY DEF Cookies
<1>2. Aged(cookie.refresh, g) \in Tokens
  BY <1>1, AgedFacts
<1> QED
  BY <1>2 DEF AgedCookie, Cookies
-----------------------------------------------------------------------------
(* What fades: copies that grow stale, requests that are dropped. *)

Fades(old, new) == new \in Tokens /\ new.grant = old.grant /\ (new.live => old.live)

LEMMA FadedFacts ==
    ASSUME NEW old \in Tokens, NEW new, Fades(old, new), Sound(old)
    PROVE  Sound(new) /\ (new = NoToken <=> old = NoToken)
<1>1. Sound(new) /\ new \in Tokens
  BY DEF Fades, Sound
<1>2. new = NoToken => old.grant = 0
  BY TokenFacts DEF Fades
<1>3. old = NoToken => new.grant = 0
  BY TokenFacts DEF Fades
<1> QED
  BY <1>1, <1>2, <1>3, TokenFacts

LEMMA AgedFades == \A token \in Tokens : \A g : Fades(token, Aged(token, g)) /\ Fades(token, token)
BY AgedFacts DEF Fades

\* A step that sends nothing and brings nothing back.
WireFades ==
    /\ \A d \in Doors : \/ post'[d] = NoPost
                        \/ /\ post'[d].st = post[d].st
                           /\ Fades(post[d].token, post'[d].token)
                           /\ Fades(post[d].fresh, post'[d].fresh)
    /\ \A t \in Tabs : \/ bye'[t] = NoBye
                       \/ bye'[t].on = bye[t].on /\ Fades(bye[t].token, bye'[t].token)
    /\ Fades(cookie.refresh, cookie'.refresh)
    /\ cookie.access = "none" => cookie'.access = "none"
    /\ mishaps \subseteq mishaps' /\ ended' = ended
    /\ Quiet' => /\ cookie'.refresh = cookie.refresh
                 /\ \A d \in Doors : \/ post'[d] = post[d]
                                     \/ post'[d] = NoPost /\ post[d].st # "ok"

LEMMA WireFadesKeeps ==
    ASSUME TypeOK, WireInv, WireFades
    PROVE  WireInv'
<1>1. /\ cookie.refresh \in Tokens
      /\ \A d \in Doors : post[d].token \in Tokens /\ post[d].fresh \in Tokens
      /\ \A t \in Tabs : bye[t].token \in Tokens
  BY TypeParts DEF Cookies, Posts, Byes
<1>2. NoPost.st = "none" /\ NoPost.token = NoToken /\ NoPost.fresh = NoToken
      /\ ~NoBye.on /\ NoBye.token = NoToken
  BY DEF NoPost, NoBye
<1>3. TokenInv'
  <2>1. Sound(cookie.refresh)'
    BY <1>1, FadedFacts DEF WireInv, TokenInv, WireFades, Sound
  <2>2. ASSUME NEW d \in Doors PROVE Sound(post[d].token)' /\ Sound(post[d].fresh)'
    <3>1. CASE post'[d] = NoPost
      BY <1>2, <3>1, TokenFacts DEF Sound
    <3>2. CASE Fades(post[d].token, post'[d].token) /\ Fades(post[d].fresh, post'[d].fresh)
      BY <1>1, <3>2, FadedFacts DEF WireInv, TokenInv, Sound
    <3> QED
      BY <3>1, <3>2 DEF WireFades
  <2>3. ASSUME NEW t \in Tabs
        PROVE  Sound(bye[t].token)' /\ (~bye[t].on => ~bye[t].token.live)'
    <3>1. CASE bye'[t] = NoBye
      BY <1>2, <3>1, TokenFacts DEF Sound
    <3>2. CASE bye'[t].on = bye[t].on /\ Fades(bye[t].token, bye'[t].token)
      <4>1. Sound(bye[t].token) /\ (~bye[t].on => ~bye[t].token.live)
        BY DEF WireInv, TokenInv
      <4> QED
        BY <1>1, <3>2, <4>1, FadedFacts DEF Fades, Sound
    <3> QED
      BY <3>1, <3>2 DEF WireFades
  <2> QED
    BY <2>1, <2>2, <2>3 DEF TokenInv
<1>4. \A d \in Doors : post'[d].st # "none" =>
         /\ post'[d].st = post[d].st
         /\ post'[d].token = NoToken <=> post[d].token = NoToken
  <2> SUFFICES ASSUME NEW d \in Doors, post'[d].st # "none"
               PROVE  /\ post'[d].st = post[d].st
                      /\ post'[d].token = NoToken <=> post[d].token = NoToken
    OBVIOUS
  <2>1. post'[d].st = post[d].st /\ Fades(post[d].token, post'[d].token)
    BY <1>2 DEF WireFades
  <2> QED
    BY <1>1, <2>1, FadedFacts DEF WireInv, TokenInv
<1>5. \A t \in Tabs : bye'[t].on => bye[t].on
  BY <1>2 DEF WireFades
<1>6. mishaps \subseteq mishaps' /\ ended' = ended
  BY DEF WireFades
<1>7. OneInv'
  BY <1>4, <1>5, <1>6 DEF WireInv, OneInv
<1>8. EndedInv'
  <2>1. cookie.refresh = NoToken => cookie'.refresh = NoToken
    BY <1>1, FadedFacts DEF WireInv, TokenInv, WireFades
  <2>2. cookie.access = "none" => cookie'.access = "none"
    BY DEF WireFades
  <2> QED
    BY <1>4, <1>6, <2>1, <2>2 DEF WireInv, EndedInv
<1>9. PostsInv'
  BY <1>4, <1>6 DEF WireInv, PostsInv
<1>10. LiveInv'
  <2> SUFFICES ASSUME Quiet' PROVE LiveInv'
    BY DEF LiveInv
  <2>1. Quiet
    BY <1>6 DEF Quiet
  <2>2. /\ cookie'.refresh = cookie.refresh
        /\ \A d \in Doors : post'[d] = post[d] \/ (post'[d] = NoPost /\ post[d].st # "ok")
    BY DEF WireFades
  <2> QED
    BY <1>2, <2>1, <2>2 DEF WireInv, LiveInv
<1> QED
  BY <1>3, <1>7, <1>8, <1>9, <1>10 DEF WireInv

\* What a step leaves of the pages' part of the invariant.
LEMMA PageFrame ==
    ASSUME PageInv, mishaps \subseteq mishaps',
           \A t \in Tabs :
             /\ call'[t].st = "error" => call[t].st = "error" \/ "backend" \in mishaps'
             /\ call'[t].st = "denied" =>
                  call[t].st = "denied" \/ mishaps' \cap {"revoked", "anonymous"} # {}
             /\ tab'[t].boot = "stuck" =>
                  \/ tab[t].boot = "stuck"
                  \/ mishaps' \cap {"network", "anonymous", "backend", "revoked"} # {}
             /\ tab'[t].auth => tab'[t].boot = "done"
             /\ bye'[t].on => bye[t].on \/ mishaps' # {}
             /\ tab'[t].at = "app" /\ tab'[t].boot # "session" /\ cookie'.access = "none" =>
                  mishaps' # {},
           cookie'.access = "expired" /\ cookie'.refresh = NoToken => mishaps' # {}
    PROVE  PageInv'
<1>1. MeInv'
  BY DEF PageInv, MeInv
<1>2. StuckNeedsAFault'
  BY DEF PageInv, StuckNeedsAFault
<1>3. CauseInv'
  BY DEF PageInv, CauseInv
<1> QED
  BY <1>1, <1>2, <1>3 DEF PageInv
-----------------------------------------------------------------------------
(* A navigation. *)

LEMMA WithoutFacts ==
    ASSUME post \in [Doors -> Posts], NEW t \in Tabs
    PROVE  /\ PostsWithout(t) \in [Doors -> Posts]
           /\ \A d \in Doors : PostsWithout(t)[d] = IF d[1] = t THEN NoPost ELSE post[d]
BY RecordTypes DEF PostsWithout

LEMMA ForgetsFacts ==
    ASSUME TypeOK, NEW t \in Tabs, NEW page \in Pages, Forgets(t, page)
    PROVE  /\ tab' \in [Tabs -> Pages] /\ axios' \in [Tabs -> {"idle", "refresh", "retry"}]
           /\ call' \in [Requests -> CallSet]
           /\ \A c \in Requests : call'[c] = NoCall \/ call'[c] = call[c]
           /\ \A u \in Tabs : tab'[u] = IF u = t THEN page ELSE tab[u]
<1>1. /\ tab \in [Tabs -> Pages] /\ axios \in [Tabs -> {"idle", "refresh", "retry"}]
      /\ call \in [Requests -> CallSet]
  BY TypeParts
<1>2. tab' \in [Tabs -> Pages] /\ \A u \in Tabs : tab'[u] = IF u = t THEN page ELSE tab[u]
  BY <1>1 DEF Forgets
<1>3. axios' \in [Tabs -> {"idle", "refresh", "retry"}]
  BY <1>1 DEF Forgets
<1>4. /\ call' \in [Requests -> CallSet]
      /\ \A c \in Requests : call'[c] = NoCall \/ call'[c] = call[c]
  BY <1>1, RecordTypes DEF Forgets
<1> QED
  BY <1>2, <1>3, <1>4

LEMMA ReplacesWires ==
    ASSUME TypeOK, WireInv, NEW t \in Tabs, NEW page, NEW why, why \subseteq Mishaps,
           Replaces(t, page, why)
    PROVE  /\ post' \in [Doors -> Posts] /\ bye' \in [Tabs -> Byes] /\ cookie' \in Cookies
           /\ mishaps' \subseteq Mishaps /\ mishaps \cup why \subseteq mishaps'
           /\ cookie'.access = cookie.access
           /\ cookie'.refresh = NoToken <=> cookie.refresh = NoToken
           /\ \A u \in Tabs : bye'[u].on => bye[u].on
           /\ ended' = ended => WireFades
<1> DEFINE mine    == {d \in Sent : d[1] = t}
           dropped == mine # {} \/ bye[t].on
           unheard == {post[d].token : d \in {e \in mine : post[e].st = "sent"}}
                      \cup {bye[t].token}
<1>1. /\ cookie \in Cookies /\ post \in [Doors -> Posts] /\ bye \in [Tabs -> Byes]
      /\ mishaps \subseteq Mishaps
  BY TypeParts
<1>2. /\ cookie.refresh \in Tokens
      /\ \A d \in Doors : post[d].token \in Tokens /\ post[d].fresh \in Tokens
      /\ \A u \in Tabs : bye[u].token \in Tokens
  BY <1>1 DEF Cookies, Posts, Byes
<1>3. mishaps' = mishaps \cup why \cup (IF dropped THEN {"dropped"} ELSE {})
  BY DEF Replaces
<1>4. mishaps' \subseteq Mishaps /\ mishaps \cup why \subseteq mishaps'
  BY <1>1, <1>3 DEF Mishaps
<1>5. Quiet' => ~dropped
  BY <1>3 DEF Quiet
<1>6. NoBye \in Byes /\ ~NoBye.on /\ NoPost.st = "none"
  BY RecordTypes DEF NoBye, NoPost
<1>7. ~dropped => \A d \in Doors : d[1] = t => post[d].st = "none"
  BY DEF Sent
<1> HIDE DEF dropped
<1>8. \A d \in Doors : PostsWithout(t)[d] = NoPost \/ PostsWithout(t)[d] = post[d]
  BY <1>1, WithoutFacts
\* a page that was left with nothing sent changes no request
<1>9. ASSUME ~dropped, NEW d \in Doors
      PROVE  \/ PostsWithout(t)[d] = post[d]
             \/ PostsWithout(t)[d] = NoPost /\ post[d].st # "ok"
  <2>1. PostsWithout(t)[d] = IF d[1] = t THEN NoPost ELSE post[d]
    BY <1>1, WithoutFacts
  <2> QED
    BY <1>7, <1>9, <2>1
<1>10. CASE /\ post' = PostsWithout(t)
            /\ bye' = [bye EXCEPT ![t] = NoBye]
            /\ UNCHANGED cookie
  <2>1. post' \in [Doors -> Posts] /\ bye' \in [Tabs -> Byes] /\ cookie' \in Cookies
    BY <1>1, <1>6, <1>10, WithoutFacts
  <2>2. \A u \in Tabs : bye'[u] = NoBye \/ bye'[u] = bye[u]
    BY <1>1, <1>10
  <2>3. ASSUME ended' = ended PROVE WireFades
    <3>1. \A d \in Doors : \/ post'[d] = NoPost
                           \/ /\ post'[d].st = post[d].st
                              /\ Fades(post[d].token, post'[d].token)
                              /\ Fades(post[d].fresh, post'[d].fresh)
      BY <1>2, <1>8, <1>10, AgedFades
    <3>2. \A u \in Tabs : \/ bye'[u] = NoBye
                          \/ bye'[u].on = bye[u].on /\ Fades(bye[u].token, bye'[u].token)
      BY <1>2, <2>2, AgedFades
    <3>3. Fades(cookie.refresh, cookie'.refresh)
      BY <1>2, <1>10, AgedFades
    <3>4. ASSUME Quiet', NEW d \in Doors
          PROVE  post'[d] = post[d] \/ (post'[d] = NoPost /\ post[d].st # "ok")
      <4>1. ~dropped
        BY <1>5, <3>4
      <4> QED
        BY <1>9, <1>10, <4>1
    <3> QED
      BY <1>4, <1>10, <2>3, <3>1, <3>2, <3>3, <3>4 DEF WireFades
  <2> QED
    BY <1>4, <1>6, <1>10, <2>1, <2>2, <2>3
<1>11. ASSUME NEW token \in unheard, token.live,
              post' = AgedPosts(PostsWithout(t), token.grant),
              bye' = [AgedByes(token.grant) EXCEPT ![t] = NoBye],
              cookie' = AgedCookie(token.grant)
       PROVE  /\ post' \in [Doors -> Posts] /\ bye' \in [Tabs -> Byes] /\ cookie' \in Cookies
              /\ cookie'.access = cookie.access
              /\ cookie'.refresh = NoToken <=> cookie.refresh = NoToken
              /\ \A u \in Tabs : bye'[u].on => bye[u].on
              /\ ended' = ended => WireFades
  <2> DEFINE g == token.grant
  <2>1. dropped
    BY <1>11 DEF WireInv, TokenInv, dropped
  <2> HIDE DEF g
  <2>2. /\ post' \in [Doors -> Posts]
        /\ \A d \in Doors : /\ post'[d].st = PostsWithout(t)[d].st
                            /\ post'[d].token = Aged(PostsWithout(t)[d].token, g)
                            /\ post'[d].fresh = Aged(PostsWithout(t)[d].fresh, g)
    <3>1. post' = AgedPosts(PostsWithout(t), g)
      BY <1>11 DEF g
    <3> QED
      BY <1>1, <3>1, WithoutFacts, AgedPostsFacts
  <2>3. /\ bye' \in [Tabs -> Byes]
        /\ \A u \in Tabs : \/ bye'[u] = NoBye
                           \/ bye'[u].on = bye[u].on /\ bye'[u].token = Aged(bye[u].token, g)
    <3>1. bye' = [AgedByes(g) EXCEPT ![t] = NoBye]
      BY <1>11 DEF g
    <3> QED
      BY <1>1, <1>6, <3>1, AgedByesFacts
  <2>4. /\ cookie' \in Cookies /\ cookie'.access = cookie.access
        /\ cookie'.refresh = Aged(cookie.refresh, g)
    <3>1. cookie' = AgedCookie(g)
      BY <1>11 DEF g
    <3> QED
      BY <1>1, <3>1, AgedCookieFacts
  <2>5. Fades(cookie.refresh, cookie'.refresh)
    BY <1>2, <2>4, AgedFades
  <2>6. cookie'.refresh = NoToken <=> cookie.refresh = NoToken
    BY <1>2, <2>5, FadedFacts DEF WireInv, TokenInv
  <2>7. ASSUME ended' = ended PROVE WireFades
    <3>1. ASSUME NEW d \in Doors
          PROVE  \/ post'[d] = NoPost
                 \/ /\ post'[d].st = post[d].st
                    /\ Fades(post[d].token, post'[d].token)
                    /\ Fades(post[d].fresh, post'[d].fresh)
      <4>1. CASE PostsWithout(t)[d] = NoPost
        <5>1. post'[d].st = "none" /\ post'[d].token = NoToken /\ post'[d].fresh = NoToken
          BY <2>2, <4>1, TokenFacts, AgedFacts DEF NoPost
        <5>2. post'[d] \in Posts
          BY <2>2
        <5>3. post'[d] = [st |-> post'[d].st, token |-> post'[d].token,
                          fresh |-> post'[d].fresh]
          BY <5>2 DEF Posts
        <5> QED
          BY <5>1, <5>3 DEF NoPost
      <4>2. CASE PostsWithout(t)[d] = post[d]
        BY <1>2, <2>2, <4>2, AgedFades
      <4> QED
        BY <1>8, <4>1, <4>2
    <3>2. \A u \in Tabs : \/ bye'[u] = NoBye
                          \/ bye'[u].on = bye[u].on /\ Fades(bye[u].token, bye'[u].token)
      BY <1>2, <2>3, AgedFades
    <3>3. ~Quiet'
      BY <1>5, <2>1
    <3> QED
      BY <1>4, <2>4, <2>5, <2>7, <3>1, <3>2, <3>3 DEF WireFades
  <2> QED
    BY <1>6, <2>2, <2>3, <2>4, <2>6, <2>7
<1>12. \/ /\ post' = PostsWithout(t)
          /\ bye' = [bye EXCEPT ![t] = NoBye]
          /\ UNCHANGED cookie
       \/ \E token \in unheard :
            /\ token.live
            /\ post' = AgedPosts(PostsWithout(t), token.grant)
            /\ bye' = [AgedByes(token.grant) EXCEPT ![t] = NoBye]
            /\ cookie' = AgedCookie(token.grant)
  BY DEF Replaces
<1> QED
  BY <1>4, <1>10, <1>11, <1>12

\* Leaving for /login or opening the page anew keeps the invariant.
LEMMA ReplacesKeeps ==
    ASSUME SessionInv, NEW t \in Tabs, NEW page \in {Away, Opened}, NEW why,
           why \subseteq Mishaps, Replaces(t, page, why), UNCHANGED <<grants, lapses, scope, ended>>,
           faults' \in 0..scope.faults
    PROVE  SessionInv'
<1>1. page \in Pages /\ ~page.auth /\ page.boot # "stuck"
      /\ (page.at = "app" => page.boot = "session")
  BY RecordTypes, PageShapes
<1>2. TypeOK /\ WireInv /\ PageInv
  BY DEF SessionInv
<1>3. Forgets(t, page)
  BY DEF Replaces
<1>4. /\ tab' \in [Tabs -> Pages] /\ axios' \in [Tabs -> {"idle", "refresh", "retry"}]
      /\ call' \in [Requests -> CallSet]
      /\ \A c \in Requests : call'[c] = NoCall \/ call'[c] = call[c]
      /\ \A u \in Tabs : tab'[u] = IF u = t THEN page ELSE tab[u]
  BY <1>1, <1>2, <1>3, ForgetsFacts
<1>5. /\ post' \in [Doors -> Posts] /\ bye' \in [Tabs -> Byes] /\ cookie' \in Cookies
      /\ mishaps' \subseteq Mishaps /\ mishaps \cup why \subseteq mishaps'
      /\ cookie'.access = cookie.access
      /\ cookie'.refresh = NoToken <=> cookie.refresh = NoToken
      /\ \A u \in Tabs : bye'[u].on => bye[u].on
      /\ WireFades
  BY <1>2, ReplacesWires
<1>6. TypeOK'
  <2>1. Typed'
    BY <1>2, <1>4, <1>5, TypeParts DEF Typed
  <2> QED
    BY <2>1, TypedNext
<1>7. WireInv'
  BY <1>2, <1>5, WireFadesKeeps
<1>8. PageInv'
  <2>1. ASSUME NEW u \in Tabs
        PROVE  /\ call'[u].st \in {"error", "denied"} => call'[u].st = call[u].st
               /\ tab'[u].boot = "stuck" => tab[u].boot = "stuck"
               /\ tab'[u].auth => tab'[u].boot = "done"
               /\ bye'[u].on => bye[u].on
               /\ tab'[u].at = "app" /\ tab'[u].boot # "session" /\ cookie'.access = "none" =>
                    mishaps' # {}
    <3>1. u \in Requests /\ NoCall.st = "idle"
      BY DEF Requests, NoCall
    <3>2. call'[u].st \in {"error", "denied"} => call'[u].st = call[u].st
      BY <1>4, <3>1
    <3>3. CASE u = t
      BY <1>1, <1>4, <1>5, <3>2, <3>3
    <3>4. CASE u # t
      BY <1>2, <1>4, <1>5, <3>2, <3>4 DEF PageInv, CauseInv
    <3> QED
      BY <3>3, <3>4
  <2>2. cookie'.access = "expired" /\ cookie'.refresh = NoToken => mishaps' # {}
    BY <1>2, <1>5 DEF PageInv, CauseInv
  <2> QED
    BY <1>2, <1>5, <2>1, <2>2, PageFrame
<1> QED
  BY <1>6, <1>7, <1>8 DEF SessionInv
-----------------------------------------------------------------------------
(* A refresh leaves. *)

LEMMA WireSame ==
    ASSUME WireInv, UNCHANGED <<cookie, post, bye, mishaps, ended>>
    PROVE  WireInv'
<1>1. TokenInv' /\ OneInv'
  BY DEF WireInv, TokenInv, OneInv, Sound
<1>2. EndedInv' /\ PostsInv'
  BY DEF WireInv, EndedInv, PostsInv
<1>3. LiveInv'
  BY DEF WireInv, LiveInv, Quiet
<1> QED
  BY <1>1, <1>2, <1>3 DEF WireInv

LEMMA SendsKeeps ==
    ASSUME TypeOK, WireInv, NEW d \in Doors, Sends(d), UNCHANGED <<cookie, bye, ended>>
    PROVE  /\ WireInv' /\ post' \in [Doors -> Posts] /\ mishaps' \subseteq Mishaps
           /\ mishaps \subseteq mishaps'
<1> DEFINE new     == [NoPost EXCEPT !.st = "sent", !.token = cookie.refresh]
           overlap == Sent \cup SigningOut # {}
           bare    == cookie.refresh = NoToken
<1>1. /\ cookie.refresh \in Tokens /\ post \in [Doors -> Posts] /\ mishaps \subseteq Mishaps
      /\ NoPost \in Posts /\ NoPost.fresh = NoToken
  BY TypeParts, RecordTypes DEF Cookies, NoPost
<1>2. /\ post[d].st = "none" /\ post' = [post EXCEPT ![d] = new]
      /\ mishaps' = mishaps \cup (IF overlap THEN {"overlap"} ELSE {})
                            \cup (IF bare THEN {"anonymous"} ELSE {})
  BY DEF Sends
<1>3. /\ new \in Posts /\ new.st = "sent" /\ new.token = cookie.refresh
      /\ new.fresh = NoToken
  BY <1>1 DEF Posts
<1> HIDE DEF new
<1>4. ~overlap => /\ \A e \in Doors : post[e].st = "none"
                  /\ \A t \in Tabs : ~bye[t].on
  BY DEF Sent, SigningOut
<1> HIDE DEF overlap
<1>5. /\ post' \in [Doors -> Posts] /\ post'[d] = new
      /\ \A e \in Doors : e # d => post'[e] = post[e]
  BY <1>1, <1>2, <1>3
<1>6. mishaps' \subseteq Mishaps /\ mishaps \subseteq mishaps'
  BY <1>1, <1>2 DEF Mishaps
<1>7. ("overlap" \notin mishaps' => ~overlap) /\ (bare => "anonymous" \in mishaps')
  BY <1>2
<1>8. TokenInv'
  BY <1>3, <1>5, TokenFacts DEF WireInv, TokenInv, Sound
<1>9. OneInv'
  BY <1>4, <1>5, <1>7 DEF OneInv
<1>10. EndedInv'
  BY <1>3, <1>5, <1>6 DEF WireInv, EndedInv
<1>11. PostsInv'
  BY <1>3, <1>5, <1>6, <1>7 DEF WireInv, PostsInv
<1>12. LiveInv'
  <2> SUFFICES ASSUME Quiet' PROVE LiveInv'
    BY DEF LiveInv
  <2>1. Quiet /\ ~overlap
    BY <1>6, <1>7 DEF Quiet
  <2>2. cookie.refresh = NoToken \/ cookie.refresh.live
    BY <1>4, <2>1 DEF WireInv, LiveInv
  <2>3. \A e \in Doors : e # d => post'[e].st = "none"
    BY <1>4, <1>5, <2>1
  <2> QED
    BY <1>3, <1>5, <2>2, <2>3 DEF LiveInv
<1> QED
  BY <1>5, <1>6, <1>8, <1>9, <1>10, <1>11, <1>12 DEF WireInv

LEMMA SilentRefreshKeeps ==
    ASSUME TypeOK, WireInv, NEW t \in Tabs, SilentRefresh(t), UNCHANGED <<cookie, bye, ended>>
    PROVE  /\ WireInv' /\ post' \in [Doors -> Posts] /\ mishaps' \subseteq Mishaps
           /\ mishaps \subseteq mishaps'
<1>1. <<t, "auth">> \in Doors
  BY DEF Doors
<1>2. CASE Sends(<<t, "auth">>)
  BY <1>1, <1>2, SendsKeeps
<1>3. CASE UNCHANGED <<post, mishaps>>
  BY <1>3, WireSame, TypeParts
<1> QED
  BY <1>2, <1>3 DEF SilentRefresh

-----------------------------------------------------------------------------
(* Signing in and out, and time. *)

LEMMA SignInStep ==
    ASSUME SessionInv, NEW t \in Tabs, SignIn(t)
    PROVE  SessionInv'
<1>1. /\ tab[t].at = "login" /\ tab' = [tab EXCEPT ![t].at = "idp"]
      /\ cookie' = [cookie EXCEPT !.pkce = t]
      /\ UNCHANGED <<axios, post, bye, call, grants, lapses, faults, scope, mishaps, ended>>
  BY DEF SignIn, counts
<1>2. TypeOK /\ WireInv /\ PageInv
  BY DEF SessionInv
<1>3. tab \in [Tabs -> Pages] /\ cookie \in Cookies
  BY <1>2, TypeParts
<1>4. /\ cookie' \in Cookies /\ cookie'.access = cookie.access
      /\ cookie'.refresh = cookie.refresh
  BY <1>1, <1>3 DEF Cookies
<1>5. /\ tab' \in [Tabs -> Pages]
      /\ \A u \in Tabs : /\ tab'[u].boot = tab[u].boot /\ tab'[u].auth = tab[u].auth
                         /\ tab'[u].at = "app" => tab[u].at = "app"
  BY <1>1, <1>3 DEF Pages
<1>6. TypeOK'
  <2>1. Typed'
    BY <1>1, <1>2, <1>4, <1>5, TypeParts DEF Typed
  <2> QED
    BY <2>1, TypedNext
<1>7. WireInv'
  <2>1. TokenInv' /\ OneInv' /\ EndedInv' /\ PostsInv'
    BY <1>1, <1>2, <1>4 DEF WireInv, TokenInv, OneInv, EndedInv, PostsInv, Sound
  <2>2. LiveInv'
    BY <1>1, <1>2, <1>4 DEF WireInv, LiveInv, Quiet
  <2> QED
    BY <2>1, <2>2 DEF WireInv
<1>8. PageInv'
  BY <1>1, <1>2, <1>4, <1>5 DEF PageInv, MeInv, StuckNeedsAFault, CauseInv
<1> QED
  BY <1>6, <1>7, <1>8 DEF SessionInv

LEMMA CallbackStep ==
    ASSUME SessionInv, NEW t \in Tabs, Callback(t)
    PROVE  SessionInv'
<1>1. /\ tab[t].at = "idp"
      /\ UNCHANGED <<axios, post, bye, call, lapses, scope, faults, mishaps>>
  BY DEF Callback
<1>2. TypeOK /\ WireInv /\ PageInv
  BY DEF SessionInv
<1>3. /\ tab \in [Tabs -> Pages] /\ cookie \in Cookies /\ cookie.refresh \in Tokens
      /\ scope.grants \in Nat /\ grants \in 0..scope.grants
  BY <1>2, TypeParts DEF Cookies
<1>4. CASE tab' = [tab EXCEPT ![t].at = "login"] /\ UNCHANGED <<cookie, grants, ended>>
  <2>1. /\ tab' \in [Tabs -> Pages]
        /\ \A u \in Tabs : /\ tab'[u].boot = tab[u].boot /\ tab'[u].auth = tab[u].auth
                           /\ tab'[u].at = "app" => tab[u].at = "app"
    BY <1>3, <1>4 DEF Pages
  <2>2. TypeOK'
    <3>1. Typed'
      BY <1>1, <1>2, <1>4, <2>1, TypeParts DEF Typed
    <3> QED
      BY <3>1, TypedNext
  <2>3. WireInv'
    BY <1>1, <1>2, <1>4, WireSame
  <2>4. PageInv'
    BY <1>1, <1>2, <1>4, <2>1 DEF PageInv, MeInv, StuckNeedsAFault, CauseInv
  <2> QED
    BY <2>2, <2>3, <2>4 DEF SessionInv
<1>5. CASE /\ \/ /\ grants < scope.grants
                 /\ grants' = grants + 1
                 /\ cookie' = [access |-> "valid", pkce |-> Nobody,
                               refresh |-> Token(grants + 1)]
              \/ /\ cookie' = [cookie EXCEPT !.access = "valid", !.pkce = Nobody]
                 /\ UNCHANGED grants
           /\ tab' = [tab EXCEPT ![t] = Opened]
           /\ ended' = FALSE
  <2>1. /\ cookie' \in Cookies /\ cookie'.access = "valid" /\ grants' \in 0..scope.grants
        /\ Sound(cookie'.refresh)
        /\ cookie'.refresh = cookie.refresh \/ cookie'.refresh.live
    <3>1. CASE /\ grants < scope.grants
               /\ grants' = grants + 1
               /\ cookie' = [access |-> "valid", pkce |-> Nobody,
                             refresh |-> Token(grants + 1)]
      <4>1. grants + 1 \in Nat /\ grants + 1 # 0 /\ grants' \in 0..scope.grants
        BY <1>3, <3>1
      <4>2. /\ Token(grants + 1) \in Tokens /\ Token(grants + 1).live
            /\ Sound(Token(grants + 1))
        BY <4>1, TokenFacts
      <4> QED
        BY <3>1, <4>1, <4>2 DEF Cookies
    <3>2. CASE /\ cookie' = [cookie EXCEPT !.access = "valid", !.pkce = Nobody]
               /\ UNCHANGED grants
      BY <1>2, <1>3, <3>2 DEF Cookies, WireInv, TokenInv
    <3> QED
      BY <1>5, <3>1, <3>2
  <2>2. /\ tab' \in [Tabs -> Pages]
        /\ \A u \in Tabs : tab'[u] = IF u = t THEN Opened ELSE tab[u]
    BY <1>3, <1>5, RecordTypes
  <2>3. TypeOK'
    <3>1. Typed'
      BY <1>1, <1>2, <1>5, <2>1, <2>2, TypeParts DEF Typed
    <3> QED
      BY <3>1, TypedNext
  <2>4. TokenInv' /\ OneInv' /\ EndedInv' /\ PostsInv'
    BY <1>1, <1>2, <1>5, <2>1 DEF WireInv, TokenInv, OneInv, EndedInv, PostsInv, Sound
  <2>5. LiveInv'
    BY <1>1, <1>2, <2>1 DEF WireInv, LiveInv, Quiet
  <2>6. WireInv'
    BY <2>4, <2>5 DEF WireInv
  <2>7. PageInv'
    <3>1. MeInv'
      BY <1>1, <1>2 DEF PageInv, MeInv
    <3>2. StuckNeedsAFault'
      BY <1>1, <1>2, <2>2, PageShapes DEF PageInv, StuckNeedsAFault
    <3>3. CauseInv'
      BY <1>1, <1>2, <2>1, <2>2, PageShapes DEF PageInv, CauseInv
    <3> QED
      BY <3>1, <3>2, <3>3 DEF PageInv
  <2> QED
    BY <2>3, <2>6, <2>7 DEF SessionInv
<1> QED
  BY <1>4, <1>5 DEF Callback

LEMMA OpenStep ==
    ASSUME SessionInv, NEW t \in Tabs, Open(t)
    PROVE  SessionInv'
<1>1. PICK page \in {Away, Opened} : Replaces(t, page, {})
  BY DEF Open
<1>2. UNCHANGED <<grants, lapses, faults, scope, ended>>
  BY DEF Open, counts
<1>3. faults' \in 0..scope.faults
  BY <1>2, TypeParts DEF SessionInv
<1> QED
  BY <1>1, <1>2, <1>3, ReplacesKeeps

\* The cookies' time runs out.
LEMMA TimeStep ==
    ASSUME SessionInv, AccessExpires \/ CookieExpires
    PROVE  SessionInv'
<1>1. UNCHANGED <<grants, tab, axios, post, bye, call, faults, scope, ended>>
  BY DEF AccessExpires, CookieExpires, counts
<1>2. TypeOK /\ WireInv /\ PageInv
  BY DEF SessionInv
<1>3. /\ cookie \in Cookies /\ mishaps \subseteq Mishaps /\ scope.lapses \in Nat
      /\ lapses \in 0..scope.lapses
  BY <1>2, TypeParts
<1>4. /\ cookie' \in Cookies /\ cookie'.refresh = cookie.refresh
      /\ cookie'.access \in {"expired", "none"} /\ cookie.access # "none"
      /\ lapses' \in 0..scope.lapses /\ mishaps \subseteq mishaps' /\ mishaps' \subseteq Mishaps
      /\ cookie'.access = "none" => mishaps' # {}
      /\ cookie'.access = "expired" /\ cookie'.refresh = NoToken => mishaps' # {}
      /\ Quiet' => Quiet
      /\ "overlap" \notin mishaps' => "overlap" \notin mishaps
  <2>1. CASE AccessExpires
    <3>1. /\ cookie' = [cookie EXCEPT !.access = "expired"] /\ cookie.access = "valid"
          /\ lapses < scope.lapses /\ lapses' = lapses + 1
          /\ mishaps' = mishaps \cup (IF cookie.refresh = NoToken THEN {"anonymous"} ELSE {})
      BY <2>1 DEF AccessExpires
    <3>2. /\ cookie' \in Cookies /\ cookie'.refresh = cookie.refresh
          /\ cookie'.access = "expired" /\ lapses' \in 0..scope.lapses
      BY <1>3, <3>1 DEF Cookies
    <3> QED
      BY <1>3, <3>1, <3>2 DEF Mishaps, Quiet
  <2>2. CASE CookieExpires
    <3>1. /\ cookie' = [cookie EXCEPT !.access = "none"] /\ cookie.access = "expired"
          /\ lapses' = lapses /\ mishaps' = mishaps \cup {"lapse"}
      BY <2>2 DEF CookieExpires, counts
    <3>2. /\ cookie' \in Cookies /\ cookie'.refresh = cookie.refresh
          /\ cookie'.access = "none"
      BY <1>3, <3>1 DEF Cookies
    <3> QED
      BY <1>3, <3>1, <3>2 DEF Mishaps, Quiet
  <2> QED
    BY <2>1, <2>2
<1>5. TypeOK'
  <2>1. Typed'
    BY <1>1, <1>2, <1>4, TypeParts DEF Typed
  <2> QED
    BY <2>1, TypedNext
<1>6. WireInv'
  <2>1. TokenInv' /\ OneInv' /\ PostsInv'
    BY <1>1, <1>2, <1>4 DEF WireInv, TokenInv, OneInv, PostsInv, Sound
  <2>2. EndedInv'
    BY <1>1, <1>2, <1>4 DEF WireInv, EndedInv
  <2>3. LiveInv'
    BY <1>1, <1>2, <1>4 DEF WireInv, LiveInv
  <2> QED
    BY <2>1, <2>2, <2>3 DEF WireInv
<1>7. PageInv'
  <2>1. MeInv' /\ StuckNeedsAFault'
    BY <1>1, <1>2, <1>4 DEF PageInv, MeInv, StuckNeedsAFault
  <2>2. CauseInv'
    BY <1>1, <1>2, <1>4 DEF PageInv, CauseInv
  <2> QED
    BY <2>1, <2>2 DEF PageInv
<1> QED
  BY <1>5, <1>6, <1>7 DEF SessionInv
-----------------------------------------------------------------------------
(* The bootstrap and the timer. *)

\* A step that leaves the cookies alone.
LEMMA RequestStep ==
    ASSUME SessionInv, UNCHANGED <<cookie, grants, lapses, scope, ended>>,
           faults' \in 0..scope.faults, axios' \in [Tabs -> {"idle", "refresh", "retry"}],
           WireInv', bye' \in [Tabs -> Byes], post' \in [Doors -> Posts],
           mishaps' \subseteq Mishaps, mishaps \subseteq mishaps',
           tab' \in [Tabs -> Pages], call' \in [Requests -> CallSet],
           \A t \in Tabs :
             /\ call'[t].st = "error" => call[t].st = "error" \/ "backend" \in mishaps'
             /\ call'[t].st = "denied" =>
                  call[t].st = "denied" \/ mishaps' \cap {"revoked", "anonymous"} # {}
             /\ tab'[t].boot = "stuck" =>
                  \/ tab[t].boot = "stuck"
                  \/ mishaps' \cap {"network", "anonymous", "backend", "revoked"} # {}
             /\ tab'[t].auth => tab'[t].boot = "done"
             /\ bye'[t].on => bye[t].on \/ mishaps' # {}
             /\ tab'[t].at = "app" /\ tab'[t].boot # "session" =>
                  \/ cookie.access # "none"
                  \/ tab[t].at = "app" /\ tab[t].boot # "session"
    PROVE  SessionInv'
<1>1. TypeOK /\ PageInv
  BY DEF SessionInv
<1>2. TypeOK'
  <2>1. Typed'
    BY <1>1, TypeParts DEF Typed
  <2> QED
    BY <2>1, TypedNext
<1>3. PageInv'
  <2>1. \A t \in Tabs :
          tab'[t].at = "app" /\ tab'[t].boot # "session" /\ cookie'.access = "none" =>
            mishaps' # {}
    BY <1>1 DEF PageInv, CauseInv
  <2>2. cookie'.access = "expired" /\ cookie'.refresh = NoToken => mishaps' # {}
    BY <1>1 DEF PageInv, CauseInv
  <2> QED
    BY <1>1, <2>1, <2>2, PageFrame
<1> QED
  BY <1>2, <1>3 DEF SessionInv

\* Nothing but pages and GET /me changes, or a refresh leaves beside it.
LEMMA PageStep ==
    ASSUME SessionInv, UNCHANGED <<cookie, grants, lapses, faults, scope, ended, axios>>,
           WireInv', bye' \in [Tabs -> Byes], post' \in [Doors -> Posts],
           mishaps' \subseteq Mishaps, mishaps \subseteq mishaps',
           tab' \in [Tabs -> Pages], call' \in [Requests -> CallSet],
           \A t \in Tabs :
             /\ call'[t].st \in {"error", "denied"} => call'[t].st = call[t].st
             /\ tab'[t].boot = "stuck" =>
                  \/ tab[t].boot = "stuck"
                  \/ mishaps' \cap {"network", "anonymous", "backend", "revoked"} # {}
             /\ tab'[t].auth => tab'[t].boot = "done"
             /\ bye'[t].on => bye[t].on \/ mishaps' # {}
             /\ tab'[t].at = "app" /\ tab'[t].boot # "session" =>
                  \/ cookie.access # "none"
                  \/ tab[t].at = "app" /\ tab[t].boot # "session"
    PROVE  SessionInv'
<1>1. faults' \in 0..scope.faults /\ axios' \in [Tabs -> {"idle", "refresh", "retry"}]
  BY TypeParts DEF SessionInv
<1> QED
  BY <1>1, RequestStep

LEMMA BootSessionStep ==
    ASSUME SessionInv, NEW t \in Tabs, BootSession(t)
    PROVE  SessionInv'
<1>1. tab[t].boot = "session" /\ UNCHANGED <<grants, lapses, faults, scope, ended>>
  BY DEF BootSession, counts
<1>2. TypeOK /\ WireInv /\ PageInv
  BY DEF SessionInv
<1>3. /\ tab \in [Tabs -> Pages] /\ call \in [Requests -> CallSet] /\ t \in Requests
      /\ mishaps \subseteq Mishaps /\ faults \in 0..scope.faults
      /\ post \in [Doors -> Posts] /\ bye \in [Tabs -> Byes]
  BY <1>2, TypeParts DEF Requests
<1>4. \A u \in Tabs : tab[u].auth => tab[u].boot = "done"
  BY <1>2 DEF PageInv, CauseInv
<1>5. CASE cookie.access = "none" /\ Replaces(t, Away, {})
  BY <1>1, <1>3, <1>5, ReplacesKeeps
<1>6. CASE /\ cookie.access = "expired"
           /\ tab' = [tab EXCEPT ![t].boot = "renew"]
           /\ SilentRefresh(t)
           /\ UNCHANGED <<cookie, axios, bye, call>>
  <2>1. /\ WireInv' /\ post' \in [Doors -> Posts] /\ mishaps' \subseteq Mishaps
        /\ mishaps \subseteq mishaps'
    BY <1>1, <1>2, <1>6, SilentRefreshKeeps
  <2>2. /\ tab' \in [Tabs -> Pages] /\ tab'[t].boot = "renew" /\ tab'[t].auth = tab[t].auth
        /\ \A u \in Tabs : u # t => tab'[u] = tab[u]
    BY <1>3, <1>6 DEF Pages
  <2>3. \A u \in Tabs : /\ tab'[u].boot = "stuck" => tab[u].boot = "stuck"
                        /\ tab'[u].auth => tab'[u].boot = "done"
    BY <1>1, <1>4, <2>2
  <2> QED
    BY <1>1, <1>3, <1>6, <2>1, <2>2, <2>3, PageStep
<1>7. CASE /\ cookie.access = "valid"
           /\ tab' = [tab EXCEPT ![t].boot = "me", ![t].timer = TRUE]
           /\ call' = [call EXCEPT ![t] = Doing("sent", "valid")]
           /\ UNCHANGED <<cookie, axios, post, bye, mishaps>>
  <2>1. WireInv'
    BY <1>1, <1>2, <1>7, WireSame
  <2>2. /\ tab' \in [Tabs -> Pages] /\ tab'[t].boot = "me" /\ tab'[t].auth = tab[t].auth
        /\ \A u \in Tabs : u # t => tab'[u] = tab[u]
    BY <1>3, <1>7 DEF Pages
  <2>3. \A u \in Tabs : /\ tab'[u].boot = "stuck" => tab[u].boot = "stuck"
                        /\ tab'[u].auth => tab'[u].boot = "done"
    BY <1>1, <1>4, <2>2
  <2>4. Doing("sent", "valid") \in CallSet /\ Doing("sent", "valid").st = "sent"
    BY DEF Doing, CallSet, CallStates
  <2>5. /\ call' \in [Requests -> CallSet]
        /\ \A u \in Tabs : call'[u].st \in {"error", "denied"} => call'[u].st = call[u].st
    BY <1>3, <1>7, <2>4 DEF Requests
  <2> QED
    BY <1>1, <1>3, <1>7, <2>1, <2>2, <2>3, <2>5, PageStep
<1> QED
  BY <1>5, <1>6, <1>7 DEF BootSession

LEMMA BootMeStep ==
    ASSUME SessionInv, NEW t \in Tabs, BootMe(t)
    PROVE  SessionInv'
<1>1. /\ call' = [call EXCEPT ![t] = NoCall]
      /\ UNCHANGED <<cookie, axios, bye, grants, lapses, faults, scope, ended>>
      /\ tab[t].boot \in {"me", "meAgain"}
  BY DEF BootMe, counts
<1>2. TypeOK /\ WireInv /\ PageInv
  BY DEF SessionInv
<1>3. /\ tab \in [Tabs -> Pages] /\ call \in [Requests -> CallSet] /\ t \in Requests
      /\ mishaps \subseteq Mishaps /\ post \in [Doors -> Posts] /\ bye \in [Tabs -> Byes]
  BY <1>2, TypeParts DEF Requests
<1>4. \A u \in Tabs : tab[u].auth => tab[u].boot = "done"
  BY <1>2 DEF PageInv, CauseInv
<1>5. /\ call' \in [Requests -> CallSet]
      /\ \A u \in Tabs : call'[u].st \in {"error", "denied"} => call'[u].st = call[u].st
  <2>1. NoCall \in CallSet /\ NoCall.st = "idle"
    BY RecordTypes DEF NoCall
  <2> QED
    BY <1>1, <1>3, <2>1 DEF Requests
<1>6. CASE /\ tab' = [tab EXCEPT ![t].boot = "done", ![t].auth = TRUE]
           /\ UNCHANGED <<post, mishaps>>
  <2>1. WireInv'
    BY <1>1, <1>2, <1>6, WireSame
  <2>2. /\ tab' \in [Tabs -> Pages] /\ tab'[t].boot = "done" /\ tab'[t].at = tab[t].at
        /\ \A u \in Tabs : u # t => tab'[u] = tab[u]
    BY <1>3, <1>6 DEF Pages
  <2>3. \A u \in Tabs : /\ tab'[u].boot = "stuck" => tab[u].boot = "stuck"
                        /\ tab'[u].auth => tab'[u].boot = "done"
                        /\ tab'[u].at = "app" /\ tab'[u].boot # "session" =>
                             tab[u].at = "app" /\ tab[u].boot # "session"
    BY <1>1, <1>4, <2>2
  <2> QED
    BY <1>1, <1>3, <1>5, <1>6, <2>1, <2>2, <2>3, PageStep
<1>7. CASE /\ \/ tab[t].boot \in {"me", "meAgain"} /\ call[t].st = "error"
              \/ tab[t].boot = "meAgain" /\ call[t].st = "denied"
           /\ tab' = [tab EXCEPT ![t].boot = "stuck"]
           /\ UNCHANGED <<post, mishaps>>
  <2>1. WireInv'
    BY <1>1, <1>2, <1>7, WireSame
  <2>2. /\ tab' \in [Tabs -> Pages] /\ tab'[t].at = tab[t].at /\ tab'[t].auth = tab[t].auth
        /\ \A u \in Tabs : u # t => tab'[u] = tab[u]
    BY <1>3, <1>7 DEF Pages
  <2>3. mishaps' \cap {"network", "anonymous", "backend", "revoked"} # {}
    <3>1. call[t].st = "error" => "backend" \in mishaps
      BY <1>2 DEF PageInv, MeInv
    <3>2. call[t].st = "denied" => mishaps \cap {"revoked", "anonymous"} # {}
      BY <1>2 DEF PageInv, MeInv
    <3> QED
      BY <1>7, <3>1, <3>2
  <2>4. \A u \in Tabs : /\ tab'[u].auth => tab'[u].boot = "done"
                        /\ tab'[u].at = "app" /\ tab'[u].boot # "session" =>
                             tab[u].at = "app" /\ tab[u].boot # "session"
    BY <1>1, <1>4, <2>2
  <2> QED
    BY <1>1, <1>3, <1>5, <1>7, <2>1, <2>2, <2>3, <2>4, PageStep
<1>8. CASE /\ tab' = [tab EXCEPT ![t].boot = "again"]
           /\ SilentRefresh(t)
  <2>1. /\ WireInv' /\ post' \in [Doors -> Posts] /\ mishaps' \subseteq Mishaps
        /\ mishaps \subseteq mishaps'
    BY <1>1, <1>2, <1>8, SilentRefreshKeeps
  <2>2. /\ tab' \in [Tabs -> Pages] /\ tab'[t].boot = "again" /\ tab'[t].auth = tab[t].auth
        /\ tab'[t].at = tab[t].at
        /\ \A u \in Tabs : u # t => tab'[u] = tab[u]
    BY <1>3, <1>8 DEF Pages
  <2>3. \A u \in Tabs : /\ tab'[u].boot = "stuck" => tab[u].boot = "stuck"
                        /\ tab'[u].auth => tab'[u].boot = "done"
                        /\ tab'[u].at = "app" /\ tab'[u].boot # "session" =>
                             tab[u].at = "app" /\ tab[u].boot # "session"
    BY <1>1, <1>4, <2>2
  <2> QED
    BY <1>1, <1>3, <1>5, <2>1, <2>2, <2>3, PageStep
<1> QED
  BY <1>6, <1>7, <1>8 DEF BootMe

LEMMA TimerStep ==
    ASSUME SessionInv, NEW t \in Tabs, TimerFires(t)
    PROVE  SessionInv'
<1>1. /\ tab' = [tab EXCEPT ![t].timer = FALSE] /\ SilentRefresh(t)
      /\ UNCHANGED <<cookie, axios, bye, call, grants, lapses, faults, scope, ended>>
  BY DEF TimerFires, counts
<1>2. TypeOK /\ WireInv /\ PageInv
  BY DEF SessionInv
<1>3. /\ tab \in [Tabs -> Pages] /\ call \in [Requests -> CallSet] /\ bye \in [Tabs -> Byes]
  BY <1>2, TypeParts
<1>4. /\ WireInv' /\ post' \in [Doors -> Posts] /\ mishaps' \subseteq Mishaps
      /\ mishaps \subseteq mishaps'
  BY <1>1, <1>2, SilentRefreshKeeps
<1>5. /\ tab' \in [Tabs -> Pages]
      /\ \A u \in Tabs : /\ tab'[u].boot = tab[u].boot /\ tab'[u].auth = tab[u].auth
                         /\ tab'[u].at = tab[u].at
  BY <1>1, <1>3 DEF Pages
<1>6. \A u \in Tabs : tab[u].auth => tab[u].boot = "done"
  BY <1>2 DEF PageInv, CauseInv
<1> QED
  BY <1>1, <1>3, <1>4, <1>5, <1>6, PageStep
-----------------------------------------------------------------------------
(* Signing out. *)

LEMMA LogsOutFacts ==
    ASSUME TypeOK, NEW t \in Tabs, LogsOut(t)
    PROVE  /\ bye' \in [Tabs -> Byes] /\ bye'[t].on /\ bye'[t].token = cookie.refresh
           /\ \A u \in Tabs : u # t => bye'[u] = bye[u]
           /\ tab' \in [Tabs -> Pages]
           /\ \A u \in Tabs : /\ tab'[u].boot = tab[u].boot /\ tab'[u].auth = tab[u].auth
                              /\ tab'[u].at = tab[u].at
<1>1. tab \in [Tabs -> Pages] /\ bye \in [Tabs -> Byes] /\ cookie.refresh \in Tokens
  BY TypeParts DEF Cookies
<1> DEFINE new == [on |-> TRUE, token |-> cookie.refresh]
<1>2. new \in Byes /\ new.on /\ new.token = cookie.refresh
  BY <1>1 DEF Byes
<1>3. bye' = [bye EXCEPT ![t] = new] /\ tab' = [tab EXCEPT ![t].timer = FALSE]
  BY DEF LogsOut
<1> HIDE DEF new
<1>4. /\ bye' \in [Tabs -> Byes] /\ bye'[t].on /\ bye'[t].token = cookie.refresh
      /\ \A u \in Tabs : u # t => bye'[u] = bye[u]
  BY <1>1, <1>2, <1>3
<1>5. /\ tab' \in [Tabs -> Pages]
      /\ \A u \in Tabs : /\ tab'[u].boot = tab[u].boot /\ tab'[u].auth = tab[u].auth
                         /\ tab'[u].at = tab[u].at
  BY <1>1, <1>3 DEF Pages
<1> QED
  BY <1>4, <1>5

LEMMA LogoutStep ==
    ASSUME SessionInv, NEW t \in Tabs, Logout(t)
    PROVE  SessionInv'
<1> DEFINE quiet == Sent = {}
<1>1. /\ LogsOut(t)
      /\ mishaps' = mishaps \cup {"logout"} \cup (IF quiet THEN {} ELSE {"overlap"})
      /\ UNCHANGED <<cookie, axios, post, call, grants, lapses, faults, scope, ended>>
  BY DEF Logout, counts
<1>2. TypeOK /\ WireInv /\ PageInv
  BY DEF SessionInv
<1>3. /\ bye' \in [Tabs -> Byes] /\ bye'[t].on /\ bye'[t].token = cookie.refresh
      /\ \A u \in Tabs : u # t => bye'[u] = bye[u]
      /\ tab' \in [Tabs -> Pages]
      /\ \A u \in Tabs : /\ tab'[u].boot = tab[u].boot /\ tab'[u].auth = tab[u].auth
                         /\ tab'[u].at = tab[u].at
  BY <1>1, <1>2, LogsOutFacts
<1>4. quiet => \A d \in Doors : post[d].st = "none"
  BY DEF Sent
<1> HIDE DEF quiet
<1>5. /\ mishaps \subseteq mishaps' /\ mishaps' \subseteq Mishaps /\ mishaps' # {}
      /\ "overlap" \notin mishaps' => quiet
  BY <1>1, <1>2, TypeParts DEF Mishaps
<1>6. WireInv'
  <2>1. TokenInv'
    BY <1>1, <1>2, <1>3 DEF WireInv, TokenInv, Sound
  <2>2. OneInv'
    BY <1>1, <1>4, <1>5 DEF OneInv
  <2>3. EndedInv' /\ PostsInv'
    BY <1>1, <1>2, <1>5 DEF WireInv, EndedInv, PostsInv
  <2>4. LiveInv'
    BY <1>1, <1>2, <1>5 DEF WireInv, LiveInv, Quiet
  <2> QED
    BY <2>1, <2>2, <2>3, <2>4 DEF WireInv
<1>7. \A u \in Tabs : tab[u].auth => tab[u].boot = "done"
  BY <1>2 DEF PageInv, CauseInv
<1>8. post \in [Doors -> Posts] /\ call \in [Requests -> CallSet]
  BY <1>2, TypeParts
<1> QED
  BY <1>1, <1>3, <1>5, <1>6, <1>7, <1>8, PageStep

LEMMA SpendFacts ==
    ASSUME TypeOK, Spend, UNCHANGED scope
    PROVE  faults' \in 0..scope.faults
BY TypeParts DEF Spend

LEMMA LogoutAnsweredStep ==
    ASSUME SessionInv, NEW t \in Tabs, LogoutAnswered(t)
    PROVE  SessionInv'
<1> DEFINE g == bye[t].token.grant
<1>1. bye[t].on /\ UNCHANGED <<grants, lapses, scope>>
  BY DEF LogoutAnswered
<1>2. TypeOK /\ WireInv /\ PageInv
  BY DEF SessionInv
<1>3. CASE Spend /\ Replaces(t, Away, {"network"}) /\ UNCHANGED ended
  <2>1. faults' \in 0..scope.faults
    BY <1>1, <1>2, <1>3, SpendFacts
  <2> QED
    BY <1>1, <1>3, <2>1, ReplacesKeeps DEF Mishaps
<1>4. CASE /\ Forgets(t, Away)
           /\ cookie' = Cleared
           /\ post' = AgedPosts(PostsWithout(t), g)
           /\ bye' = [AgedByes(g) EXCEPT ![t] = NoBye]
           /\ ended' = TRUE
           /\ NoFault
  <2>1. /\ post \in [Doors -> Posts] /\ bye \in [Tabs -> Byes] /\ mishaps \subseteq Mishaps
        /\ faults \in 0..scope.faults
        /\ \A d \in Doors : post[d].token \in Tokens /\ post[d].fresh \in Tokens
        /\ \A u \in Tabs : bye[u].token \in Tokens
    BY <1>2, TypeParts DEF Posts, Byes
  <2>2. UNCHANGED <<faults, mishaps>>
    BY <1>4 DEF NoFault
  <2>3. /\ tab' \in [Tabs -> Pages] /\ axios' \in [Tabs -> {"idle", "refresh", "retry"}]
        /\ call' \in [Requests -> CallSet]
        /\ \A c \in Requests : call'[c] = NoCall \/ call'[c] = call[c]
        /\ \A u \in Tabs : tab'[u] = IF u = t THEN Away ELSE tab[u]
    BY <1>2, <1>4, RecordTypes, ForgetsFacts
  <2>4. /\ PostsWithout(t) \in [Doors -> Posts]
        /\ \A d \in Doors : PostsWithout(t)[d] = IF d[1] = t THEN NoPost ELSE post[d]
    BY <2>1, WithoutFacts
  <2> HIDE DEF g
  <2>5. /\ post' \in [Doors -> Posts]
        /\ \A d \in Doors : /\ post'[d].st = PostsWithout(t)[d].st
                            /\ post'[d].token = Aged(PostsWithout(t)[d].token, g)
                            /\ post'[d].fresh = Aged(PostsWithout(t)[d].fresh, g)
    BY <1>4, <2>4, AgedPostsFacts
  <2>6. /\ AgedByes(g) \in [Tabs -> Byes]
        /\ \A u \in Tabs : /\ AgedByes(g)[u].on = bye[u].on
                           /\ AgedByes(g)[u].token = Aged(bye[u].token, g)
    BY <2>1, AgedByesFacts
  <2>7. NoBye \in Byes /\ ~NoBye.on /\ NoBye.token = NoToken /\ NoPost.st = "none"
        /\ NoPost.token = NoToken /\ NoPost.fresh = NoToken
    BY RecordTypes DEF NoBye, NoPost
  <2>8. /\ bye' \in [Tabs -> Byes] /\ bye'[t] = NoBye
        /\ \A u \in Tabs : u # t => bye'[u] = AgedByes(g)[u]
    BY <1>4, <2>6, <2>7
  <2>9. cookie' \in Cookies /\ cookie'.access = "none" /\ cookie'.refresh = NoToken
    BY <1>4, RecordTypes DEF Cleared, SignedOut
  <2>10. TypeOK'
    <3>1. Typed'
      BY <1>1, <1>2, <1>4, <2>1, <2>2, <2>3, <2>5, <2>8, <2>9, TypeParts DEF Typed
    <3> QED
      BY <3>1, TypedNext
  <2>11. \A d \in Doors : /\ PostsWithout(t)[d].token \in Tokens
                          /\ PostsWithout(t)[d].fresh \in Tokens
                          /\ Sound(PostsWithout(t)[d].token) /\ Sound(PostsWithout(t)[d].fresh)
    BY <1>2, <2>1, <2>4, <2>7, TokenFacts DEF WireInv, TokenInv
  <2>12. \A d \in Doors : post'[d].st # "none" =>
           /\ post'[d].st = post[d].st
           /\ post'[d].token = NoToken => post[d].token = NoToken
    <3> SUFFICES ASSUME NEW d \in Doors, post'[d].st # "none"
                 PROVE  /\ post'[d].st = post[d].st
                        /\ post'[d].token = NoToken => post[d].token = NoToken
      OBVIOUS
    <3>1. PostsWithout(t)[d] = post[d]
      BY <2>4, <2>5, <2>7
    <3> QED
      BY <2>5, <2>11, <3>1, AgedFacts
  \* without an overlap no refresh was under way beside the sign-out
  <2>13. "overlap" \notin mishaps => \A d \in Doors : post'[d].st = "none"
    BY <1>1, <1>2, <2>12 DEF WireInv, OneInv
  <2>14. WireInv'
    <3>1. TokenInv'
      <4>1. \A d \in Doors : Sound(post'[d].token) /\ Sound(post'[d].fresh)
        BY <2>5, <2>11, AgedFacts
      <4>2. ASSUME NEW u \in Tabs
            PROVE  Sound(bye'[u].token) /\ (~bye'[u].on => ~bye'[u].token.live)
        <5>1. CASE u = t
          BY <2>7, <2>8, <5>1, TokenFacts
        <5>2. CASE u # t
          <6>1. Sound(bye[u].token) /\ (~bye[u].on => ~bye[u].token.live)
            BY <1>2 DEF WireInv, TokenInv
          <6> QED
            BY <2>1, <2>6, <2>8, <5>2, <6>1, AgedFacts
        <5> QED
          BY <5>1, <5>2
      <4>3. Sound(cookie'.refresh)
        BY <2>9, TokenFacts
      <4> QED
        BY <4>1, <4>2, <4>3 DEF TokenInv, Sound
    <3>2. OneInv' /\ EndedInv'
      BY <2>2, <2>9, <2>13 DEF OneInv, EndedInv
    <3>3. PostsInv'
      BY <1>2, <2>2, <2>12 DEF WireInv, PostsInv
    <3>4. LiveInv'
      BY <2>2, <2>9, <2>13 DEF LiveInv, Quiet
    <3> QED
      BY <3>1, <3>2, <3>3, <3>4 DEF WireInv
  <2>15. PageInv'
    <3>1. mishaps # {}
      BY <1>1, <1>2 DEF PageInv, CauseInv
    <3>2. \A u \in Tabs : u \in Requests
      BY DEF Requests
    <3>3. NoCall.st = "idle"
      BY DEF NoCall
    <3>4. MeInv'
      BY <1>2, <2>2, <2>3, <3>2, <3>3 DEF PageInv, MeInv
    <3>5. StuckNeedsAFault'
      BY <1>2, <2>2, <2>3, PageShapes DEF PageInv, StuckNeedsAFault
    <3>6. CauseInv'
      BY <1>2, <2>2, <2>3, <2>9, <3>1, PageShapes DEF PageInv, CauseInv
    <3> QED
      BY <3>4, <3>5, <3>6 DEF PageInv
  <2> QED
    BY <2>10, <2>14, <2>15 DEF SessionInv
<1> QED
  BY <1>3, <1>4 DEF LogoutAnswered
-----------------------------------------------------------------------------
(* The server answers a refresh, or the connection fails. *)

LEMMA FaultFacts ==
    ASSUME TypeOK, NEW kind \in Mishaps, Fault(kind), UNCHANGED scope
    PROVE  /\ faults' \in 0..scope.faults /\ mishaps' \subseteq Mishaps
           /\ mishaps \subseteq mishaps' /\ kind \in mishaps'
           /\ mishaps' = mishaps \cup {kind}
BY SpendFacts, TypeParts DEF Fault

\* The refresh through door d ends with no token in hand.
LEMMA EndsWithout ==
    ASSUME SessionInv, NEW d \in Doors, NEW st \in {"missing", "refused", "broken"},
           post' = [post EXCEPT ![d].st = st],
           mishaps \subseteq mishaps', mishaps' \subseteq Mishaps, faults' \in 0..scope.faults,
           UNCHANGED <<cookie, grants, tab, axios, bye, call, lapses, scope, ended>>,
           post[d].st # "none",
           "overlap" \in mishaps' => "overlap" \in mishaps,
           st = "missing" => "anonymous" \in mishaps',
           st = "broken" => "network" \in mishaps',
           st = "refused" => ~Quiet',
           st = "refused" => ~(post[d].st = "sent" /\ post[d].token = NoToken)
                             /\ post[d].st = "sent",
           Quiet' => post[d].st # "ok"
    PROVE  SessionInv'
<1>1. TypeOK /\ WireInv /\ PageInv
  BY DEF SessionInv
<1>2. post \in [Doors -> Posts] /\ bye \in [Tabs -> Byes] /\ tab \in [Tabs -> Pages]
      /\ call \in [Requests -> CallSet] /\ axios \in [Tabs -> {"idle", "refresh", "retry"}]
  BY <1>1, TypeParts
<1>3. /\ post' \in [Doors -> Posts] /\ post'[d].st = st
      /\ post'[d].token = post[d].token /\ post'[d].fresh = post[d].fresh
      /\ \A e \in Doors : e # d => post'[e] = post[e]
  BY <1>2 DEF Posts
<1>4. TokenInv'
  BY <1>1, <1>3 DEF WireInv, TokenInv, Sound
<1>5. OneInv'
  BY <1>1, <1>3 DEF WireInv, OneInv
<1>6. EndedInv'
  BY <1>1, <1>3 DEF WireInv, EndedInv
<1>7. PostsInv'
  BY <1>1, <1>3 DEF WireInv, PostsInv
<1>8. LiveInv'
  <2> SUFFICES ASSUME Quiet' PROVE LiveInv'
    BY DEF LiveInv
  <2>1. Quiet
    BY DEF Quiet
  <2>2. \A e \in Doors : post[e].st = "ok" => post'[e].st = "ok"
    BY <1>3
  <2> QED
    BY <1>1, <1>3, <2>1, <2>2 DEF WireInv, LiveInv
<1>9. WireInv'
  BY <1>4, <1>5, <1>6, <1>7, <1>8 DEF WireInv
<1>10. \A t \in Tabs : tab[t].auth => tab[t].boot = "done"
  BY <1>1 DEF PageInv, CauseInv
<1> QED
  BY <1>2, <1>3, <1>9, <1>10, RequestStep

\* next is what is under way once the answer to door d holds token, and the copies
\* of grant g are stale.
BroughtHome(next, d, token, g) ==
    /\ next \in [Doors -> Posts] /\ next[d].st = "ok" /\ next[d].fresh = token
    /\ \A e \in Doors : next[e].token = Aged(post[e].token, g)
    /\ \A e \in Doors : e # d => /\ next[e].st = post[e].st
                                 /\ next[e].fresh = Aged(post[e].fresh, g)

LEMMA BroughtHomeFacts ==
    ASSUME post \in [Doors -> Posts], NEW d \in Doors, NEW token \in Tokens, NEW g, NEW next,
           next = [AgedPosts(post, g) EXCEPT ![d].st = "ok", ![d].fresh = token]
    PROVE  BroughtHome(next, d, token, g)
<1> DEFINE aged == AgedPosts(post, g)
           p    == [aged[d] EXCEPT !.st = "ok", !.fresh = token]
<1>1. /\ aged \in [Doors -> Posts]
      /\ \A e \in Doors : /\ aged[e].st = post[e].st
                          /\ aged[e].token = Aged(post[e].token, g)
                          /\ aged[e].fresh = Aged(post[e].fresh, g)
  BY AgedPostsFacts
<1>2. next = [aged EXCEPT ![d] = p]
  OBVIOUS
<1> HIDE DEF aged
<1>3. p \in Posts /\ p.st = "ok" /\ p.fresh = token /\ p.token = aged[d].token
  BY <1>1 DEF Posts
<1> HIDE DEF p
<1>4. next \in [Doors -> Posts] /\ next[d] = p /\ \A e \in Doors : e # d => next[e] = aged[e]
  BY <1>1, <1>2, <1>3
<1>5. \A e \in Doors : next[e].token = Aged(post[e].token, g)
  BY <1>1, <1>3, <1>4
<1> QED
  BY <1>1, <1>3, <1>4, <1>5 DEF BroughtHome

\* The refresh through door d brings token home and outdates all copies of its grant.
LEMMA BringsHome ==
    ASSUME SessionInv, NEW d \in Doors, NEW token \in Tokens, NEW g,
           post[d].st = "sent", post[d].token.live, g = post[d].token.grant,
           Sound(token), BroughtHome(post', d, token, g),
           cookie' = AgedCookie(g), bye' = AgedByes(g),
           mishaps \subseteq mishaps', mishaps' \subseteq Mishaps, faults' \in 0..scope.faults,
           UNCHANGED <<grants, tab, axios, call, lapses, scope, ended>>,
           Quiet' => token.live,
           "overlap" \in mishaps' => "overlap" \in mishaps
    PROVE  SessionInv'
<1>1. TypeOK /\ WireInv /\ PageInv
  BY DEF SessionInv
<1>2. /\ post \in [Doors -> Posts] /\ bye \in [Tabs -> Byes] /\ cookie \in Cookies
      /\ cookie.refresh \in Tokens
      /\ \A e \in Doors : post[e].token \in Tokens /\ post[e].fresh \in Tokens
      /\ \A t \in Tabs : bye[t].token \in Tokens
  BY <1>1, TypeParts DEF Posts, Byes, Cookies
<1>3. post' \in [Doors -> Posts] /\ post'[d].st = "ok" /\ post'[d].fresh = token
  BY DEF BroughtHome
<1>4. /\ \A e \in Doors : post'[e].token = Aged(post[e].token, g)
      /\ \A e \in Doors : e # d => /\ post'[e].st = post[e].st
                                   /\ post'[e].fresh = Aged(post[e].fresh, g)
  BY DEF BroughtHome
<1>5. /\ bye' \in [Tabs -> Byes]
      /\ \A t \in Tabs : bye'[t].on = bye[t].on /\ bye'[t].token = Aged(bye[t].token, g)
  BY <1>2, AgedByesFacts
<1>6. /\ cookie' \in Cookies /\ cookie'.access = cookie.access
      /\ cookie'.refresh = Aged(cookie.refresh, g)
  BY <1>2, AgedCookieFacts
<1>7. TypeOK'
  <2>1. Typed'
    BY <1>1, <1>3, <1>5, <1>6, TypeParts DEF Typed
  <2> QED
    BY <2>1, TypedNext
<1>8. WireInv'
  <2>1. TokenInv'
    <3>1. Sound(cookie'.refresh)
      <4>1. Sound(cookie.refresh)
        BY <1>1 DEF WireInv, TokenInv
      <4>2. Sound(Aged(cookie.refresh, g))
        BY <1>2, <4>1, AgedFacts
      <4> QED
        BY <1>6, <4>2
    <3>2. ASSUME NEW e \in Doors PROVE Sound(post'[e].token) /\ Sound(post'[e].fresh)
      <4>1. Sound(post[e].token) /\ Sound(post[e].fresh)
        BY <1>1 DEF WireInv, TokenInv
      <4>2. Sound(Aged(post[e].token, g)) /\ Sound(Aged(post[e].fresh, g))
        BY <1>2, <4>1, AgedFacts
      <4>3. CASE e = d
        BY <1>3, <1>4, <4>2, <4>3
      <4>4. CASE e # d
        BY <1>4, <4>2, <4>4
      <4> QED
        BY <4>3, <4>4
    <3>3. ASSUME NEW t \in Tabs
          PROVE  Sound(bye'[t].token) /\ (~bye'[t].on => ~bye'[t].token.live)
      <4>1. Sound(bye[t].token) /\ (~bye[t].on => ~bye[t].token.live)
        BY <1>1 DEF WireInv, TokenInv
      <4>2. /\ Sound(Aged(bye[t].token, g))
            /\ Aged(bye[t].token, g).live => bye[t].token.live
        BY <1>2, <4>1, AgedFacts
      <4> QED
        BY <1>5, <4>1, <4>2
    <3> QED
      BY <3>1, <3>2, <3>3 DEF TokenInv, Sound
  <2>2. OneInv'
    <3> SUFFICES ASSUME "overlap" \notin mishaps'
                 PROVE  /\ \A e, f \in Doors : post'[e].st # "none" /\ post'[f].st # "none" => e = f
                        /\ \A e \in Doors, t \in Tabs : post'[e].st = "none" \/ ~bye'[t].on
      BY DEF OneInv
    <3>1. /\ \A e, f \in Doors : post[e].st # "none" /\ post[f].st # "none" => e = f
          /\ \A e \in Doors, t \in Tabs : post[e].st = "none" \/ ~bye[t].on
      BY <1>1 DEF WireInv, OneInv
    <3>2. \A e \in Doors : post'[e].st # "none" => post[e].st # "none"
      BY <1>4
    <3> QED
      BY <1>5, <3>1, <3>2
  \* after a sign-out no refresh holds a live token
  <2>3. EndedInv'
    <3>1. post[d].token # NoToken
      BY TokenFacts
    <3>2. ~(ended /\ "overlap" \notin mishaps)
      BY <1>1, <3>1 DEF WireInv, EndedInv
    <3> QED
      BY <3>2 DEF EndedInv
  <2>4. PostsInv'
    <3> SUFFICES ASSUME NEW e \in Doors
                 PROVE  /\ post'[e].st = "sent" /\ post'[e].token = NoToken => "anonymous" \in mishaps'
                        /\ post'[e].st = "missing" => "anonymous" \in mishaps'
                        /\ post'[e].st = "broken" => "network" \in mishaps'
      BY DEF PostsInv
    <3>1. /\ post[e].st = "sent" /\ post[e].token = NoToken => "anonymous" \in mishaps
          /\ post[e].st = "missing" => "anonymous" \in mishaps
          /\ post[e].st = "broken" => "network" \in mishaps
      BY <1>1 DEF WireInv, PostsInv
    <3>2. post[e].token \in Tokens /\ Sound(post[e].token)
      BY <1>1, <1>2 DEF WireInv, TokenInv
    <3>3. post'[e].token = NoToken => post[e].token = NoToken
      BY <1>4, <3>2, AgedFacts
    <3>4. CASE e = d
      BY <1>3, <3>4
    <3>5. CASE e # d
      BY <1>4, <3>1, <3>3, <3>5
    <3> QED
      BY <3>4, <3>5
  <2>5. LiveInv'
    <3> SUFFICES ASSUME Quiet' PROVE LiveInv'
      BY DEF LiveInv
    <3>1. "overlap" \notin mishaps
      BY DEF Quiet
    <3>2. \A e \in Doors : e # d => post'[e].st = "none"
      BY <1>1, <1>4, <3>1 DEF WireInv, OneInv
    <3>3. post'[d].fresh.live
      BY <1>3
    <3>4. \A e \in Doors :
             /\ post'[e].st = "sent" => post'[e].token = NoToken \/ post'[e].token.live
             /\ post'[e].st = "ok" => post'[e].fresh.live
             /\ post'[e].st # "refused"
      BY <1>3, <3>2, <3>3
    <3>5. \/ cookie'.refresh = NoToken \/ cookie'.refresh.live
          \/ \E e \in Doors : post'[e].st = "ok"
      BY <1>3
    <3> QED
      BY <3>4, <3>5, Zenon DEF LiveInv
  <2> QED
    BY <2>1, <2>2, <2>3, <2>4, <2>5 DEF WireInv
<1>9. PageInv'
  <2>1. cookie'.refresh = NoToken => cookie.refresh = NoToken
    <3>1. Sound(cookie.refresh)
      BY <1>1 DEF WireInv, TokenInv
    <3>2. Aged(cookie.refresh, g) = NoToken => cookie.refresh = NoToken
      BY <1>2, <3>1, AgedFacts
    <3> QED
      BY <1>6, <3>2
  <2>2. MeInv' /\ StuckNeedsAFault'
    BY <1>1 DEF PageInv, MeInv, StuckNeedsAFault
  <2>3. CauseInv'
    BY <1>1, <1>5, <1>6, <2>1 DEF PageInv, CauseInv
  <2> QED
    BY <2>2, <2>3 DEF PageInv
<1> QED
  BY <1>7, <1>8, <1>9 DEF SessionInv

LEMMA RefreshStep ==
    ASSUME SessionInv, NEW d \in Doors, Refresh(d)
    PROVE  SessionInv'
<1> DEFINE g == post[d].token.grant
<1>1. post[d].st = "sent" /\ UNCHANGED <<grants, tab, axios, call, lapses, scope, ended>>
  BY DEF Refresh
<1>2. TypeOK /\ WireInv
  BY DEF SessionInv
<1>3. /\ mishaps \subseteq Mishaps /\ faults \in 0..scope.faults /\ post[d].token \in Tokens
      /\ {"idp", "network"} \subseteq Mishaps
  BY <1>2, TypeParts DEF Posts, Mishaps
<1>4. CASE /\ post[d].token = NoToken
           /\ post' = [post EXCEPT ![d].st = "missing"] /\ NoFault /\ UNCHANGED <<cookie, bye>>
  <2>1. "anonymous" \in mishaps
    BY <1>1, <1>2, <1>4 DEF WireInv, PostsInv
  <2> QED
    BY <1>1, <1>3, <1>4, <2>1, EndsWithout DEF NoFault
<1>5. CASE /\ post[d].token # NoToken /\ ~post[d].token.live
           /\ post' = [post EXCEPT ![d].st = "refused"] /\ NoFault /\ UNCHANGED <<cookie, bye>>
  <2>1. ~Quiet
    BY <1>1, <1>2, <1>5 DEF WireInv, LiveInv
  <2>2. ~Quiet'
    BY <1>5, <2>1 DEF NoFault, Quiet
  <2> QED
    BY <1>1, <1>3, <1>5, <2>2, EndsWithout DEF NoFault
<1>6. CASE /\ post[d].token.live
           /\ post' = [AgedPosts(post, g) EXCEPT ![d].st = "ok", ![d].fresh = Token(g)]
           /\ cookie' = AgedCookie(g) /\ bye' = AgedByes(g) /\ NoFault
  <2>1. g \in Nat /\ g # 0
    BY <1>2, <1>3, <1>6 DEF WireInv, TokenInv, Sound, Tokens
  <2>2. Token(g) \in Tokens /\ Sound(Token(g)) /\ Token(g).live
    BY <2>1, TokenFacts
  <2>3. BroughtHome(post', d, Token(g), g)
    BY <1>2, <1>6, <2>2, TypeParts, BroughtHomeFacts
  <2> QED
    BY <1>1, <1>3, <1>6, <2>2, <2>3, BringsHome DEF NoFault
<1>7. CASE /\ post[d].token.live
           /\ post' = [AgedPosts(post, g) EXCEPT ![d].st = "ok", ![d].fresh = Aged(Token(g), g)]
           /\ cookie' = AgedCookie(g) /\ bye' = AgedByes(g) /\ Fault("idp")
  <2>1. g \in Nat /\ g # 0
    BY <1>2, <1>3, <1>7 DEF WireInv, TokenInv, Sound, Tokens
  <2>2. Aged(Token(g), g) \in Tokens /\ Sound(Aged(Token(g), g))
    BY <2>1, TokenFacts, AgedFacts
  <2>3. /\ faults' \in 0..scope.faults /\ mishaps' \subseteq Mishaps
        /\ mishaps' = mishaps \cup {"idp"}
    BY <1>1, <1>2, <1>3, <1>7, FaultFacts
  <2>4. ~Quiet' /\ ("overlap" \in mishaps' => "overlap" \in mishaps)
    BY <2>3 DEF Quiet
  <2>5. BroughtHome(post', d, Aged(Token(g), g), g)
    BY <1>2, <1>7, <2>2, TypeParts, BroughtHomeFacts
  <2> QED
    BY <1>1, <1>3, <1>7, <2>2, <2>3, <2>4, <2>5, BringsHome
<1>8. CASE /\ post[d].token # NoToken
           /\ post' = [post EXCEPT ![d].st = "refused"] /\ Fault("idp")
           /\ UNCHANGED <<cookie, bye>>
  <2>1. /\ faults' \in 0..scope.faults /\ mishaps' \subseteq Mishaps
        /\ mishaps' = mishaps \cup {"idp"}
    BY <1>1, <1>2, <1>3, <1>8, FaultFacts
  <2>2. ~Quiet' /\ ("overlap" \in mishaps' => "overlap" \in mishaps)
    BY <2>1 DEF Quiet
  <2> QED
    BY <1>1, <1>3, <1>8, <2>1, <2>2, EndsWithout
<1> QED
  BY <1>4, <1>5, <1>6, <1>7, <1>8 DEF Refresh

LEMMA ConnectionStep ==
    ASSUME SessionInv, NEW d \in Doors, ConnectionFails(d)
    PROVE  SessionInv'
<1>1. /\ post[d].st # "none" /\ post' = [post EXCEPT ![d].st = "broken"] /\ Fault("network")
      /\ UNCHANGED <<cookie, grants, tab, axios, bye, call, lapses, scope, ended>>
  BY DEF ConnectionFails
<1>2. TypeOK /\ "network" \in Mishaps
  BY DEF SessionInv, Mishaps
<1>3. /\ faults' \in 0..scope.faults /\ mishaps' \subseteq Mishaps
      /\ mishaps' = mishaps \cup {"network"}
  BY <1>1, <1>2, FaultFacts
<1>4. ~Quiet' /\ ("overlap" \in mishaps' => "overlap" \in mishaps)
  BY <1>3 DEF Quiet
<1> QED
  BY <1>1, <1>3, <1>4, EndsWithout
-----------------------------------------------------------------------------
(* The tab hears the answer. *)

\* The refresh through door d is over, without a token.
LEMMA HeardInVain ==
    ASSUME TypeOK, WireInv, NEW d \in Doors, post[d].st # "ok",
           post' = [post EXCEPT ![d] = NoPost], UNCHANGED <<cookie, bye, mishaps, ended>>
    PROVE  WireInv' /\ post' \in [Doors -> Posts]
<1>1. /\ post \in [Doors -> Posts] /\ cookie.refresh \in Tokens /\ NoPost \in Posts
      /\ \A e \in Doors : post[e].token \in Tokens /\ post[e].fresh \in Tokens
      /\ \A t \in Tabs : bye[t].token \in Tokens
  BY TypeParts, RecordTypes DEF Cookies, Posts, Byes
<1>2. /\ post' \in [Doors -> Posts] /\ post'[d] = NoPost
      /\ \A e \in Doors : e # d => post'[e] = post[e]
  BY <1>1
<1>3. WireFades
  <2>1. \A e \in Doors : \/ post'[e] = NoPost
                         \/ /\ post'[e].st = post[e].st
                            /\ Fades(post[e].token, post'[e].token)
                            /\ Fades(post[e].fresh, post'[e].fresh)
    BY <1>1, <1>2, AgedFades
  <2>2. \A t \in Tabs : bye'[t].on = bye[t].on /\ Fades(bye[t].token, bye'[t].token)
    BY <1>1, AgedFades
  <2>3. Fades(cookie.refresh, cookie'.refresh)
    BY <1>1, AgedFades
  <2>4. \A e \in Doors : \/ post'[e] = post[e]
                         \/ post'[e] = NoPost /\ post[e].st # "ok"
    BY <1>2
  <2> QED
    BY <2>1, <2>2, <2>3, <2>4 DEF WireFades
<1> QED
  BY <1>2, <1>3, WireFadesKeeps

\* The cookies are renewed through door d.
LEMMA HeardRenewed ==
    ASSUME TypeOK, WireInv, NEW d \in Doors, post[d].st = "ok", cookie' = Renewed(d),
           post' = [post EXCEPT ![d] = NoPost], UNCHANGED <<bye, mishaps, ended>>
    PROVE  /\ WireInv' /\ post' \in [Doors -> Posts] /\ cookie' \in Cookies
           /\ cookie'.access = "valid"
<1>1. /\ post \in [Doors -> Posts] /\ cookie \in Cookies /\ NoPost \in Posts
      /\ NoPost.st = "none" /\ NoPost.token = NoToken /\ NoPost.fresh = NoToken
      /\ post[d].fresh \in Tokens
  BY TypeParts, RecordTypes DEF Posts, NoPost
<1>2. /\ post' \in [Doors -> Posts] /\ post'[d] = NoPost
      /\ \A e \in Doors : e # d => post'[e] = post[e]
  BY <1>1
<1>3. /\ cookie' \in Cookies /\ cookie'.access = "valid" /\ cookie'.refresh = post[d].fresh
  BY <1>1 DEF Renewed, Cookies
<1>4. TokenInv'
  <2>1. Sound(cookie'.refresh)
    BY <1>3 DEF WireInv, TokenInv
  <2>2. \A e \in Doors : Sound(post'[e].token) /\ Sound(post'[e].fresh)
    BY <1>1, <1>2, TokenFacts DEF WireInv, TokenInv
  <2> QED
    BY <2>1, <2>2 DEF WireInv, TokenInv, Sound
<1>5. OneInv' /\ PostsInv'
  BY <1>1, <1>2 DEF WireInv, OneInv, PostsInv
<1>6. EndedInv'
  BY DEF WireInv, EndedInv
<1>7. LiveInv'
  BY <1>1, <1>2, <1>3 DEF WireInv, LiveInv, Quiet
<1> QED
  BY <1>2, <1>3, <1>4, <1>5, <1>6, <1>7 DEF WireInv

LEMMA AuthHearsStep ==
    ASSUME SessionInv, NEW t \in Tabs, AuthHears(t)
    PROVE  SessionInv'
<1> DEFINE d       == <<t, "auth">>
           booting == tab[t].boot \in {"renew", "again"}
<1>1. /\ d \in Doors /\ post' = [post EXCEPT ![d] = NoPost]
      /\ UNCHANGED <<axios, grants, lapses, faults, scope, mishaps, ended>>
  BY DEF AuthHears, counts, Doors
<1>2. TypeOK /\ WireInv /\ PageInv
  BY DEF SessionInv
<1>3. /\ tab \in [Tabs -> Pages] /\ call \in [Requests -> CallSet] /\ t \in Requests
      /\ bye \in [Tabs -> Byes] /\ mishaps \subseteq Mishaps
      /\ faults \in 0..scope.faults
  BY <1>2, TypeParts DEF Requests
<1>4. \A u \in Tabs : tab[u].auth => tab[u].boot = "done"
  BY <1>2 DEF PageInv, CauseInv
<1> HIDE DEF d
<1>5. CASE /\ post[d].st = "ok"
           /\ cookie' = Renewed(d)
           /\ tab' = [tab EXCEPT ![t].timer = TRUE, ![t].boot =
                        CASE @ = "renew" -> "me" [] @ = "again" -> "meAgain"
                          [] OTHER -> @]
           /\ call' = IF booting THEN [call EXCEPT ![t] = Doing("sent", "valid")] ELSE call
           /\ UNCHANGED bye
  <2>1. /\ WireInv' /\ post' \in [Doors -> Posts] /\ cookie' \in Cookies
        /\ cookie'.access = "valid"
    BY <1>1, <1>2, <1>5, HeardRenewed
  <2> DEFINE next == CASE tab[t].boot = "renew" -> "me" [] tab[t].boot = "again" -> "meAgain"
                       [] OTHER -> tab[t].boot
  <2>2. /\ next \in {"none", "session", "renew", "me", "again", "meAgain", "done", "stuck"}
        /\ next = "stuck" => tab[t].boot = "stuck"
        /\ tab[t].boot = "done" => next = "done"
    BY <1>3 DEF Pages
  <2>3. tab' = [tab EXCEPT ![t].timer = TRUE, ![t].boot = next]
    BY <1>3, <1>5 DEF Pages
  <2> HIDE DEF next
  <2>4. /\ tab' \in [Tabs -> Pages] /\ tab'[t].boot = next /\ tab'[t].auth = tab[t].auth
        /\ \A u \in Tabs : u # t => tab'[u] = tab[u]
    BY <1>3, <2>2, <2>3 DEF Pages
  <2>5. Doing("sent", "valid") \in CallSet /\ Doing("sent", "valid").st = "sent"
    BY DEF Doing, CallSet, CallStates
  <2>6. /\ call' \in [Requests -> CallSet]
        /\ \A u \in Tabs : call'[u].st \in {"error", "denied"} => call'[u].st = call[u].st
    <3>1. call' = call \/ call' = [call EXCEPT ![t] = Doing("sent", "valid")]
      BY <1>5
    <3> QED
      BY <1>3, <2>5, <3>1 DEF Requests
  <2>7. TypeOK'
    <3>1. Typed'
      BY <1>1, <1>2, <1>5, <2>1, <2>4, <2>6, TypeParts DEF Typed
    <3> QED
      BY <3>1, TypedNext
  <2>8. PageInv'
    <3>1. MeInv'
      BY <1>1, <1>2, <2>6 DEF PageInv, MeInv
    <3>2. StuckNeedsAFault'
      BY <1>1, <1>2, <2>2, <2>4 DEF PageInv, StuckNeedsAFault
    <3>3. CauseInv'
      BY <1>1, <1>2, <1>4, <1>5, <2>1, <2>2, <2>4 DEF PageInv, CauseInv
    <3> QED
      BY <3>1, <3>2, <3>3 DEF PageInv
  <2> QED
    BY <2>1, <2>7, <2>8 DEF SessionInv
<1>6. CASE /\ post[d].st \in {"missing", "broken"}
           /\ tab' = IF booting THEN [tab EXCEPT ![t].boot = "stuck"] ELSE tab
           /\ UNCHANGED <<cookie, bye, call>>
  <2>1. WireInv' /\ post' \in [Doors -> Posts]
    BY <1>1, <1>2, <1>6, HeardInVain
  <2>2. mishaps \cap {"network", "anonymous", "backend", "revoked"} # {}
    BY <1>1, <1>2, <1>6 DEF WireInv, PostsInv
  <2>3. CASE ~booting
    BY <1>1, <1>3, <1>4, <1>6, <2>1, <2>3, PageStep
  <2>4. CASE booting
    <3>1. /\ tab' \in [Tabs -> Pages] /\ tab'[t].auth = tab[t].auth /\ tab'[t].at = tab[t].at
          /\ \A u \in Tabs : u # t => tab'[u] = tab[u]
      BY <1>3, <1>6, <2>4 DEF Pages
    <3>2. \A u \in Tabs : /\ tab'[u].auth => tab'[u].boot = "done"
                          /\ tab'[u].at = "app" /\ tab'[u].boot # "session" =>
                               tab[u].at = "app" /\ tab[u].boot # "session"
      BY <1>4, <2>4, <3>1
    <3> QED
      BY <1>1, <1>3, <1>6, <2>1, <2>2, <3>1, <3>2, PageStep
  <2> QED
    BY <2>3, <2>4
<1>7. CASE /\ post[d].st = "refused"
           /\ IF bye[t].on THEN UNCHANGED <<bye, tab>> ELSE LogsOut(t)
           /\ UNCHANGED <<cookie, call>>
  <2>1. ~Quiet
    BY <1>1, <1>2, <1>7 DEF WireInv, LiveInv
  <2>2. mishaps # {}
    BY <2>1 DEF Quiet
  <2>3. CASE bye[t].on
    <3>1. WireInv' /\ post' \in [Doors -> Posts] /\ UNCHANGED <<bye, tab>>
      BY <1>1, <1>2, <1>7, <2>3, HeardInVain
    <3> QED
      BY <1>1, <1>3, <1>4, <1>7, <3>1, PageStep
  <2>4. CASE ~bye[t].on
    <3>1. /\ bye' \in [Tabs -> Byes] /\ bye'[t].on /\ bye'[t].token = cookie.refresh
          /\ \A u \in Tabs : u # t => bye'[u] = bye[u]
          /\ tab' \in [Tabs -> Pages]
          /\ \A u \in Tabs : /\ tab'[u].boot = tab[u].boot /\ tab'[u].auth = tab[u].auth
                             /\ tab'[u].at = tab[u].at
      BY <1>2, <1>7, <2>4, LogsOutFacts
    <3>2. /\ post \in [Doors -> Posts] /\ NoPost \in Posts /\ NoPost.st = "none"
          /\ NoPost.token = NoToken /\ NoPost.fresh = NoToken
      BY <1>2, TypeParts, RecordTypes DEF NoPost
    <3>3. /\ post' \in [Doors -> Posts] /\ post'[d] = NoPost
          /\ \A e \in Doors : e # d => post'[e] = post[e]
      BY <1>1, <3>2
    <3>4. TokenInv'
      <4>1. \A e \in Doors : Sound(post'[e].token) /\ Sound(post'[e].fresh)
        BY <1>2, <3>2, <3>3, TokenFacts DEF WireInv, TokenInv
      <4>2. \A u \in Tabs : Sound(bye'[u].token) /\ (~bye'[u].on => ~bye'[u].token.live)
        BY <1>2, <3>1 DEF WireInv, TokenInv
      <4>3. Sound(cookie'.refresh)
        BY <1>2, <1>7 DEF WireInv, TokenInv
      <4> QED
        BY <4>1, <4>2, <4>3 DEF TokenInv, Sound
    \* the refresh that was refused was the only one
    <3>5. OneInv'
      <4>1. "overlap" \notin mishaps => \A e \in Doors : post'[e].st = "none"
        BY <1>1, <1>2, <1>7, <3>2, <3>3 DEF WireInv, OneInv
      <4> QED
        BY <1>1, <4>1 DEF OneInv
    <3>6. EndedInv'
      BY <1>1, <1>2, <1>7 DEF WireInv, EndedInv
    <3>7. PostsInv'
      BY <1>1, <1>2, <3>2, <3>3 DEF WireInv, PostsInv
    <3>8. LiveInv'
      BY <1>1, <2>1 DEF LiveInv, Quiet
    <3>9. WireInv'
      BY <3>4, <3>5, <3>6, <3>7, <3>8 DEF WireInv
    <3> QED
      BY <1>1, <1>3, <1>4, <1>7, <2>2, <3>1, <3>3, <3>9, PageStep
  <2> QED
    BY <2>3, <2>4
<1> QED
  BY <1>5, <1>6, <1>7 DEF AuthHears, d

LEMMA ToldFacts ==
    ASSUME TypeOK, NEW t \in Tabs, NEW result \in {"retry", "denied"}
    PROVE  /\ Told(t, result) \in [Requests -> CallSet]
           /\ \A c \in Requests :
                /\ Told(t, result)[c].st = "error" => call[c].st = "error"
                /\ Told(t, result)[c].st = "denied" => call[c].st = "denied" \/ result = "denied"
<1>1. call \in [Requests -> CallSet]
  BY TypeParts
<1> DEFINE told(c) == IF TabOf(c) # t \/ call[c].st \notin {"lead", "wait", "stranded"} THEN call[c]
                      ELSE IF result = "denied" THEN Got(c, "denied")
                      ELSE Doing(IF call[c].st = "lead" THEN "leadRetry" ELSE "retry", "valid")
<1>2. Told(t, result) = [c \in Requests |-> told(c)]
  BY DEF Told
<1>3. ASSUME NEW c \in Requests
      PROVE  /\ told(c) \in CallSet
             /\ told(c).st = "error" => call[c].st = "error"
             /\ told(c).st = "denied" => call[c].st = "denied" \/ result = "denied"
  <2>1. /\ Got(c, "denied") \in CallSet
        /\ Got(c, "denied").st \in {"denied", "idle"}
    BY RecordTypes DEF Got, Doing, NoCall
  <2>2. /\ Doing("leadRetry", "valid") \in CallSet /\ Doing("leadRetry", "valid").st = "leadRetry"
        /\ Doing("retry", "valid") \in CallSet /\ Doing("retry", "valid").st = "retry"
    BY DEF Doing, CallSet, CallStates
  <2> QED
    BY <1>1, <2>1, <2>2
<1> HIDE DEF told
<1> QED
  BY <1>2, <1>3

LEMMA AxiosHearsStep ==
    ASSUME SessionInv, NEW t \in Tabs, AxiosHears(t)
    PROVE  SessionInv'
<1> DEFINE d == <<t, "axios">>
<1>1. d \in Doors /\ UNCHANGED <<grants, lapses, faults, scope, ended>>
  BY DEF AxiosHears, counts, Doors
<1>2. TypeOK /\ WireInv /\ PageInv
  BY DEF SessionInv
<1>3. /\ tab \in [Tabs -> Pages] /\ bye \in [Tabs -> Byes] /\ mishaps \subseteq Mishaps
      /\ faults \in 0..scope.faults /\ axios \in [Tabs -> {"idle", "refresh", "retry"}]
      /\ \A u \in Tabs : u \in Requests
  BY <1>2, TypeParts DEF Requests
<1>4. \A u \in Tabs : tab[u].auth => tab[u].boot = "done"
  BY <1>2 DEF PageInv, CauseInv
<1> HIDE DEF d
<1>5. CASE /\ post[d].st = "ok"
           /\ cookie' = Renewed(d)
           /\ axios' = [axios EXCEPT ![t] = "retry"]
           /\ call' = Told(t, "retry")
           /\ post' = [post EXCEPT ![d] = NoPost]
           /\ UNCHANGED <<tab, bye, mishaps>>
  <2>1. /\ WireInv' /\ post' \in [Doors -> Posts] /\ cookie' \in Cookies
        /\ cookie'.access = "valid"
    BY <1>1, <1>2, <1>5, HeardRenewed
  <2>2. /\ call' \in [Requests -> CallSet]
        /\ \A u \in Tabs : /\ call'[u].st = "error" => call[u].st = "error"
                           /\ call'[u].st = "denied" => call[u].st = "denied"
    BY <1>2, <1>3, <1>5, ToldFacts
  <2>3. axios' \in [Tabs -> {"idle", "refresh", "retry"}]
    BY <1>3, <1>5
  <2>4. TypeOK'
    <3>1. Typed'
      BY <1>1, <1>2, <1>5, <2>1, <2>2, <2>3, TypeParts DEF Typed
    <3> QED
      BY <3>1, TypedNext
  <2>5. PageInv'
    <3>1. MeInv' /\ StuckNeedsAFault'
      BY <1>2, <1>5, <2>2 DEF PageInv, MeInv, StuckNeedsAFault
    <3>2. CauseInv'
      BY <1>2, <1>5, <2>1 DEF PageInv, CauseInv
    <3> QED
      BY <3>1, <3>2 DEF PageInv
  <2> QED
    BY <2>1, <2>4, <2>5 DEF SessionInv
<1>6. CASE /\ post[d].st = "missing"
           /\ axios' = [axios EXCEPT ![t] = "idle"]
           /\ call' = Told(t, "denied")
           /\ post' = [post EXCEPT ![d] = NoPost]
           /\ UNCHANGED <<cookie, tab, bye, mishaps>>
  <2>1. WireInv' /\ post' \in [Doors -> Posts]
    BY <1>1, <1>2, <1>6, HeardInVain
  <2>2. "anonymous" \in mishaps
    BY <1>1, <1>2, <1>6 DEF WireInv, PostsInv
  <2>3. /\ call' \in [Requests -> CallSet]
        /\ \A u \in Tabs : call'[u].st = "error" => call[u].st = "error"
    BY <1>2, <1>3, <1>6, ToldFacts
  <2>4. axios' \in [Tabs -> {"idle", "refresh", "retry"}]
    BY <1>3, <1>6
  <2> QED
    BY <1>1, <1>3, <1>4, <1>6, <2>1, <2>2, <2>3, <2>4, RequestStep
<1>7. CASE post[d].st \in {"refused", "broken"} /\ Replaces(t, Away, {})
  BY <1>1, <1>3, <1>7, ReplacesKeeps
<1> QED
  BY <1>5, <1>6, <1>7 DEF AxiosHears, d
-----------------------------------------------------------------------------
(* The API requests. *)

LEMMA UnauthorisedFacts ==
    ASSUME TypeOK, NEW c \in Requests, Unauthorised(c), UNCHANGED scope
    PROVE  faults' \in 0..scope.faults
BY TypeParts DEF Unauthorised

\* Only the page's requests change, and faults are counted.
LEMMA CallStep ==
    ASSUME SessionInv,
           UNCHANGED <<cookie, grants, tab, post, bye, lapses, scope, ended>>,
           faults' \in 0..scope.faults, axios' \in [Tabs -> {"idle", "refresh", "retry"}],
           mishaps' \subseteq Mishaps, mishaps \subseteq mishaps', Quiet' <=> Quiet,
           "overlap" \in mishaps' => "overlap" \in mishaps,
           call' \in [Requests -> CallSet],
           \A t \in Tabs :
             /\ call'[t].st = "error" => call[t].st = "error" \/ "backend" \in mishaps'
             /\ call'[t].st = "denied" =>
                  call[t].st = "denied" \/ mishaps' \cap {"revoked", "anonymous"} # {}
    PROVE  SessionInv'
<1>1. TypeOK /\ WireInv /\ PageInv
  BY DEF SessionInv
<1>2. /\ tab \in [Tabs -> Pages] /\ post \in [Doors -> Posts] /\ bye \in [Tabs -> Byes]
  BY <1>1, TypeParts
<1>3. WireInv'
  <2>1. TokenInv' /\ OneInv' /\ EndedInv' /\ PostsInv'
    BY <1>1 DEF WireInv, TokenInv, OneInv, EndedInv, PostsInv, Sound
  <2>2. LiveInv'
    BY <1>1 DEF WireInv, LiveInv
  <2> QED
    BY <2>1, <2>2 DEF WireInv
<1>4. \A t \in Tabs : tab[t].auth => tab[t].boot = "done"
  BY <1>1 DEF PageInv, CauseInv
<1> QED
  BY <1>2, <1>3, <1>4, RequestStep

LEMMA CallFacts ==
    ASSUME TypeOK
    PROVE  /\ call \in [Requests -> CallSet] /\ axios \in [Tabs -> {"idle", "refresh", "retry"}]
           /\ faults \in 0..scope.faults /\ mishaps \subseteq Mishaps
           /\ \A c \in Requests : TabOf(c) \in Tabs
           /\ \A t \in Tabs : t \in Requests
           /\ \A c \in Calls : c \in Requests
           /\ cookie.access \in {"none", "valid", "expired"}
           /\ {"backend", "revoked"} \subseteq Mishaps
BY TypeParts, SessionAssumption DEF Requests, TabOf, Cookies, Mishaps

LEMMA AskStep ==
    ASSUME SessionInv, NEW c \in Calls, Ask(c)
    PROVE  SessionInv'
<1>1. /\ call' = [call EXCEPT ![c] = Doing("sent", cookie.access)]
      /\ UNCHANGED <<cookie, grants, tab, axios, post, bye, lapses, faults, scope, mishaps, ended>>
  BY DEF Ask, counts
<1>2. TypeOK
  BY DEF SessionInv
<1>3. Doing("sent", cookie.access) \in CallSet /\ Doing("sent", cookie.access).st = "sent"
  BY <1>2, CallFacts DEF Doing, CallSet, CallStates
<1>4. /\ call' \in [Requests -> CallSet]
      /\ \A u \in Tabs : call'[u].st \in {"error", "denied"} => call'[u].st = call[u].st
  BY <1>1, <1>2, <1>3, CallFacts
<1> QED
  BY <1>1, <1>2, <1>4, CallFacts, CallStep DEF Quiet

LEMMA DeniedStep ==
    ASSUME SessionInv, NEW c \in Requests, Denied(c)
    PROVE  SessionInv'
<1> DEFINE t == TabOf(c)
<1>1. Unauthorised(c) /\ UNCHANGED <<cookie, grants, tab, bye, lapses, scope, ended>>
  BY DEF Denied
<1>2. TypeOK /\ WireInv /\ PageInv
  BY DEF SessionInv
<1>3. /\ t \in Tabs /\ axios \in [Tabs -> {"idle", "refresh", "retry"}]
      /\ mishaps \subseteq Mishaps /\ faults' \in 0..scope.faults
      /\ tab \in [Tabs -> Pages] /\ bye \in [Tabs -> Byes]
  BY <1>1, <1>2, CallFacts, TypeParts, UnauthorisedFacts
<1>4. ASSUME NEW st \in {"lead", "wait", "stranded"},
             call' = [call EXCEPT ![c] = Doing(st, "none")]
      PROVE  /\ call' \in [Requests -> CallSet]
             /\ \A u \in Tabs : call'[u].st \in {"error", "denied"} => call'[u].st = call[u].st
  <2>1. Doing(st, "none") \in CallSet /\ Doing(st, "none").st = st
    BY DEF Doing, CallSet, CallStates
  <2> QED
    BY <1>2, <1>4, <2>1, CallFacts
<1> HIDE DEF t
<1>5. CASE /\ axios' = [axios EXCEPT ![t] = "refresh"]
           /\ call' = [call EXCEPT ![c] = Doing("lead", "none")]
           /\ Sends(<<t, "axios">>)
  <2>1. <<t, "axios">> \in Doors
    BY <1>3 DEF Doors
  <2>2. /\ WireInv' /\ post' \in [Doors -> Posts] /\ mishaps' \subseteq Mishaps
        /\ mishaps \subseteq mishaps'
    BY <1>1, <1>2, <1>5, <2>1, SendsKeeps
  <2>3. axios' \in [Tabs -> {"idle", "refresh", "retry"}]
    BY <1>3, <1>5
  <2>4. /\ call' \in [Requests -> CallSet]
        /\ \A u \in Tabs : call'[u].st \in {"error", "denied"} => call'[u].st = call[u].st
    BY <1>4, <1>5
  <2>5. \A u \in Tabs : tab[u].auth => tab[u].boot = "done"
    BY <1>2 DEF PageInv, CauseInv
  <2> QED
    BY <1>1, <1>3, <2>2, <2>3, <2>4, <2>5, RequestStep
<1>6. CASE /\ \/ call' = [call EXCEPT ![c] = Doing("wait", "none")]
              \/ call' = [call EXCEPT ![c] = Doing("stranded", "none")]
           /\ UNCHANGED <<axios, post, mishaps>>
  <2>1. /\ call' \in [Requests -> CallSet]
        /\ \A u \in Tabs : call'[u].st \in {"error", "denied"} => call'[u].st = call[u].st
    BY <1>4, <1>6
  <2> QED
    BY <1>1, <1>3, <1>6, <2>1, CallStep DEF Quiet
<1> QED
  BY <1>5, <1>6 DEF Denied, t

LEMMA GotFacts ==
    ASSUME TypeOK, NEW c \in Requests, NEW result \in {"ok", "error", "denied"},
           call' = [call EXCEPT ![c] = Got(c, result)]
    PROVE  /\ call' \in [Requests -> CallSet]
           /\ \A u \in Tabs :
                /\ call'[u].st = "error" => call[u].st = "error" \/ result = "error"
                /\ call'[u].st = "denied" => call[u].st = "denied" \/ result = "denied"
<1>1. Got(c, result) \in CallSet
  BY RecordTypes
<1>2. Got(c, result).st \in {result, "idle"}
  BY DEF Got, Doing, NoCall
<1> QED
  BY <1>1, <1>2, CallFacts

LEMMA SettledFacts ==
    ASSUME TypeOK, NEW c \in Requests, NEW result \in {"ok", "error", "denied"},
           Settled(c, result), UNCHANGED scope
    PROVE  /\ faults' \in 0..scope.faults /\ mishaps' \subseteq Mishaps
           /\ mishaps \subseteq mishaps' /\ (Quiet' <=> Quiet)
           /\ "overlap" \in mishaps' => "overlap" \in mishaps
           /\ result = "error" => "backend" \in mishaps'
           /\ result = "denied" => "revoked" \in mishaps'
<1>1. CASE NoFault /\ result = "ok"
  BY <1>1, CallFacts DEF NoFault, Quiet
<1>2. CASE result = "error" /\ Fault("backend")
  <2>1. faults' \in 0..scope.faults /\ mishaps' = mishaps \cup {"backend"}
    BY <1>2, CallFacts, FaultFacts
  <2> QED
    BY <1>2, <2>1, CallFacts DEF Quiet
<1>3. CASE result = "denied" /\ Unauthorised(c) /\ mishaps' = mishaps \cup {"revoked"}
  <2>1. faults' \in 0..scope.faults
    BY <1>3, UnauthorisedFacts
  <2> QED
    BY <1>3, <2>1, CallFacts DEF Quiet
<1> QED
  BY <1>1, <1>2, <1>3 DEF Settled

LEMMA AnsweredStep ==
    ASSUME SessionInv, NEW c \in Requests, Answered(c)
    PROVE  SessionInv'
<1>1. PICK r \in {"ok", "error", "denied"} :
         Settled(c, r) /\ call' = [call EXCEPT ![c] = Got(c, r)]
  BY DEF Answered
<1>2. UNCHANGED <<cookie, grants, tab, axios, post, bye, lapses, scope, ended>>
  BY DEF Answered
<1>3. TypeOK
  BY DEF SessionInv
<1>4. /\ faults' \in 0..scope.faults /\ mishaps' \subseteq Mishaps
      /\ mishaps \subseteq mishaps' /\ (Quiet' <=> Quiet)
      /\ "overlap" \in mishaps' => "overlap" \in mishaps
      /\ r = "error" => "backend" \in mishaps'
      /\ r = "denied" => "revoked" \in mishaps'
  BY <1>1, <1>2, <1>3, SettledFacts
<1>5. /\ call' \in [Requests -> CallSet]
      /\ \A u \in Tabs :
           /\ call'[u].st = "error" => call[u].st = "error" \/ r = "error"
           /\ call'[u].st = "denied" => call[u].st = "denied" \/ r = "denied"
  BY <1>1, <1>3, GotFacts
<1>6. axios' \in [Tabs -> {"idle", "refresh", "retry"}]
  BY <1>2, <1>3, CallFacts
<1> QED
  BY <1>2, <1>4, <1>5, <1>6, CallStep

LEMMA LeaderAnsweredStep ==
    ASSUME SessionInv, NEW c \in Requests, LeaderAnswered(c)
    PROVE  SessionInv'
<1> DEFINE t == TabOf(c)
<1>1. UNCHANGED <<grants, lapses, scope, ended>>
  BY DEF LeaderAnswered
<1>2. TypeOK
  BY DEF SessionInv
<1>3. t \in Tabs /\ {"backend"} \subseteq Mishaps /\ {"revoked"} \subseteq Mishaps
  BY <1>2, CallFacts
<1> HIDE DEF t
<1>4. CASE /\ Settled(c, "ok")
           /\ call' = [call EXCEPT ![c] = Got(c, "ok")]
           /\ axios' = [axios EXCEPT ![t] = "idle"]
           /\ UNCHANGED <<cookie, tab, post, bye>>
  <2>1. /\ faults' \in 0..scope.faults /\ mishaps' \subseteq Mishaps
        /\ mishaps \subseteq mishaps' /\ (Quiet' <=> Quiet)
        /\ "overlap" \in mishaps' => "overlap" \in mishaps
    BY <1>1, <1>2, <1>4, SettledFacts
  <2>2. /\ call' \in [Requests -> CallSet]
        /\ \A u \in Tabs : /\ call'[u].st = "error" => call[u].st = "error"
                           /\ call'[u].st = "denied" => call[u].st = "denied"
    BY <1>2, <1>4, GotFacts
  <2>3. axios' \in [Tabs -> {"idle", "refresh", "retry"}]
    BY <1>2, <1>4, CallFacts
  <2> QED
    BY <1>1, <1>4, <2>1, <2>2, <2>3, CallStep
<1>5. CASE Spend /\ Replaces(t, Away, {"backend"})
  <2>1. faults' \in 0..scope.faults
    BY <1>1, <1>2, <1>5, SpendFacts
  <2> QED
    BY <1>1, <1>3, <1>5, <2>1, ReplacesKeeps
<1>6. CASE Unauthorised(c) /\ Replaces(t, Away, {"revoked"})
  <2>1. faults' \in 0..scope.faults
    BY <1>1, <1>2, <1>6, UnauthorisedFacts
  <2> QED
    BY <1>1, <1>3, <1>6, <2>1, ReplacesKeeps
<1> QED
  BY <1>4, <1>5, <1>6 DEF LeaderAnswered, t

-----------------------------------------------------------------------------
(* The invariant holds. *)

LEMMA SessionInit == Init => SessionInv
<1> SUFFICES ASSUME Init PROVE SessionInv
  OBVIOUS
<1>1. /\ cookie = SignedOut /\ tab = [t \in Tabs |-> Away]
      /\ axios = [t \in Tabs |-> "idle"] /\ post = [d \in Doors |-> NoPost]
      /\ bye = [t \in Tabs |-> NoBye] /\ call = [c \in Requests |-> NoCall]
      /\ grants = 0 /\ lapses = 0 /\ faults = 0
      /\ scope \in Scopes /\ mishaps = {} /\ ended = FALSE
  BY DEF Init
<1>2. scope.grants \in Nat /\ scope.lapses \in Nat /\ scope.faults \in Nat
  BY <1>1, SessionAssumption
<1>3. /\ SignedOut.access = "none" /\ SignedOut.refresh = NoToken
      /\ NoPost.st = "none" /\ NoPost.token = NoToken /\ NoPost.fresh = NoToken
      /\ ~NoBye.on /\ NoBye.token = NoToken /\ NoCall.st = "idle"
  BY DEF SignedOut, NoPost, NoBye, NoCall
<1>4. TypeOK
  <2>1. Typed
    <3>1. cookie \in Cookies /\ tab \in [Tabs -> Pages] /\ post \in [Doors -> Posts]
      BY <1>1, RecordTypes
    <3>2. bye \in [Tabs -> Byes] /\ call \in [Requests -> CallSet]
      BY <1>1, RecordTypes
    <3>3. axios \in [Tabs -> {"idle", "refresh", "retry"}]
      BY <1>1
    <3>4. grants \in 0..scope.grants /\ lapses \in 0..scope.lapses /\ faults \in 0..scope.faults
      BY <1>1, <1>2
    <3> QED
      BY <1>1, <3>1, <3>2, <3>3, <3>4 DEF Typed
  <2> QED
    BY <2>1, TypedIsTypeOK
<1>5. WireInv
  <2>1. TokenInv
    BY <1>1, <1>3, TokenFacts DEF TokenInv
  <2>2. OneInv /\ EndedInv /\ PostsInv
    BY <1>1, <1>3 DEF OneInv, EndedInv, PostsInv
  <2>3. LiveInv
    BY <1>1, <1>3 DEF LiveInv
  <2> QED
    BY <2>1, <2>2, <2>3 DEF WireInv
<1>6. PageInv
  <2>1. \A t \in Tabs : t \in Requests
    BY DEF Requests
  <2> QED
    BY <1>1, <1>3, <2>1, PageShapes DEF PageInv, MeInv, StuckNeedsAFault, CauseInv
<1> QED
  BY <1>4, <1>5, <1>6 DEF SessionInv

LEMMA SessionNext == SessionInv /\ [Next]_vars => SessionInv'
<1> SUFFICES ASSUME SessionInv, [Next]_vars PROVE SessionInv'
  OBVIOUS
<1>1. CASE AccessExpires \/ CookieExpires
  BY <1>1, TimeStep
<1>2. ASSUME NEW t \in Tabs,
             \/ SignIn(t) \/ Callback(t) \/ Open(t) \/ BootSession(t) \/ BootMe(t)
             \/ TimerFires(t) \/ Logout(t) \/ LogoutAnswered(t)
             \/ AuthHears(t) \/ AxiosHears(t)
      PROVE  SessionInv'
  BY <1>2, SignInStep, CallbackStep, OpenStep, BootSessionStep, BootMeStep, TimerStep,
     LogoutStep, LogoutAnsweredStep, AuthHearsStep, AxiosHearsStep
<1>3. ASSUME NEW d \in Doors, Refresh(d) \/ ConnectionFails(d) PROVE SessionInv'
  BY <1>3, RefreshStep, ConnectionStep
<1>4. ASSUME NEW c \in Calls, Ask(c) PROVE SessionInv'
  BY <1>4, AskStep
<1>5. ASSUME NEW c \in Requests, Denied(c) \/ Answered(c) \/ LeaderAnswered(c)
      PROVE  SessionInv'
  BY <1>5, DeniedStep, AnsweredStep, LeaderAnsweredStep
<1>6. CASE UNCHANGED vars
  <2>1. UNCHANGED <<cookie, grants, tab, axios, post, bye, call, lapses, faults, scope,
                    mishaps, ended>>
    BY <1>6 DEF vars
  <2>2. TypeOK'
    BY <2>1 DEF SessionInv, TypeOK
  <2>3. WireInv'
    BY <2>1, WireSame DEF SessionInv
  <2>4. PageInv'
    BY <2>1 DEF SessionInv, PageInv, MeInv, StuckNeedsAFault, CauseInv
  <2> QED
    BY <2>2, <2>3, <2>4 DEF SessionInv
<1> QED
  BY <1>1, <1>2, <1>3, <1>4, <1>5, <1>6 DEF Next

LEMMA SessionAlways == Spec => []SessionInv
BY SessionInit, SessionNext, PTL DEF Spec
-----------------------------------------------------------------------------
(* What follows from it. *)

\* Type correctness: no counter passes the bound its behaviour keeps to, and no copy
\* of a token is anything but one.
THEOREM TypesHold == Spec => []TypeOK
<1>1. SessionInv => TypeOK
  BY DEF SessionInv
<1> QED
  BY <1>1, SessionAlways, PTL

\* The rotation of refresh tokens survives the two places that refresh: the cookie
\* holds a live token or one is on its way to it, until requests overlapped, a page was
\* left with one sent, or Logto or the connection failed.
THEOREM RotationSurvives == Spec => []CookieTokenIsLive
<1>1. SessionInv => CookieTokenIsLive
  <2> SUFFICES ASSUME SessionInv, Quiet
               PROVE  cookie.refresh = NoToken \/ cookie.refresh.live \/ Sent # {}
    BY DEF CookieTokenIsLive, Quiet
  <2>1. \/ cookie.refresh = NoToken
        \/ cookie.refresh.live
        \/ \E d \in Doors : post[d].st = "ok"
    BY DEF SessionInv, WireInv, LiveInv
  <2> QED
    BY <2>1 DEF Sent
<1> QED
  BY <1>1, SessionAlways, PTL

\* A sign-out that was answered is final: no cookie of the session is left, and none
\* comes back before the next sign-in, unless a refresh ran beside the sign-out.
THEOREM SignOutIsFinal == Spec => []SignedOutStaysOut
<1>1. SessionInv => SignedOutStaysOut
  BY DEF SessionInv, WireInv, EndedInv, SignedOutStaysOut
<1> QED
  BY <1>1, SessionAlways, PTL

\* A bootstrap that gave up met a failed request or had no refresh token.
THEOREM StuckHasAReason == Spec => []StuckNeedsAFault
<1>1. SessionInv => StuckNeedsAFault
  BY DEF SessionInv, PageInv
<1> QED
  BY <1>1, SessionAlways, PTL

-----------------------------------------------------------------------------
(* Who leaves for the login page. *)

\* A step that keeps each tab where it is, or leaves the application for a reason.
LEMMA Leaves ==
    ASSUME SessionInv, NEW t \in Tabs, NEW page \in {Away, Opened}, NEW why,
           why \subseteq Mishaps, Replaces(t, page, why),
           page = Away => mishaps \cup why # {} \/ (~tab[t].auth /\ cookie.access = "none"),
           NEW u \in Tabs, tab[u].at = "app", tab'[u].at = "login",
           tab[u].auth \/ cookie.access # "none"
    PROVE  mishaps' # {}
<1>1. mishaps \cup why \subseteq mishaps'
  BY DEF Replaces
<1>2. tab \in [Tabs -> Pages]
  BY TypeParts DEF SessionInv
<1>3. tab'[u] = IF u = t THEN page ELSE tab[u]
  BY <1>2 DEF Replaces, Forgets
<1>4. u = t /\ page = Away
  BY <1>3, PageShapes
<1> QED
  BY <1>1, <1>4

\* No automatic logout, redirect of the interceptor or gate ends a working session that
\* nothing happened to.
THEOREM NobodyIsThrownOut == Spec => SignedOutForACause
<1> DEFINE Thrown(u) == /\ tab[u].at = "app" /\ tab'[u].at = "login"
                        /\ tab[u].auth \/ cookie.access # "none"
<1>1. ASSUME SessionInv, [Next]_vars, NEW u \in Tabs, Thrown(u)
      PROVE  mishaps' # {}
  <2>1. TypeOK /\ WireInv /\ PageInv /\ tab \in [Tabs -> Pages]
    BY <1>1, TypeParts DEF SessionInv
  <2>2. /\ tab[u].auth => tab[u].boot = "done"
        /\ tab[u].at = "app" /\ tab[u].boot # "session" /\ cookie.access = "none" =>
             mishaps # {}
        /\ cookie.access = "expired" /\ cookie.refresh = NoToken => mishaps # {}
    BY <2>1 DEF PageInv, CauseInv
  <2>3. CASE tab' = tab
    BY <1>1, <2>3
  <2>4. ASSUME NEW t \in Tabs, SignIn(t) PROVE FALSE
    BY <1>1, <2>1, <2>4 DEF SignIn, Pages
  <2>5. ASSUME NEW t \in Tabs, Callback(t) PROVE FALSE
    <3>1. tab[t].at = "idp"
      BY <2>5 DEF Callback
    <3>2. u # t => tab'[u] = tab[u]
      BY <2>1, <2>5 DEF Callback
    <3> QED
      BY <1>1, <3>1, <3>2
  <2>6. ASSUME NEW t \in Tabs, Open(t) PROVE mishaps' # {}
    <3>1. CASE Replaces(t, Opened, {})
      <4>1. Opened # Away
        BY PageShapes
      <4> QED
        BY <1>1, <3>1, <4>1, Leaves
    <3>2. CASE ~LetsIn /\ tab[t].at = "app" /\ Replaces(t, Away, {})
      <4>1. cookie.access = "none" \/ (cookie.access = "expired" /\ cookie.refresh = NoToken)
        BY <2>1, <3>2, CallFacts DEF LetsIn
      <4>2. tab[t].boot \in {"done", "stuck"}
        BY <2>6, <3>2 DEF Open
      <4>3. mishaps # {}
        BY <2>1, <3>2, <4>1, <4>2 DEF PageInv, CauseInv
      <4> QED
        BY <1>1, <3>2, <4>3, Leaves
    <3> QED
      BY <2>6, <3>1, <3>2 DEF Open
  <2>7. ASSUME NEW t \in Tabs, BootSession(t) PROVE mishaps' # {}
    <3>1. CASE cookie.access = "none" /\ Replaces(t, Away, {})
      <4>1. ~tab[t].auth
        BY <2>1, <2>7 DEF BootSession, PageInv, CauseInv
      <4> QED
        BY <1>1, <3>1, <4>1, Leaves
    <3>2. CASE \/ tab' = [tab EXCEPT ![t].boot = "renew"]
               \/ tab' = [tab EXCEPT ![t].boot = "me", ![t].timer = TRUE]
      BY <1>1, <2>1, <3>2 DEF Pages
    <3> QED
      BY <2>7, <3>1, <3>2 DEF BootSession
  <2>8. ASSUME NEW t \in Tabs, BootMe(t) PROVE FALSE
    <3>1. \/ tab' = [tab EXCEPT ![t].boot = "done", ![t].auth = TRUE]
          \/ tab' = [tab EXCEPT ![t].boot = "stuck"]
          \/ tab' = [tab EXCEPT ![t].boot = "again"]
      BY <2>8 DEF BootMe
    <3> QED
      BY <1>1, <2>1, <3>1 DEF Pages
  <2>9. ASSUME NEW t \in Tabs, TimerFires(t) \/ Logout(t) PROVE FALSE
    <3>1. tab' = [tab EXCEPT ![t].timer = FALSE]
      BY <2>9 DEF TimerFires, Logout, LogsOut
    <3> QED
      BY <1>1, <2>1, <3>1 DEF Pages
  <2>10. ASSUME NEW t \in Tabs, LogoutAnswered(t) PROVE mishaps' # {}
    <3>1. mishaps # {}
      BY <2>1, <2>10 DEF LogoutAnswered, PageInv, CauseInv
    <3>2. mishaps \subseteq mishaps'
      BY <2>10 DEF LogoutAnswered, NoFault, Replaces
    <3> QED
      BY <3>1, <3>2
  <2>11. ASSUME NEW t \in Tabs, AuthHears(t) PROVE FALSE
    <3>1. \/ tab' = tab
          \/ tab' = [tab EXCEPT ![t].timer = TRUE, ![t].boot =
                       CASE @ = "renew" -> "me" [] @ = "again" -> "meAgain"
                         [] OTHER -> @]
          \/ tab' = [tab EXCEPT ![t].boot = "stuck"]
          \/ tab' = [tab EXCEPT ![t].timer = FALSE]
      BY <2>11 DEF AuthHears, LogsOut
    <3> QED
      BY <1>1, <2>1, <3>1 DEF Pages
  <2>12. ASSUME NEW t \in Tabs, AxiosHears(t) PROVE mishaps' # {}
    <3>1. CASE tab' = tab
      BY <2>3, <3>1
    <3>2. CASE post[<<t, "axios">>].st \in {"refused", "broken"} /\ Replaces(t, Away, {})
      <4>1. <<t, "axios">> \in Doors
        BY DEF Doors
      <4>2. mishaps # {}
        BY <2>1, <3>2, <4>1 DEF WireInv, LiveInv, PostsInv, Quiet
      <4> QED
        BY <1>1, <3>2, <4>2, Leaves
    <3> QED
      BY <2>12, <3>1, <3>2 DEF AxiosHears
  <2>13. ASSUME NEW c \in Requests, LeaderAnswered(c) PROVE mishaps' # {}
    <3>1. CASE tab' = tab
      BY <2>3, <3>1
    <3>2. ASSUME NEW kind \in {"backend", "revoked"}, Replaces(TabOf(c), Away, {kind})
          PROVE  mishaps' # {}
      BY <3>2 DEF Replaces
    <3> QED
      BY <2>13, <3>1, <3>2 DEF LeaderAnswered
  <2>14. CASE \/ AccessExpires \/ CookieExpires
              \/ \E d \in Doors : Refresh(d) \/ ConnectionFails(d)
              \/ \E c \in Calls : Ask(c)
              \/ \E c \in Requests : Denied(c) \/ Answered(c)
              \/ UNCHANGED vars
    <3>1. tab' = tab
      BY <2>14 DEF AccessExpires, CookieExpires, Refresh, ConnectionFails, Ask, Denied, Answered,
                   vars
    <3> QED
      BY <2>3, <3>1
  <2> QED
    BY <1>1, <2>4, <2>5, <2>6, <2>7, <2>8, <2>9, <2>10, <2>11, <2>12, <2>13, <2>14 DEF Next
<1>2. SessionInv /\ [Next]_vars =>
        [\A t \in Tabs :
           /\ tab[t].at = "app" /\ tab'[t].at = "login"
           /\ tab[t].auth \/ cookie.access # "none"
           => mishaps' # {}]_vars
  BY <1>1
<1> QED
  BY <1>2, SessionAlways, PTL DEF Spec, SignedOutForACause
=============================================================================
