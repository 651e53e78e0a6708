-------------------------------- MODULE SignIn --------------------------------
(* Signing in and out (AuthGate.tsx, auth.controller.ts, auth.service.ts,     *)
(* oidc.service.ts, current-identity.middleware.ts).  The tabs of one browser *)
(* share its cookies: the token of a local session, that of a session signed  *)
(* in at the identity provider, and the key of a sign-in under way there.  A  *)
(* tab shows who its own requests last signed in; the API decides from the    *)
(* cookies who acts.  Roles, the audit trail, service accounts and the header *)
(* mode of development are left out.                                          *)
EXTENDS WebTab, Sequences, FiniteSets

CONSTANTS
    BrowserTabs,  \* tabs of the browser
    NoTab,        \* the tab of a request whose page was left
    Users,        \* who may sign in, in either way
    NoUser        \* null

ASSUME SignInAssumption == NoTab \notin BrowserTabs /\ NoUser \notin Users

VARIABLES
    cookies,   \* tokens and key in the browser; 0 where there is none
    logins,    \* local_auth_sessions and oidc_auth_sessions; a token is an index
    flows,     \* how many sign-ins at the identity provider were begun
    states,    \* sessionStates: the flows the API process remembers
    identity,  \* of each tab, who AuthGate shows
    place,     \* of each tab, the flow it left the console for, or 0
    overtaken  \* history: tabs that an event elsewhere has overtaken

signVars == <<cookies, logins, flows, states, identity, place, overtaken>>

NoCookies == [local |-> 0, oidc |-> 0, state |-> 0]

SignTask(kind, step, tab, data) == [kind |-> kind, step |-> step, tab |-> tab, data |-> data]

SignIdle ==
    /\ cookies = NoCookies
    /\ logins = << >>
    /\ flows = 0 /\ states = {}
    /\ identity = [b \in BrowserTabs |-> NoUser]
    /\ place = [b \in BrowserTabs |-> 0]
    /\ overtaken = {}

\* Every tab has been opened and has found nobody signed in.
SignInit == SignIdle /\ tasks = EmptyBag

----------------------------------------------------------------------------
\* resolveSession, resolveOidcSession: a session that is neither revoked nor expired.
Live(token) == token # 0 /\ logins[token].live

\* CurrentIdentityMiddleware: the session of the identity provider goes first.
Resolved(sent) ==
    IF Live(sent.oidc) THEN logins[sent.oidc].user
    ELSE IF Live(sent.local) THEN logins[sent.local].user
    ELSE NoUser

TaskOf(b, kinds) == \E t \in InFlight : t.tab = b /\ t.kind \in kinds

\* The page of tab b is left: nothing waits any more for what it asked for.
WithoutTab(b) ==
    [t \in {x \in InFlight : x.tab # b} |-> tasks[t]]
      (+) [u \in {[t EXCEPT !.tab = NoTab] : t \in {x \in InFlight : x.tab = b}} |->
             tasks[[u EXCEPT !.tab = b]]]

\* Some other tab is signing in or out.
Rivals(b) ==
    \/ \E t \in InFlight : t.tab # b /\ t.kind # "me"
    \/ \E other \in BrowserTabs \ {b} : place[other] # 0

\* A tab begins to sign in or out: the other tabs do not hear of it.
Overtakes(b) ==
    overtaken' = overtaken \cup (BrowserTabs \ {b}) \cup (IF Rivals(b) THEN {b} ELSE {})

\* The login form is shown; its buttons are not disabled by a request.
FormShown(b) == identity[b] = NoUser /\ place[b] = 0 /\ ~TaskOf(b, {"me"})

\* The page is opened, or loaded again: refresh asks who is signed in.
OpenPage(b) ==
    /\ Started
    /\ tasks' = WithoutTab(b) (+) One(SignTask("me", "asked", b, cookies))
    /\ identity' = [identity EXCEPT ![b] = NoUser]
    /\ place' = [place EXCEPT ![b] = 0]
    /\ overtaken' = IF Rivals(b) THEN overtaken ELSE overtaken \ {b}
    /\ UNCHANGED <<cookies, logins, flows, states, crossed>>

\* The form is submitted with the password of a user.
SubmitForm(b, u) ==
    /\ FormShown(b)
    /\ Started
    /\ Waits(SignTask("login", "asked", b, [user |-> u]))
    /\ Overtakes(b)
    /\ UNCHANGED <<cookies, logins, flows, states, identity, place, crossed>>

\* "Continue with Keycloak".
StartOidcLogin(b) ==
    /\ FormShown(b)
    /\ Started
    /\ Waits(SignTask("oidc", "asked", b, << >>))
    /\ Overtakes(b)
    /\ UNCHANGED <<cookies, logins, flows, states, identity, place, crossed>>

\* The identity provider sends the browser back; loading that page again
\* sends the same address with the cookies of then.
ReturnFromProvider(b) ==
    /\ place[b] # 0
    /\ Started
    /\ tasks' = WithoutTab(b) (+)
                One(SignTask("callback", "asked", b, [flow |-> place[b], state |-> cookies.state]))
    /\ Overtakes(b)
    /\ UNCHANGED <<cookies, logins, flows, states, identity, place, crossed>>

\* "Log out", which a request does not disable either.
LogOut(b) ==
    /\ identity[b] # NoUser
    /\ Started
    /\ Waits(SignTask("logout", "asked", b, cookies))
    /\ Overtakes(b)
    /\ UNCHANGED <<cookies, logins, flows, states, identity, place, crossed>>

----------------------------------------------------------------------------
\* login: a session row is created.
LoggedIn(t) ==
    /\ t.kind = "login" /\ t.step = "asked"
    /\ logins' = Append(logins, [user |-> t.data.user, flow |-> 0, live |-> TRUE])
    /\ GoesOn(t, [t EXCEPT !.step = "served",
                           !.data = [user |-> t.data.user, token |-> Len(logins')]])
    /\ UNCHANGED <<cookies, flows, states, identity, place, overtaken, crossed>>

\* buildAuthorizationUrl: the API remembers the flow under a key of its own.
StateKept(t) ==
    /\ t.kind = "oidc" /\ t.step = "asked"
    /\ flows' = flows + 1
    /\ states' = states \cup {flows'}
    /\ GoesOn(t, [t EXCEPT !.step = "served", !.data = [state |-> flows']])
    /\ UNCHANGED <<cookies, logins, identity, place, overtaken, crossed>>

\* Variant: the API keeps the flow for as long as it would keep any.
StateStays(t) ==
    /\ t.kind = "callback" /\ t.step = "asked"
    /\ t.data.state \in states
    /\ GoesOn(t, [t EXCEPT !.step = "grant"])
    /\ UNCHANGED <<signVars, crossed>>

\* authorizationCodeGrant: a flow the API remembers is forgotten, and only then
\* the provider is asked.
StateUsed(t) ==
    /\ t.kind = "callback" /\ t.step = "asked"
    /\ t.data.state \in states
    /\ states' = states \ {t.data.state}
    /\ GoesOn(t, [t EXCEPT !.step = "grant"])
    /\ UNCHANGED <<cookies, logins, flows, identity, place, overtaken, crossed>>

\* The provider grants a code that answers this flow, to whoever signed in
\* there, and createOidcSession stores the session.
Granted(t, u) ==
    /\ t.kind = "callback" /\ t.step = "grant"
    /\ t.data.flow = t.data.state
    /\ logins' = Append(logins, [user |-> u, flow |-> t.data.flow, live |-> TRUE])
    /\ GoesOn(t, [t EXCEPT !.step = "served", !.data = [token |-> Len(logins')]])
    /\ UNCHANGED <<cookies, flows, states, identity, place, overtaken, crossed>>

\* me: the middleware finds who the cookies stand for.
Identified(t) ==
    /\ t.kind = "me" /\ t.step = "asked"
    /\ GoesOn(t, [t EXCEPT !.step = "served", !.data = [user |-> Resolved(t.data)]])
    /\ UNCHANGED <<signVars, crossed>>

Revoked(token) ==
    [k \in DOMAIN logins |-> IF k = token THEN [logins[k] EXCEPT !.live = FALSE] ELSE logins[k]]

\* With a session ended, that of an earlier sign-in in the other way may be next.
MayTakeOver ==
    overtaken' = IF Resolved(cookies)' \in {Resolved(cookies), NoUser} THEN overtaken ELSE BrowserTabs

\* logout, which needs somebody signed in: the local session is revoked first,
\* then the other.
RevokedLocal(t) ==
    /\ t.kind = "logout" /\ t.step = "asked"
    /\ Resolved(t.data) # NoUser
    /\ logins' = Revoked(t.data.local)
    /\ GoesOn(t, [t EXCEPT !.step = "oidc"])
    /\ UNCHANGED <<cookies, flows, states, identity, place, crossed>>
    /\ MayTakeOver

RevokedOidc(t) ==
    /\ t.kind = "logout" /\ t.step = "oidc"
    /\ logins' = Revoked(t.data.oidc)
    /\ GoesOn(t, [t EXCEPT !.step = "served"])
    /\ UNCHANGED <<cookies, flows, states, identity, place, crossed>>
    /\ MayTakeOver

\* A session comes to its end, and the browser drops the cookie with it; or
\* the API forgets a flow, which is too old or was lost with the process.
Expire(k) ==
    /\ logins[k].live
    /\ logins' = Revoked(k)
    /\ cookies' = [c \in DOMAIN cookies |-> IF c # "state" /\ cookies[c] = k THEN 0 ELSE cookies[c]]
    /\ MayTakeOver
    /\ UNCHANGED <<flows, states, identity, place, tasks, requests, crossed>>

Forget(f) ==
    /\ states' = states \ {f}
    /\ UNCHANGED <<cookies, logins, flows, identity, place, overtaken, tasks, requests, crossed>>

----------------------------------------------------------------------------
\* Answers find the tab that asked, unless its page was left: then they are
\* dropped, cookies included.
ToTab(t, kind) == t.kind = kind /\ t.step = "served" /\ t.tab # NoTab

LoginAnswered(t) ==
    /\ ToTab(t, "login")
    /\ cookies' = [cookies EXCEPT !.local = t.data.token]
    /\ identity' = [identity EXCEPT ![t.tab] = t.data.user]
    /\ Ended(t)
    /\ UNCHANGED <<logins, flows, states, place, overtaken, crossed>>

\* The tab leaves for the provider, and its page with it.
ProviderOpened(t) ==
    /\ ToTab(t, "oidc")
    /\ cookies' = [cookies EXCEPT !.state = t.data.state]
    /\ place' = [place EXCEPT ![t.tab] = t.data.state]
    /\ identity' = [identity EXCEPT ![t.tab] = NoUser]
    /\ tasks' = WithoutTab(t.tab) (-) One([t EXCEPT !.tab = NoTab])
    /\ UNCHANGED <<logins, flows, states, overtaken, crossed>>

\* The callback answers with a redirection to the console.
CallbackAnswered(t) ==
    /\ ToTab(t, "callback")
    /\ cookies' = [cookies EXCEPT !.oidc = t.data.token, !.state = 0]
    /\ place' = [place EXCEPT ![t.tab] = 0]
    /\ overtaken' = IF Rivals(t.tab) THEN overtaken ELSE overtaken \ {t.tab}
    /\ GoesOn(t, SignTask("me", "asked", t.tab, cookies'))
    /\ UNCHANGED <<logins, flows, states, identity, crossed>>

MeAnswered(t) ==
    /\ ToTab(t, "me")
    /\ identity' = [identity EXCEPT ![t.tab] = t.data.user]
    /\ Ended(t)
    /\ UNCHANGED <<cookies, logins, flows, states, place, overtaken, crossed>>

\* Variant: a log-out takes back the cookie of the provider's session only.
LocalCookieStays(t) ==
    /\ ToTab(t, "logout")
    /\ cookies' = [cookies EXCEPT !.oidc = 0]
    /\ identity' = [identity EXCEPT ![t.tab] = NoUser]
    /\ Ended(t)
    /\ UNCHANGED <<logins, flows, states, place, overtaken, crossed>>

LogoutAnswered(t) ==
    /\ ToTab(t, "logout")
    /\ cookies' = [cookies EXCEPT !.local = 0, !.oidc = 0]
    /\ identity' = [identity EXCEPT ![t.tab] = NoUser]
    /\ Ended(t)
    /\ UNCHANGED <<logins, flows, states, place, overtaken, crossed>>

\* A request is refused, fails or its answer is lost or dropped.  The form and
\* the menu stay as they are; refresh shows the form to whoever is signed in.
SignFails(t) ==
    /\ overtaken' = overtaken \cup {b \in BrowserTabs : t.kind = "me" /\ t.tab = b}
    /\ Ended(t)
    /\ UNCHANGED <<cookies, logins, flows, states, identity, place, crossed>>

SignNext ==
    \/ \E b \in BrowserTabs :
          \/ OpenPage(b) \/ StartOidcLogin(b) \/ ReturnFromProvider(b) \/ LogOut(b)
          \/ \E u \in Users : SubmitForm(b, u)
    \/ \E k \in DOMAIN logins : Expire(k)
    \/ \E f \in states : Forget(f)
    \/ /\ UNCHANGED requests
       /\ \E t \in InFlight :
             \/ LoggedIn(t) \/ StateKept(t) \/ StateUsed(t) \/ Identified(t)
             \/ \E u \in Users : Granted(t, u)
             \/ RevokedLocal(t) \/ RevokedOidc(t)
             \/ LoginAnswered(t) \/ ProviderOpened(t) \/ CallbackAnswered(t)
             \/ MeAnswered(t) \/ LogoutAnswered(t) \/ SignFails(t)

----------------------------------------------------------------------------
SignTypeOK ==
    /\ TabTypeOK
    /\ cookies \in [local : 0 .. Len(logins), oidc : 0 .. Len(logins), state : 0 .. flows]
    /\ \A k \in DOMAIN logins : logins[k] \in [user : Users, flow : 0 .. flows, live : BOOLEAN]
    /\ states \subseteq 1 .. flows
    /\ identity \in [BrowserTabs -> Users \cup {NoUser}]
    /\ place \in [BrowserTabs -> 0 .. flows]
    /\ overtaken \subseteq BrowserTabs

\* A sign-in begun at the identity provider ends in one session at most, though
\* its callback may be loaded again, arrive late or meet that of another tab
\* (authorizationCodeGrant), and whether or not the provider takes a code twice.
OneSessionPerFlow ==
    \A i, j \in DOMAIN logins :
      i # j /\ logins[i].flow # 0 => logins[i].flow # logins[j].flow

\* A tab that waits for nothing shows whoever its cookies stand for, or the
\* user of a session that has ended, through every order of answers, failure,
\* expiry and log-out: unless another tab has signed in or out since its page
\* was loaded, the session of an earlier sign-in took over from one that ended,
\* or the page could not ask (AuthGate.tsx against the middleware).
TabsActAsShown ==
    \A b \in BrowserTabs \ overtaken :
      place[b] = 0 /\ (\A t \in InFlight : t.tab # b) =>
        Resolved(cookies) \in {identity[b], NoUser}
=============================================================================
