------------------------------- MODULE Session -------------------------------
(***************************************************************************)
(* Signing in and out of the web shop, from one tab of the browser to the  *)
(* auth service: the cookies with the two tokens (services/auth.ts,        *)
(* middlewares/auth-guard.ts), the user the shop shows                     *)
(* (contexts/auth.context.tsx) and the requests between them               *)
(* (hooks/api/auth.ts).                                                    *)
(*                                                                         *)
(* Both cookies are always set together.  The access token lives 5 minutes *)
(* and the refresh token 15, each cookie a little longer than its token:   *)
(* with time the pair is fresh, then stale (expired access token), then    *)
(* rolling (only the refresh token), then lapsing, then gone.              *)
(***************************************************************************)
EXTENDS Naturals

CONSTANTS Users, NoUser

ASSUME SessionAssumption == NoUser \notin Users

Someone == Users \cup {NoUser}
Ages == <<"fresh", "stale", "rolling", "lapsing", "gone">>
Paths == {"auth", "dashboard", "shop"}

VARIABLES
  accounts,             \* registered users
  age, owner,           \* the cookies: place in Ages, and whose they are
  path, user, splash,   \* the page, the user shown, isFetching
  due,                  \* the effect on user and path has yet to run
  cached,               \* the last profile the query received
  fetch,                \* the profile request
  awaited,              \* an effect waits for it
  strays,               \* cancelled requests whose answer brings new cookies
  entering, admitted,   \* a login or registration under way, and its verdict
  leaving,              \* a logout under way: "no", "accepted" or "refused"
  \* History:
  signedIn,             \* the user who last signed in here and has not signed out
  fetched               \* users whose profile was received

cookies == <<age, owner>>
shown == <<path, user, splash, due>>
query == <<cached, fetch, awaited, strays, fetched>>
mutations == <<entering, admitted, leaving>>
sessionVars == <<accounts, cookies, shown, query, mutations, signedIn>>

Valid == Ages[age] \in {"fresh", "rolling"}

\* The guard: a live access token, or else a live refresh token, which is
\* answered with two new cookies.  An expired access token is refused although
\* the refresh token is alive.
roleGuard == [for |-> IF Valid THEN owner ELSE NoUser, rolls |-> Ages[age] = "rolling"]

Request(n, answer) ==
  [status |-> "sent", attempt |-> n, for |-> answer.for, rolls |-> answer.rolls]

NoRequest == [status |-> "idle", attempt |-> 0, for |-> NoUser, rolls |-> FALSE]

SessionInit ==
  /\ accounts \in SUBSET Users
  /\ \/ age = 5 /\ owner = NoUser
     \/ age \in 1..4 /\ owner \in accounts
  /\ path \in Paths /\ user = NoUser /\ splash = TRUE /\ due = TRUE
  /\ cached = NoUser /\ fetch = NoRequest /\ awaited = FALSE /\ strays = {}
  /\ entering = NoUser /\ admitted = FALSE /\ leaving = "no"
  /\ signedIn = NoUser /\ fetched = {}

SetCookies(u) == age' = 1 /\ owner' = u
Show(u, p) == user' = u /\ path' = p /\ due' = (due \/ u # user \/ p # path)

\* Tokens and cookies expire.
lapse ==
  /\ age < 5
  /\ age' = age + 1
  /\ owner' = IF age = 4 THEN NoUser ELSE owner
  /\ UNCHANGED <<accounts, shown, query, mutations, signedIn>>
-----------------------------------------------------------------------------
(* The effect asks for the profile while no user is shown.                 *)
\* refetch() replaces a request under way if a profile was received before,
\* and joins it otherwise.
Refetch ==
  /\ awaited' = TRUE
  /\ fetch' = IF fetch.status # "idle" /\ cached = NoUser THEN fetch ELSE Request(1, roleGuard)
  /\ strays' = IF fetch.status = "sent" /\ fetch.rolls /\ cached # NoUser
               THEN strays \cup {fetch.for} ELSE strays

effect ==
  /\ due /\ due' = FALSE
  /\ IF user = NoUser THEN Refetch ELSE UNCHANGED <<fetch, awaited, strays>>
  /\ UNCHANGED <<accounts, cookies, path, user, splash, cached, fetched, mutations, signedIn>>

\* The query fetches on its own when the window gets the focus or the profile
\* page opens; the user shown does not follow.
refocus ==
  /\ fetch.status = "idle" /\ ~splash
  /\ fetch' = Request(1, roleGuard)
  /\ UNCHANGED <<accounts, cookies, shown, cached, awaited, strays, fetched, mutations, signedIn>>

\* 200 with the profile, and perhaps with new cookies.
profileReceived ==
  /\ fetch.status = "sent" /\ fetch.for # NoUser
  /\ cached' = fetch.for /\ fetched' = fetched \cup {fetch.for}
  /\ IF awaited THEN Show(fetch.for, path) /\ splash' = FALSE
                ELSE UNCHANGED shown
  /\ IF fetch.rolls THEN SetCookies(fetch.for) ELSE UNCHANGED cookies
  /\ fetch' = NoRequest /\ awaited' = FALSE
  /\ UNCHANGED <<accounts, strays, mutations, signedIn>>

Wrong_profileFailed ==
  /\ fetch.status = "sent"
  /\ fetch' = [fetch EXCEPT !.status = "waiting"]
  /\ UNCHANGED <<accounts, cookies, shown, cached, awaited, strays, fetched, mutations, signedIn>>

\* An error: 401, 429, a timeout of the gateway.  The first is retried.  After
\* the second refetch() yields the profile received last, if there is one.
profileFailed ==
  /\ fetch.status = "sent"
  /\ IF fetch.attempt = 1
       THEN /\ fetch' = [fetch EXCEPT !.status = "waiting"]
            /\ UNCHANGED <<shown, awaited>>
       ELSE /\ fetch' = NoRequest /\ awaited' = FALSE
            /\ IF awaited
                 THEN /\ Show(IF cached # NoUser THEN cached ELSE user, path)
                      /\ splash' = FALSE
                 ELSE UNCHANGED shown
  /\ UNCHANGED <<accounts, cookies, cached, strays, fetched, mutations, signedIn>>

retry ==
  /\ fetch.status = "waiting"
  /\ fetch' = Request(2, roleGuard)
  /\ UNCHANGED <<accounts, cookies, shown, cached, awaited, strays, fetched, mutations, signedIn>>

\* The browser takes the cookies of an answer nobody waits for.
strayArrives(u) ==
  /\ strays' = strays \ {u}
  /\ SetCookies(u)
  /\ UNCHANGED <<accounts, shown, cached, fetch, awaited, fetched, mutations, signedIn>>
-----------------------------------------------------------------------------
(* What the customer does; the pages are there once the splash is gone.    *)
navigate(p) ==
  /\ ~splash /\ p # path
  /\ Show(user, p)
  /\ UNCHANGED <<accounts, cookies, splash, query, mutations, signedIn>>

\* The second effect.
redirect ==
  /\ ~splash
  /\ \/ path = "auth" /\ user # NoUser /\ Show(user, "shop")
     \/ path = "dashboard" /\ user = NoUser /\ Show(user, "auth")
  /\ UNCHANGED <<accounts, cookies, splash, query, mutations, signedIn>>

Enter(u, verdict) ==
  /\ path = "auth" /\ ~splash /\ entering = NoUser
  /\ entering' = u /\ admitted' = verdict
  /\ UNCHANGED <<cookies, shown, query, leaving, signedIn>>

\* The service finds the account and compares the password.
loginService(u) == {correct /\ u \in accounts : correct \in BOOLEAN}

\* The lookup and the unique index on the email both refuse a second account.
registerService(u) == u \notin accounts

login(u) ==
  /\ \E verdict \in loginService(u) : Enter(u, verdict)
  /\ UNCHANGED accounts

register(u) ==
  /\ Enter(u, registerService(u))
  /\ accounts' = accounts \cup {u}

\* The answer with the cookies.
entered ==
  /\ admitted
  /\ SetCookies(entering) /\ Show(entering, "shop")
  /\ signedIn' = entering
  /\ entering' = NoUser /\ admitted' = FALSE
  /\ UNCHANGED <<accounts, splash, query, leaving>>

\* Refused, or the answer is lost.
notEntered ==
  /\ entering # NoUser
  /\ entering' = NoUser /\ admitted' = FALSE
  /\ UNCHANGED <<accounts, cookies, shown, query, leaving, signedIn>>

\* Logout passes the guard as well.
logout ==
  /\ ~splash /\ user # NoUser /\ leaving = "no"
  /\ leaving' = IF Valid THEN "accepted" ELSE "refused"
  /\ UNCHANGED <<accounts, cookies, shown, query, entering, admitted, signedIn>>

Wrong_loggedOut ==
  /\ leaving = "accepted" /\ leaving' = "no"
  /\ age' = 5 /\ owner' = NoUser
  /\ signedIn' = NoUser
  /\ UNCHANGED <<accounts, shown, query, entering, admitted>>

\* The answer deletes the cookies, and the shop shows nobody; 50 ms later it goes
\* to the login page, a navigate of its own.
loggedOut ==
  /\ leaving = "accepted" /\ leaving' = "no"
  /\ age' = 5 /\ owner' = NoUser
  /\ Show(NoUser, path)
  /\ signedIn' = NoUser
  /\ UNCHANGED <<accounts, splash, query, entering, admitted>>

\* 401, or no answer: the shop goes on showing the user.
logoutFailed ==
  /\ leaving # "no" /\ leaving' = "no"
  /\ UNCHANGED <<accounts, cookies, shown, query, entering, admitted, signedIn>>

Answered == profileReceived \/ profileFailed

SessionNext ==
  \/ lapse \/ effect \/ refocus \/ Answered \/ retry
  \/ \E u \in strays : strayArrives(u)
  \/ \E p \in Paths : navigate(p)
  \/ \E u \in Users : login(u) \/ register(u)
  \/ redirect \/ entered \/ notEntered \/ logout \/ loggedOut \/ logoutFailed

SessionSpec == SessionInit /\ [][SessionNext]_sessionVars

\* Effects and timers run, and the gateway answers every request in the end.
SessionFairSpec == SessionSpec /\ WF_sessionVars(effect) /\ WF_sessionVars(Answered) /\ WF_sessionVars(retry)
-----------------------------------------------------------------------------
SessionTypeOK ==
  /\ accounts \subseteq Users
  /\ age \in 1..5 /\ owner \in Someone
  /\ path \in Paths /\ user \in Someone /\ splash \in BOOLEAN /\ due \in BOOLEAN
  /\ cached \in Someone /\ awaited \in BOOLEAN
  /\ fetch \in [status : {"idle", "sent", "waiting"}, attempt : 0..2,
                for : Someone, rolls : BOOLEAN]
  /\ strays \subseteq Users /\ fetched \subseteq Users
  /\ entering \in Someone /\ admitted \in BOOLEAN
  /\ leaving \in {"no", "accepted", "refused"}
  /\ signedIn \in Someone

\* The user shown is the one who signed in here, or one whose profile this tab
\* received: whoever leaves before the profile was ever received is not shown
\* again, in whatever order the answers arrive.
ShownIsKnown == user \in {NoUser, signedIn} \cup fetched

\* The splash screen goes away, whether the profile is received, refused or
\* times out.
SplashEnds == <>(~splash)

=============================================================================
