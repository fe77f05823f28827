--------------------------------- MODULE Tab ---------------------------------
(***************************************************************************)
(* One browser tab and its session: the access token and the single-flight *)
(* refresh of web/src/lib/api.ts, the account shown by auth-context.tsx,   *)
(* and the list of conversations that layout.tsx mounts for it, under a    *)
(* user who signs in, signs out and reloads while calls are in flight.     *)
(* JavaScript runs one callback at a time, and a callback is one step.     *)
(*                                                                         *)
(* The server is what module SessionChain says that Sessions implements:   *)
(* a family is taken by a request and settles, or ends.  A token of it is  *)
(* known by its generation: `claimed' of them have been exchanged.  An     *)
(* access token is known by its user, and may have expired by the time a   *)
(* request arrives with it.  A cookie is set when its response arrives.    *)
(*                                                                         *)
(* An operator named Slip<Name> is <Name> as a plausible mistake would     *)
(* have it; no specification uses it, and some property must notice it.    *)
(***************************************************************************)
EXTENDS Integers

CONSTANTS
    Users, NoUser,
    Families, NoFamily,
    MaxToken,    \* bound: refresh tokens exchanged in a family
    MaxReload,   \* bound: reloads of the page
    Faults       \* "network": a response is lost; "server": a rotation fails

ASSUME TabAssumption ==
    /\ NoUser \notin Users /\ NoFamily \notin Families
    /\ MaxToken \in Nat /\ MaxReload \in Nat
    /\ Faults \subseteq {"network", "server"}

VARIABLES
    state, holder,  \* external: the sessions, as in SessionChain
    claimed,        \* external: how many tokens of a family were exchanged
    gone,           \* external: tokens that a logout deleted
    burnt,          \* external: the families revoked for a replay
    jar,            \* the refresh cookie
    token,          \* accessToken, by its user
    refresh,        \* the calls of doRefresh: `refreshing' is one of them
    work,           \* the other calls under way
    logout,         \* the call of logout
    status, user,   \* the state of AuthProvider
    shown,          \* whose conversations the sidebar lists
    reloads,
    crossed,        \* history: a sign-in or sign-out met a boot or a refresh
    excused         \* history: a successor of a token never arrived

server == <<state, holder, claimed, gone, burnt>>
screen == <<status, user, shown>>
vars == <<server, jar, token, refresh, work, logout, screen, reloads, crossed,
          excused>>

Chain == INSTANCE SessionChain

Cookie(f, n) == [family |-> f, number |-> n]
NoCookie     == Cookie(NoFamily, 0)
Cookies      == [family : Families \cup {NoFamily}, number : 0..MaxToken]

\* boot and login end with a call of me, list is the sidebar's call, and other
\* any call that the pages make.
Callers == {"boot", "login", "list", "other"}

Flights == 1..2   \* one more than the code ever uses

Flight(p, ck) == [at |-> p, cookie |-> ck]
Call(p, u)    == [at |-> p, as |-> u, family |-> NoFamily]
NoFlight == Flight("none", NoCookie)
NoCall   == Call("idle", NoUser)

TypeOK ==
    /\ state \in [Families -> Chain!States]
    /\ holder \in [Families -> Users \cup {NoUser}]
    /\ claimed \in [Families -> 0..MaxToken]
    /\ gone \subseteq Cookies /\ burnt \subseteq Families
    /\ jar \in Cookies
    /\ token \in Users \cup {NoUser}
    /\ refresh \in [Flights -> [at : {"none", "asked", "taken", "granted", "refused"},
                                cookie : Cookies]]
    /\ work \in [Callers -> [at : {"idle", "popup", "post", "taken", "granted",
                                   "postwaits", "repost", "first", "sent",
                                   "waits", "resent"},
                             as : Users \cup {NoUser},
                             family : Families \cup {NoFamily}]]
    /\ logout \in [at : {"none", "asked", "answered"}, cookie : Cookies]
    /\ status \in {"loading", "authed", "anon"}
    /\ user \in IF status = "authed" THEN Users ELSE Users \cup {NoUser}
    /\ shown \in Users \cup {NoUser}
    /\ reloads \in 0..MaxReload
    /\ crossed \in BOOLEAN /\ excused \in BOOLEAN

At(w, p)  == work[w].at = p
Flying(s) == refresh[s].at # "none"

\* The boot's refreshAccess is the first call of a page.
Booting    == [w \in Callers |-> IF w = "boot" THEN Call("first", NoUser) ELSE NoCall]
Asking(ck) == [s \in Flights |-> IF s = 1 THEN Flight("asked", ck) ELSE NoFlight]

Init ==
    /\ Chain!CInit
    /\ claimed = [f \in Families |-> 0]
    /\ gone = {} /\ burnt = {}
    /\ jar = NoCookie
    /\ token = NoUser
    /\ refresh = Asking(jar)
    /\ work = Booting
    /\ logout = NoFlight
    /\ status = "loading" /\ user = NoUser /\ shown = NoUser
    /\ reloads = 0
    /\ crossed = FALSE /\ excused = FALSE

-----------------------------------------------------------------------------
(* The server.                                                             *)

\* Slip: the claim does not ask whether the token has expired.
SlipLive(ck) == ck # NoCookie /\ ck.number = claimed[ck.family]

Live(ck) == /\ ck # NoCookie
            /\ state[ck.family] = "live" /\ ck.number = claimed[ck.family]

\* The row is there, and revoked: it was claimed.
Replayed(ck) == ck # NoCookie /\ ck \notin gone /\ ck.number < claimed[ck.family]

Becomes(f, st) == state' = [state EXCEPT ![f] = st]
Burns(ck) ==
    /\ burnt' = burnt \cup {ck.family}
    /\ IF state[ck.family] = "live" THEN Becomes(ck.family, "ended")
                                    ELSE UNCHANGED state

\* Refresh, as far as the claim.
RefreshTaken(s) ==
    LET ck == refresh[s].cookie
    IN  /\ refresh[s].at = "asked" /\ Live(ck)
        /\ claimed[ck.family] < MaxToken
        /\ claimed' = [claimed EXCEPT ![ck.family] = @ + 1]
        /\ Becomes(ck.family, "rotating")
        /\ refresh' = [refresh EXCEPT ![s].at = "taken"]
        /\ UNCHANGED <<holder, gone, burnt>>

RefreshGranted(s) ==
    LET f == refresh[s].cookie.family
    IN  /\ refresh[s].at = "taken"
        /\ Becomes(f, "live")
        /\ refresh' = [refresh EXCEPT ![s] = Flight("granted", Cookie(f, claimed[f]))]
        /\ UNCHANGED <<holder, claimed, gone, burnt>>

RefreshRefused(s) ==
    LET ck == refresh[s].cookie
    IN  /\ refresh[s].at = "asked" /\ ~Live(ck)
        /\ IF Replayed(ck) THEN Burns(ck) ELSE UNCHANGED <<state, burnt>>
        /\ refresh' = [refresh EXCEPT ![s].at = "refused"]
        /\ UNCHANGED <<holder, claimed, gone>>

\* The insert fails after the claim.
RefreshBreaks(s) ==
    /\ "server" \in Faults
    /\ refresh[s].at = "taken"
    /\ Becomes(refresh[s].cookie.family, "ended")
    /\ refresh' = [refresh EXCEPT ![s].at = "refused"]
    /\ excused' = TRUE
    /\ UNCHANGED <<holder, claimed, gone, burnt, jar, token, work, logout, screen,
                   reloads>>

\* What the server makes of a refresh whose answer nobody awaits any more.  One
\* that arrives after its caller has gone is as one that arrives before.
RefreshUnheard(s) ==
    /\ IF refresh[s].at = "taken"
       THEN \E st \in {"live", "ended"} : Becomes(refresh[s].cookie.family, st)
       ELSE UNCHANGED state
    /\ UNCHANGED <<holder, claimed, gone, burnt>>

SessionExpires(f) ==
    /\ state[f] = "live"
    /\ Becomes(f, "ended")
    /\ UNCHANGED <<holder, claimed, gone, burnt, refresh>>

-----------------------------------------------------------------------------
(* What the callbacks are made of.                                         *)

\* Slip: every caller that needs a refresh starts one.
SlipRefreshAccess == IF Flying(1) THEN [refresh EXCEPT ![2] = Flight("asked", jar)]
                                  ELSE [refresh EXCEPT ![1] = Flight("asked", jar)]

\* refreshAccess: a caller joins the refresh that is under way, if there is one.
RefreshAccess == IF \E s \in Flights : Flying(s)
                 THEN refresh
                 ELSE [refresh EXCEPT ![1] = Flight("asked", jar)]

Waiting(w) == work[w].at \in {"first", "waits", "postwaits"}

\* Where a caller goes on with the new access token, and where it throws.
Resumed(w, u) ==
    IF At(w, "first") THEN Call("sent", u)
    ELSE IF At(w, "waits") THEN Call("resent", u)
    ELSE IF At(w, "postwaits") THEN [work[w] EXCEPT !.at = "repost"]
    ELSE work[w]
Rejected(w) == IF Waiting(w) THEN NoCall ELSE work[w]

\* The account is shown; the app's layout mounts the sidebar for it, or drops
\* it, and a list that arrives for a dropped sidebar is ignored; what else its
\* call may still do, a refresh, `other' does.
Screen(st, u, wk) ==
    /\ status' = st /\ user' = u
    /\ shown' = IF st = "authed" /\ status = "authed" THEN shown ELSE NoUser
    /\ work' = IF st # "authed" THEN [wk EXCEPT !["list"] = NoCall]
               ELSE IF status = "authed" THEN wk
               ELSE [wk EXCEPT !["list"] = Call("sent", token')]

SameSession == UNCHANGED <<jar, token, logout, reloads, excused>>

-----------------------------------------------------------------------------
(* Refresh, in the browser.                                                *)

RefreshArrives(s) ==
    /\ refresh[s].at = "granted"
    /\ jar' = refresh[s].cookie
    /\ token' = holder[refresh[s].cookie.family]
    /\ refresh' = [refresh EXCEPT ![s] = NoFlight]
    /\ work' = [w \in Callers |-> Resumed(w, token')]
    /\ UNCHANGED <<server, logout, screen, reloads, excused>>

\* Slip: the account is forgotten and still taken for signed in.
SlipRefreshFails(s) ==
    /\ refresh[s].at = "refused"
    /\ token' = NoUser
    /\ refresh' = [refresh EXCEPT ![s] = NoFlight]
    /\ Screen(status, NoUser, [w \in Callers |-> Rejected(w)])
    /\ UNCHANGED <<server, jar, logout, reloads, excused>>

\* Not ok: clearSession and onUnauthorized; then the callers throw.
RefreshFails(s) ==
    /\ refresh[s].at = "refused"
    /\ token' = NoUser
    /\ refresh' = [refresh EXCEPT ![s] = NoFlight]
    /\ Screen("anon", NoUser, [w \in Callers |-> Rejected(w)])
    /\ UNCHANGED <<server, jar, logout, reloads, excused>>

\* Slip: the boot does not catch.
SlipRefreshLost(s) ==
    /\ "network" \in Faults
    /\ Flying(s)
    /\ RefreshUnheard(s)
    /\ refresh' = [refresh EXCEPT ![s] = NoFlight]
    /\ excused' = TRUE
    /\ work' = [w \in Callers |-> Rejected(w)]
    /\ UNCHANGED <<jar, token, logout, reloads, screen>>

\* fetch throws: only the boot makes something of it.
RefreshLost(s) ==
    /\ "network" \in Faults
    /\ Flying(s)
    /\ RefreshUnheard(s)
    /\ refresh' = [refresh EXCEPT ![s] = NoFlight]
    /\ excused' = TRUE
    /\ UNCHANGED <<jar, token, logout, reloads>>
    /\ Screen(IF Waiting("boot") THEN "anon" ELSE status, user,
              [w \in Callers |-> Rejected(w)])

-----------------------------------------------------------------------------
(* request: me for the boot and for a login, the sidebar's list, any other. *)

Finished(w) == [work EXCEPT ![w] = NoCall]

CallAnswered(w) ==
    LET u == work[w].as
    IN  /\ At(w, "sent") \/ At(w, "resent")
        /\ u # NoUser
        /\ SameSession
        /\ IF w \in {"boot", "login"} THEN Screen("authed", u, Finished(w))
           ELSE /\ work' = Finished(w)
                /\ shown' = IF w = "list" THEN u ELSE shown
                /\ UNCHANGED <<status, user>>
        /\ UNCHANGED <<server, refresh>>

CallFailed(w) ==
    /\ SameSession
    /\ Screen(IF w = "boot" THEN "anon" ELSE status, user, Finished(w))

\* 401: one refresh and one more try.
CallDenied(w) ==
    /\ \/ /\ At(w, "sent")
          /\ refresh' = RefreshAccess
          /\ work' = [work EXCEPT ![w] = Call("waits", NoUser)]
          /\ SameSession
          /\ UNCHANGED screen
       \/ At(w, "resent") /\ CallFailed(w) /\ UNCHANGED refresh
    /\ UNCHANGED server

CallLost(w) ==
    /\ "network" \in Faults
    /\ At(w, "sent") \/ At(w, "resent")
    /\ CallFailed(w)
    /\ UNCHANGED <<server, refresh>>

\* A page that is shown calls for something.
OtherCall ==
    /\ status = "authed" /\ At("other", "idle")
    /\ work' = [work EXCEPT !["other"] = Call("sent", token)]
    /\ SameSession
    /\ UNCHANGED <<server, refresh, screen>>

-----------------------------------------------------------------------------
(* Login: Google's popup, the call with its code, and me.                  *)

Login(wk) == work' = [work EXCEPT !["login"] = wk]
Posting == {"post", "repost"}

\* The login page has the button while the boot goes on and without a user.
Popup(u) ==
    /\ status # "authed" /\ At("login", "idle")
    /\ Login(Call("popup", u))
    /\ SameSession
    /\ UNCHANGED <<server, refresh, screen>>

Post ==
    /\ At("login", "popup")
    /\ Login([work["login"] EXCEPT !.at = "post"])
    /\ SameSession
    /\ UNCHANGED <<server, refresh, screen>>

PostTaken(f) ==
    /\ work["login"].at \in Posting
    /\ state[f] = "unborn"
    /\ Becomes(f, "rotating")
    /\ holder' = [holder EXCEPT ![f] = work["login"].as]
    /\ Login([work["login"] EXCEPT !.at = "taken", !.family = f])
    /\ SameSession
    /\ UNCHANGED <<claimed, gone, burnt, refresh, screen>>

PostGranted ==
    /\ At("login", "taken")
    /\ Becomes(work["login"].family, "live")
    /\ Login([work["login"] EXCEPT !.at = "granted"])
    /\ SameSession
    /\ UNCHANGED <<holder, claimed, gone, burnt, refresh, screen>>

\* Slip: a cookie that is there stays before the new one.
SlipPostArrives ==
    /\ At("login", "granted")
    /\ jar' = IF jar = NoCookie THEN Cookie(work["login"].family, 0) ELSE jar
    /\ token' = work["login"].as
    /\ Login(Call("sent", token'))
    /\ UNCHANGED <<server, refresh, logout, screen, reloads, excused>>

PostArrives ==
    /\ At("login", "granted")
    /\ jar' = Cookie(work["login"].family, 0)
    /\ token' = work["login"].as
    /\ Login(Call("sent", token'))
    /\ UNCHANGED <<server, refresh, logout, screen, reloads, excused>>

\* 401 from Google's code is taken for an access token that has expired.
PostRefused ==
    /\ \/ /\ At("login", "post")
          /\ refresh' = RefreshAccess
          /\ Login([work["login"] EXCEPT !.at = "postwaits"])
       \/ /\ work["login"].at \in Posting
          /\ Login(NoCall)
          /\ UNCHANGED refresh
    /\ SameSession
    /\ UNCHANGED <<server, screen>>

\* The insert fails, or the answer is lost before or after it.
PostFails ==
    /\ \/ /\ At("login", "taken") /\ Faults # {}
          /\ \/ Becomes(work["login"].family, "ended")
             \/ "network" \in Faults /\ Becomes(work["login"].family, "live")
       \/ /\ At("login", "granted") /\ "network" \in Faults
          /\ UNCHANGED state
    /\ Login(NoCall)
    /\ SameSession
    /\ UNCHANGED <<holder, claimed, gone, burnt, refresh, screen>>

-----------------------------------------------------------------------------
(* Logout and reload.                                                      *)

LogoutAsk ==
    /\ status = "authed" /\ logout.at = "none"
    /\ logout' = Flight("asked", jar)
    /\ UNCHANGED <<server, jar, token, refresh, work, screen, reloads, excused>>

LogoutServed ==
    LET ck == logout.cookie
    IN  /\ logout.at = "asked"
        /\ logout' = [logout EXCEPT !.at = "answered"]
        /\ gone' = IF ck = NoCookie THEN gone ELSE gone \cup {ck}
        /\ IF Live(ck) THEN Becomes(ck.family, "ended") ELSE UNCHANGED state
        /\ UNCHANGED <<holder, claimed, burnt, jar, token, refresh, work, screen,
                       reloads, excused>>

LogoutArrives ==
    /\ logout.at = "answered"
    /\ logout' = NoFlight
    /\ jar' = NoCookie
    /\ token' = NoUser
    /\ Screen("anon", NoUser, work)
    /\ UNCHANGED <<server, refresh, reloads, excused>>

\* fetch throws: clearSession runs, and what follows it does not.
LogoutLost ==
    /\ "network" \in Faults /\ logout.at # "none"
    /\ logout' = NoFlight
    /\ token' = NoUser
    /\ UNCHANGED <<server, jar, refresh, work, screen, reloads, excused>>

Rotated == {g \in [Families -> Chain!States] :
              \A f \in Families :
                 IF state[f] = "rotating" THEN g[f] \in {"live", "ended"}
                                          ELSE g[f] = state[f]}

\* The page is loaded anew; calls in flight are cut, and what the server had
\* begun it ends or drops.
Reload ==
    /\ reloads < MaxReload
    /\ reloads' = reloads + 1
    /\ state' \in Rotated
    /\ token' = NoUser
    /\ refresh' = Asking(jar)
    /\ work' = Booting
    /\ logout' = NoFlight
    /\ status' = "loading" /\ user' = NoUser /\ shown' = NoUser
    /\ excused' = (excused \/ \E s \in Flights : Flying(s))
    /\ UNCHANGED <<holder, claimed, gone, burnt, jar>>

-----------------------------------------------------------------------------
OfServer(A) == A /\ UNCHANGED <<jar, token, work, logout, screen, reloads, excused>>
RefreshServed(s) == OfServer(RefreshTaken(s) \/ RefreshGranted(s) \/ RefreshRefused(s))

\* A login or a logout goes on beside a boot or a refresh.
Crossing ==
    /\ work["login"].at \in {"popup", "post", "taken", "granted", "repost"}
          \/ logout.at # "none"
    /\ ~At("boot", "idle") \/ \E s \in Flights : Flying(s)

Noted(A) == A /\ crossed' = (crossed \/ Crossing')

Next ==
    \/ \E s \in Flights : \/ Noted(RefreshServed(s)) \/ Noted(RefreshBreaks(s))
                          \/ Noted(RefreshArrives(s)) \/ Noted(RefreshFails(s))
                          \/ Noted(RefreshLost(s))
    \/ \E w \in Callers : \/ Noted(CallAnswered(w)) \/ Noted(CallDenied(w))
                          \/ Noted(CallLost(w))
    \/ Noted(OtherCall)
    \/ \E u \in Users : Noted(Popup(u))
    \/ \E f \in Families : Noted(PostTaken(f)) \/ Noted(OfServer(SessionExpires(f)))
    \/ Noted(Post) \/ Noted(PostGranted) \/ Noted(PostArrives)
    \/ Noted(PostRefused) \/ Noted(PostFails)
    \/ Noted(LogoutAsk) \/ Noted(LogoutServed)
    \/ Noted(LogoutArrives) \/ Noted(LogoutLost)
    \/ Noted(Reload)

Spec == Init /\ [][Next]_vars

-----------------------------------------------------------------------------
\* The server that the tab is modelled against is one that Sessions implements.
ServerIsSessionChain == Chain!CSpec

\* However calls, logins, logouts and boots overlap, a tab presents each of
\* its tokens once, and is never taken for a thief, as long as the successors
\* of its tokens arrive (api.ts:33; auth_handlers.go:42).
NoReplay == ~excused => burnt = {}

\* Calls are made for the account that is shown, and the conversations listed
\* are those of the same one, unless a login or a logout crossed a boot or a
\* refresh (api.ts:60, 76; auth-context.tsx:54; conversations-context.tsx:37).
OneAccount ==
    ~crossed => /\ status = "authed" => token \in {NoUser, user}
                /\ shown # NoUser => shown = user

\* Whoever waits for a refresh waits for one that is under way, and a page
\* that is loading has its boot under way, whatever is lost or refused
\* (api.ts:33, 86; auth-context.tsx:22).
NobodyWaitsInVain ==
    /\ \A w \in Callers : Waiting(w) => \E s \in Flights : Flying(s)
    /\ status = "loading" => ~At("boot", "idle")
=============================================================================
