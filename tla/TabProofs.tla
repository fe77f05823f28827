------------------------------ MODULE TabProofs ------------------------------
(* Theorems about Tab, for every value of its constants.                   *)
EXTENDS Tab, TLAPS

(***************************************************************************)
(* Types.  A cookie names a family or is none; a call knows the part of    *)
(* the protocol it is in; what the server is at work on has a family.      *)
(***************************************************************************)
RealCookies == {NoCookie} \cup [family : Families, number : 0..MaxToken]

People == Users \cup {NoUser}

Signing == {"popup", "post", "taken", "granted", "postwaits", "repost"}
Calling == {"idle", "sent", "waits", "resent"}

AtBoot  == Calling \cup {"first"}
AtLogin == Calling \cup Signing

WorkOK(wk) ==
    /\ wk \in [Callers -> [at : AtBoot \cup AtLogin, as : People,
                           family : Families \cup {NoFamily}]]
    /\ wk["boot"].at \in AtBoot /\ wk["login"].at \in AtLogin
    /\ wk["list"].at \in Calling /\ wk["other"].at \in Calling
    /\ wk["login"].at \in Signing => wk["login"].as \in Users
    /\ wk["login"].at \in {"taken", "granted"} => wk["login"].family \in Families

FlightsOK(rf) ==
    /\ rf \in [Flights -> [at : {"none", "asked", "taken", "granted", "refused"},
                           cookie : RealCookies]]
    /\ \A s \in Flights :
          rf[s].at \in {"taken", "granted"} => rf[s].cookie # NoCookie

ServerOK ==
    /\ state \in [Families -> Chain!States]
    /\ holder \in [Families -> People]
    /\ claimed \in [Families -> 0..MaxToken]
    /\ gone \subseteq Cookies /\ burnt \subseteq Families

ScreenOK ==
    /\ status \in {"loading", "authed", "anon"}
    /\ user \in People /\ (status = "authed" => user \in Users)
    /\ shown \in People

RestOK ==
    /\ jar \in RealCookies /\ token \in People
    /\ logout \in [at : {"none", "asked", "answered"}, cookie : RealCookies]
    /\ reloads \in 0..MaxReload
    /\ crossed \in BOOLEAN /\ excused \in BOOLEAN

TypeInv == ServerOK /\ FlightsOK(refresh) /\ WorkOK(work) /\ ScreenOK /\ RestOK

LEMMA CookieTypes == NoCookie \in Cookies /\ RealCookies \subseteq Cookies
BY TabAssumption DEF TabAssumption, RealCookies, Cookies, NoCookie, Cookie

LEMMA TypeInvTyped == TypeInv => TypeOK
BY CookieTypes
DEF TypeInv, ServerOK, FlightsOK, WorkOK, ScreenOK, RestOK, TypeOK, People,
    AtBoot, AtLogin, Calling, Signing

LEMMA AskingOK == ASSUME NEW ck \in RealCookies PROVE FlightsOK(Asking(ck))
BY DEF FlightsOK, Asking, Flight, NoFlight, RealCookies, Flights

LEMMA BootingOK == WorkOK(Booting)
BY DEF WorkOK, Booting, Call, NoCall, Callers, People, AtBoot, AtLogin, Calling,
       Signing

LEMMA InitTyped == Init => TypeInv
<1> SUFFICES ASSUME Init PROVE TypeInv
  OBVIOUS
<1>1. ServerOK /\ ScreenOK
  BY TabAssumption
  DEF TabAssumption, Init, Chain!CInit, ServerOK, ScreenOK, Chain!States, People
<1>2. FlightsOK(refresh) /\ WorkOK(work)
  BY AskingOK, BootingOK DEF Init, RealCookies
<1>3. RestOK
  <2>1. NoCookie \in RealCookies /\ 0 \in 0..MaxReload
    BY TabAssumption DEF TabAssumption, RealCookies
  <2>2. QED BY <2>1 DEF Init, RestOK, People, NoFlight, Flight
<1>4. QED BY <1>1, <1>2, <1>3 DEF TypeInv

\* What the callbacks make of the calls is well typed.
LEMMA CallsTyped ==
    ASSUME WorkOK(work)
    PROVE  /\ \A w \in Callers : WorkOK(Finished(w))
           /\ WorkOK([w \in Callers |-> Rejected(w)])
           /\ \A u \in People : WorkOK([w \in Callers |-> Resumed(w, u)])
           /\ \A w \in Callers, u \in People :
                 /\ WorkOK([work EXCEPT ![w] = Call("sent", u)])
                 /\ WorkOK([work EXCEPT ![w] = Call("waits", u)])
<1> NoUser \in People /\ NoFamily \in Families \cup {NoFamily}
  BY DEF People
<1>1. \A w \in Callers : WorkOK(Finished(w))
  BY DEF WorkOK, Finished, NoCall, Call, Callers, AtBoot, AtLogin, Calling, Signing
<1>2. WorkOK([w \in Callers |-> Rejected(w)])
  BY DEF WorkOK, Rejected, NoCall, Call, Callers, AtBoot, AtLogin, Calling,
         Signing
<1>3. ASSUME NEW u \in People
      PROVE  WorkOK([w \in Callers |-> Resumed(w, u)])
  <2> DEFINE wk == [w \in Callers |-> Resumed(w, u)]
  <2>1. \A w \in Callers :
           /\ work[w].at \in AtBoot \cup AtLogin /\ work[w].as \in People
           /\ work[w].family \in Families \cup {NoFamily}
    BY DEF WorkOK
  <2>2. ASSUME NEW w \in Callers
        PROVE  Resumed(w, u) \in [at : AtBoot \cup AtLogin, as : People,
                                  family : Families \cup {NoFamily}]
    BY <2>1 DEF WorkOK, Resumed, At, Call, AtBoot, AtLogin, Calling, Signing
  <2>3. /\ Resumed("boot", u).at \in AtBoot
        /\ Resumed("list", u).at \in Calling
        /\ Resumed("other", u).at \in Calling
    BY DEF WorkOK, Resumed, At, Call, AtBoot, Calling, Signing, Callers
  <2>4. LET q == Resumed("login", u)
        IN  /\ q.at \in AtLogin
            /\ q.at \in Signing => q.as \in Users
            /\ q.at \in {"taken", "granted"} => q.family \in Families
    BY DEF WorkOK, Resumed, At, Call, AtLogin, Calling, Signing, Callers
  <2>5. QED BY <2>2, <2>3, <2>4 DEF WorkOK, Callers
<1>4. \A w \in Callers, u \in People :
         /\ WorkOK([work EXCEPT ![w] = Call("sent", u)])
         /\ WorkOK([work EXCEPT ![w] = Call("waits", u)])
  BY DEF WorkOK, Call, Callers, AtBoot, AtLogin, Calling, Signing
<1>5. QED BY <1>1, <1>2, <1>3, <1>4

LEMMA RefreshAccessOK ==
    ASSUME FlightsOK(refresh), jar \in RealCookies
    PROVE  FlightsOK(RefreshAccess)
BY DEF FlightsOK, RefreshAccess, Flight, Flights

LEMMA ScreenTyped ==
    ASSUME TypeInv, NEW st \in {"loading", "authed", "anon"}, NEW u \in People,
           st = "authed" => u \in Users, NEW wk, WorkOK(wk), token' \in People,
           Screen(st, u, wk)
    PROVE  ScreenOK' /\ WorkOK(work)'
<1>1. ScreenOK'
  BY DEF TypeInv, ScreenOK, Screen, People
<1>2. /\ WorkOK([wk EXCEPT !["list"] = NoCall])
      /\ WorkOK([wk EXCEPT !["list"] = Call("sent", token')])
  BY DEF WorkOK, NoCall, Call, Callers, AtBoot, AtLogin, Calling, Signing, People
<1>3. QED BY <1>1, <1>2 DEF Screen

-----------------------------------------------------------------------------
\* The steps of the server alone.
LEMMA ServerTyped ==
    ASSUME TypeInv, NEW s \in Flights, RefreshServed(s) \/ RefreshBreaks(s),
           crossed' \in BOOLEAN
    PROVE  TypeInv'
<1>0. /\ refresh[s].cookie \in RealCookies
      /\ refresh[s].at \in {"taken", "granted"} => refresh[s].cookie # NoCookie
      /\ \A ck \in RealCookies \ {NoCookie} :
            ck.family \in Families /\ ck.number \in 0..MaxToken
      /\ \A d \in Families : claimed[d] \in 0..MaxToken
  BY DEF TypeInv, FlightsOK, RealCookies, ServerOK
<1>1. \A d \in Families : \A st \in Chain!States :
         [state EXCEPT ![d] = st] \in [Families -> Chain!States]
  BY DEF TypeInv, ServerOK
<1>2. CASE RefreshServed(s)
  <2>0. UNCHANGED <<jar, token, work, logout, screen, reloads, excused>>
    BY <1>2 DEF RefreshServed, OfServer
  <2>1. CASE RefreshTaken(s)
    <3>1. ServerOK'
      <4>1. /\ refresh[s].cookie.family \in Families
            /\ claimed[refresh[s].cookie.family] + 1 \in 0..MaxToken
        BY <1>0, <2>1, TabAssumption DEF TabAssumption, RefreshTaken, Live
      <4>2. QED
        BY <1>1, <2>1, <4>1
        DEF RefreshTaken, Becomes, TypeInv, ServerOK, Chain!States
    <3>2. FlightsOK(refresh)'
      BY <1>0, <2>1 DEF RefreshTaken, Live, TypeInv, FlightsOK
    <3>3. QED
      BY <2>0, <3>1, <3>2 DEF TypeInv, RestOK, ScreenOK, screen
  <2>2. CASE RefreshGranted(s)
    <3> DEFINE f0 == refresh[s].cookie.family
    <3>0. f0 \in Families /\ claimed[f0] \in 0..MaxToken
      BY <1>0, <2>2 DEF RefreshGranted
    <3>1. ServerOK'
      BY <1>1, <2>2, <3>0
      DEF RefreshGranted, Becomes, TypeInv, ServerOK, Chain!States
    <3>2. FlightsOK(refresh)'
      <4>1. /\ Cookie(f0, claimed[f0]) \in RealCookies
            /\ Cookie(f0, claimed[f0]) # NoCookie
        BY <3>0, TabAssumption
        DEF TabAssumption, Cookie, RealCookies, NoCookie
      <4>2. QED
        BY <2>2, <4>1 DEF RefreshGranted, Flight, TypeInv, FlightsOK
    <3>3. QED
      BY <2>0, <3>1, <3>2 DEF TypeInv, RestOK, ScreenOK, screen
  <2>3. CASE RefreshRefused(s)
    <3>1. ServerOK'
      BY <1>0, <1>1, <2>3
      DEF RefreshRefused, Replayed, Burns, Becomes, TypeInv, ServerOK, Chain!States
    <3>2. FlightsOK(refresh)'
      BY <2>3 DEF RefreshRefused, TypeInv, FlightsOK
    <3>3. QED
      BY <2>0, <3>1, <3>2 DEF TypeInv, RestOK, ScreenOK, screen
  <2>4. QED BY <1>2, <2>1, <2>2, <2>3 DEF RefreshServed, OfServer
<1>3. CASE RefreshBreaks(s)
  <2>1. ServerOK'
    BY <1>0, <1>1, <1>3
    DEF RefreshBreaks, Becomes, TypeInv, ServerOK, Chain!States
  <2>2. FlightsOK(refresh)'
    BY <1>3 DEF RefreshBreaks, TypeInv, FlightsOK
  <2>3. QED
    BY <1>3, <2>1, <2>2 DEF RefreshBreaks, TypeInv, RestOK, ScreenOK, screen
<1>4. QED BY <1>2, <1>3

LEMMA ExpiryTyped ==
    ASSUME TypeInv, NEW f \in Families, OfServer(SessionExpires(f)),
           crossed' \in BOOLEAN
    PROVE  TypeInv'
<1>1. ServerOK'
  BY DEF OfServer, SessionExpires, Becomes, TypeInv, ServerOK, Chain!States
<1>2. QED
  BY <1>1 DEF OfServer, SessionExpires, TypeInv, RestOK, ScreenOK, screen

\* Refresh, in the browser.
LEMMA RefreshTyped ==
    ASSUME TypeInv, NEW s \in Flights,
           RefreshArrives(s) \/ RefreshFails(s) \/ RefreshLost(s),
           crossed' \in BOOLEAN
    PROVE  TypeInv'
<1>0. /\ refresh[s].cookie \in RealCookies
      /\ refresh[s].at \in {"taken", "granted"} => refresh[s].cookie # NoCookie
      /\ \A ck \in RealCookies \ {NoCookie} :
            ck.family \in Families /\ ck.number \in 0..MaxToken
      /\ NoUser \in People
  BY DEF TypeInv, FlightsOK, RealCookies, ServerOK, People
<1>1. refresh' = [refresh EXCEPT ![s] = NoFlight] /\ FlightsOK(refresh)'
  BY DEF RefreshArrives, RefreshFails, RefreshLost, TypeInv, FlightsOK, NoFlight,
         Flight, RealCookies
<1>2. CASE RefreshArrives(s)
  <2>1. token' \in People
    BY <1>0, <1>2 DEF RefreshArrives, TypeInv, ServerOK
  <2>2. WorkOK(work)'
    BY <1>2, <2>1, CallsTyped DEF RefreshArrives, TypeInv
  <2>3. QED
    BY <1>0, <1>1, <1>2, <2>1, <2>2
    DEF RefreshArrives, TypeInv, ServerOK, RestOK, ScreenOK, server, screen
<1>3. CASE RefreshFails(s)
  <2>1. ScreenOK' /\ WorkOK(work)'
    BY <1>0, <1>3, CallsTyped, ScreenTyped DEF RefreshFails, TypeInv
  <2>2. QED
    BY <1>0, <1>1, <1>3, <2>1 DEF RefreshFails, TypeInv, ServerOK, RestOK, server
<1>4. CASE RefreshLost(s)
  <2> DEFINE st == IF Waiting("boot") THEN "anon" ELSE status
             wk == [w \in Callers |-> Rejected(w)]
  <2>1. ScreenOK' /\ WorkOK(work)'
    <3>1. /\ st \in {"loading", "authed", "anon"} /\ user \in People
          /\ (st = "authed" => user \in Users) /\ token' \in People
      BY <1>4 DEF RefreshLost, TypeInv, ScreenOK, RestOK
    <3>2. WorkOK(wk) /\ Screen(st, user, wk)
      BY <1>4, CallsTyped DEF RefreshLost, TypeInv
    <3> HIDE DEF st, wk
    <3>3. QED BY <3>1, <3>2, ScreenTyped
  <2>2. ServerOK'
    BY <1>0, <1>4
    DEF RefreshLost, RefreshUnheard, Becomes, TypeInv, ServerOK, Chain!States
  <2>3. QED BY <1>1, <1>4, <2>1, <2>2 DEF RefreshLost, TypeInv, RestOK
<1>5. QED BY <1>2, <1>3, <1>4

\* request.
LEMMA CallFailedTyped ==
    ASSUME TypeInv, NEW w \in Callers, CallFailed(w)
    PROVE  ScreenOK' /\ WorkOK(work)'
<1> DEFINE st == IF w = "boot" THEN "anon" ELSE status
<1>1. /\ st \in {"loading", "authed", "anon"} /\ user \in People
      /\ (st = "authed" => user \in Users) /\ token' \in People
  BY DEF CallFailed, SameSession, TypeInv, ScreenOK, RestOK
<1>2. WorkOK(Finished(w)) /\ Screen(st, user, Finished(w))
  BY CallsTyped DEF CallFailed, TypeInv
<1> HIDE DEF st
<1>3. QED BY <1>1, <1>2, ScreenTyped

Calls(w) == CallAnswered(w) \/ CallDenied(w) \/ CallLost(w) \/ OtherCall

LEMMA CallTyped ==
    ASSUME TypeInv, NEW w \in Callers, Calls(w), crossed' \in BOOLEAN
    PROVE  TypeInv'
<1>1. SameSession /\ UNCHANGED server
  BY DEF Calls, CallAnswered, CallDenied, CallLost, CallFailed, OtherCall
<1>2. ServerOK' /\ RestOK'
  BY <1>1 DEF SameSession, server, TypeInv, ServerOK, RestOK
<1>3. FlightsOK(refresh)'
  BY RefreshAccessOK
  DEF Calls, CallAnswered, CallDenied, CallLost, OtherCall, TypeInv, RestOK
<1>4. ScreenOK' /\ WorkOK(work)'
  <2>1. CASE CallAnswered(w)
    <3>1. work[w].as \in People \ {NoUser} /\ token' \in People
          /\ WorkOK(Finished(w))
      BY <1>2, <2>1, CallsTyped DEF CallAnswered, TypeInv, WorkOK, RestOK
    <3>2. CASE w \in {"boot", "login"}
      BY <2>1, <3>1, <3>2, ScreenTyped DEF CallAnswered, People
    <3>3. CASE w \notin {"boot", "login"}
      BY <2>1, <3>1, <3>3 DEF CallAnswered, TypeInv, ScreenOK
    <3>4. QED BY <3>2, <3>3
  <2>2. CASE CallDenied(w)
    <3>1. CASE CallFailed(w)
      BY <3>1, CallFailedTyped
    <3>2. CASE work' = [work EXCEPT ![w] = Call("waits", NoUser)]
               /\ UNCHANGED screen
      BY <3>2, CallsTyped DEF screen, TypeInv, ScreenOK, People
    <3>3. QED BY <2>2, <3>1, <3>2 DEF CallDenied
  <2>3. CASE CallLost(w)
    BY <2>3, CallFailedTyped DEF CallLost
  <2>4. CASE OtherCall
    BY <2>4, CallsTyped DEF OtherCall, screen, TypeInv, ScreenOK, RestOK, Callers
  <2>5. QED BY <2>1, <2>2, <2>3, <2>4 DEF Calls
<1>5. QED BY <1>2, <1>3, <1>4 DEF TypeInv

\* Login.
SignsIn == \/ \E u \in Users : Popup(u)
           \/ \E f \in Families : PostTaken(f)
           \/ Post \/ PostGranted \/ PostArrives \/ PostRefused \/ PostFails

LEMMA LoginTyped ==
    ASSUME TypeInv, SignsIn, crossed' \in BOOLEAN
    PROVE  TypeInv'
<1>0. /\ work["login"].at \in Signing => work["login"].as \in Users
      /\ work["login"].at \in {"taken", "granted"} =>
            work["login"].family \in Families
      /\ work["login"].at \in AtLogin
  BY DEF TypeInv, WorkOK
<1>1. WorkOK(work)'
  <2>1. PICK wk : work' = [work EXCEPT !["login"] = wk]
    BY DEF SignsIn, Popup, Post, PostTaken, PostGranted, PostArrives,
           PostRefused, PostFails, Login
  <2>2. ASSUME NEW q,
               q \in [at : AtLogin, as : People,
                      family : Families \cup {NoFamily}],
               q.at \in Signing => q.as \in Users,
               q.at \in {"taken", "granted"} => q.family \in Families,
               Login(q)
        PROVE  WorkOK(work)'
    BY <2>2 DEF Login, TypeInv, WorkOK, Callers
  <2>3. work["login"] \in [at : AtLogin, as : People,
                           family : Families \cup {NoFamily}]
    BY <1>0 DEF TypeInv, WorkOK, Callers
  <2>4. CASE \E u \in Users : Popup(u)
    BY <2>2, <2>4 DEF Popup, Call, AtLogin, Signing, People
  <2>5. CASE Post
    BY <1>0, <2>2, <2>3, <2>5 DEF Post, At, AtLogin, Signing
  <2>6. CASE \E f \in Families : PostTaken(f)
    BY <1>0, <2>2, <2>3, <2>6 DEF PostTaken, Posting, AtLogin, Signing
  <2>7. CASE PostGranted
    BY <1>0, <2>2, <2>3, <2>7 DEF PostGranted, At, AtLogin, Signing
  <2>8. CASE PostArrives
    BY <1>0, <2>2, <2>8
    DEF PostArrives, At, Call, AtLogin, Calling, Signing, People
  <2>9. Login(NoCall) => WorkOK(work)'
    BY <2>2 DEF NoCall, Call, AtLogin, Calling, Signing, People
  <2>10. CASE PostRefused
    <3>1. CASE Login(NoCall)
      BY <2>9, <3>1
    <3>2. CASE At("login", "post") /\ Login([work["login"] EXCEPT !.at = "postwaits"])
      BY <1>0, <2>2, <2>3, <3>2 DEF At, AtLogin, Signing
    <3>3. QED BY <2>10, <3>1, <3>2 DEF PostRefused
  <2>11. CASE PostFails
    BY <2>9, <2>11 DEF PostFails
  <2>12. QED
    BY <2>4, <2>5, <2>6, <2>7, <2>8, <2>10, <2>11 DEF SignsIn
<1>2. FlightsOK(refresh)'
  BY RefreshAccessOK
  DEF SignsIn, Popup, Post, PostTaken, PostGranted, PostArrives, PostRefused,
      PostFails, TypeInv, RestOK
<1>3. ServerOK'
  <2>1. CASE \E f \in Families : PostTaken(f)
    BY <1>0, <2>1
    DEF PostTaken, Posting, Signing, Becomes, TypeInv, ServerOK, Chain!States,
        People
  <2>2. CASE PostGranted
    BY <1>0, <2>2
    DEF PostGranted, At, Becomes, TypeInv, ServerOK, Chain!States
  <2>3. CASE PostFails
    BY <1>0, <2>3
    DEF PostFails, At, Becomes, TypeInv, ServerOK, Chain!States
  <2>4. CASE UNCHANGED server
    BY <2>4 DEF server, TypeInv, ServerOK
  <2>5. QED
    BY <2>1, <2>2, <2>3, <2>4 DEF SignsIn, Popup, Post, PostArrives, PostRefused
<1>4. ScreenOK'
  BY DEF SignsIn, Popup, Post, PostTaken, PostGranted, PostArrives, PostRefused,
         PostFails, TypeInv, ScreenOK, screen
<1>5. RestOK'
  <2>1. CASE SameSession
    BY <2>1 DEF SameSession, TypeInv, RestOK
  <2>2. CASE PostArrives
    <3>1. Cookie(work["login"].family, 0) \in RealCookies
      BY <1>0, <2>2, TabAssumption
      DEF TabAssumption, PostArrives, At, Cookie, RealCookies
    <3>2. work["login"].as \in People
      BY <1>0, <2>2 DEF PostArrives, At, Signing, People
    <3>3. QED BY <2>2, <3>1, <3>2 DEF PostArrives, TypeInv, RestOK
  <2>3. QED
    BY <2>1, <2>2
    DEF SignsIn, Popup, Post, PostTaken, PostGranted, PostRefused, PostFails
<1>6. QED BY <1>1, <1>2, <1>3, <1>4, <1>5 DEF TypeInv

\* Logout and reload.
Leaves == LogoutAsk \/ LogoutServed \/ LogoutArrives \/ LogoutLost \/ Reload

LEMMA LeaveTyped ==
    ASSUME TypeInv, Leaves, crossed' \in BOOLEAN
    PROVE  TypeInv'
<1>0. /\ NoUser \in People /\ NoCookie \in RealCookies
      /\ \A ck \in RealCookies \ {NoCookie} : ck.family \in Families
      /\ NoFlight.at = "none" /\ NoFlight = [at |-> "none", cookie |-> NoCookie]
  BY DEF People, RealCookies, NoFlight, Flight
<1>1. CASE LogoutAsk
  BY <1>1
  DEF LogoutAsk, Flight, TypeInv, ServerOK, ScreenOK, RestOK, server, screen
<1>2. CASE LogoutServed
  <2>1. ServerOK'
    <3>1. logout.cookie \in Cookies
      BY CookieTypes DEF TypeInv, RestOK
    <3>2. gone' \subseteq Cookies
      BY <1>2, <3>1 DEF LogoutServed, TypeInv, ServerOK
    <3>3. state' \in [Families -> Chain!States]
      BY <1>2 DEF LogoutServed, Becomes, TypeInv, ServerOK, Chain!States
    <3>4. QED BY <1>2, <3>2, <3>3 DEF LogoutServed, TypeInv, ServerOK
  <2>2. QED BY <1>2, <2>1 DEF LogoutServed, TypeInv, ScreenOK, RestOK, screen
<1>3. CASE LogoutArrives
  <2>1. ScreenOK' /\ WorkOK(work)'
    BY <1>0, <1>3, ScreenTyped DEF LogoutArrives, TypeInv
  <2>2. QED
    BY <1>0, <1>3, <2>1 DEF LogoutArrives, TypeInv, ServerOK, RestOK, server
<1>4. CASE LogoutLost
  BY <1>0, <1>4
  DEF LogoutLost, TypeInv, ServerOK, ScreenOK, RestOK, server, screen
<1>5. CASE Reload
  <2>1. FlightsOK(refresh)' /\ WorkOK(work)'
    BY <1>5, AskingOK, BootingOK DEF Reload, TypeInv, RestOK
  <2>2. ServerOK' /\ ScreenOK'
    BY <1>0, <1>5 DEF Reload, Rotated, TypeInv, ServerOK, ScreenOK
  <2>3. RestOK'
    BY <1>0, <1>5, TabAssumption DEF TabAssumption, Reload, TypeInv, RestOK
  <2>4. QED BY <2>1, <2>2, <2>3 DEF TypeInv
<1>6. QED BY <1>1, <1>2, <1>3, <1>4, <1>5 DEF Leaves

\* What a step is a step of.
Refreshes(s) == RefreshArrives(s) \/ RefreshFails(s) \/ RefreshLost(s)
Serves(s)    == RefreshServed(s) \/ RefreshBreaks(s)
Expires(f)   == OfServer(SessionExpires(f))

LEMMA Steps ==
    ASSUME Next
    PROVE  /\ \/ \E s \in Flights : Serves(s) \/ Refreshes(s)
              \/ \E w \in Callers : Calls(w)
              \/ \E f \in Families : Expires(f)
              \/ SignsIn \/ Leaves
           /\ crossed' = (crossed \/ Crossing')
BY DEF Next, Noted, Serves, Refreshes, Calls, Expires, SignsIn, Leaves, Callers

LEMMA NextTyped == TypeInv /\ [Next]_vars => TypeInv'
<1> SUFFICES ASSUME TypeInv, [Next]_vars PROVE TypeInv'
  OBVIOUS
<1>1. CASE UNCHANGED vars
  BY <1>1
  DEF vars, server, screen, TypeInv, ServerOK, ScreenOK, RestOK
<1>2. CASE Next
  <2>1. crossed' \in BOOLEAN
    BY <1>2, Steps DEF TypeInv, RestOK, Crossing
  <2>2. QED
    BY <1>2, <2>1, Steps, ServerTyped, ExpiryTyped, RefreshTyped, CallTyped,
       LoginTyped, LeaveTyped
    DEF Serves, Refreshes, Expires
<1>3. QED BY <1>1, <1>2

LEMMA Typed == Spec => []TypeInv
BY InitTyped, NextTyped, PTL DEF Spec

(* Every variable keeps the type that the code gives it: above all, a page *)
(* that is shown as signed in has an account to show.                      *)
THEOREM TypeCorrect == Spec => []TypeOK
BY Typed, TypeInvTyped, PTL

(***************************************************************************)
(* Waiting.  A caller waits for a flight, and a page that is loading for   *)
(* its boot.                                                               *)
(***************************************************************************)
LEMMA NobodyWaits ==
    ASSUME WorkOK(work), NEW u \in People
    PROVE  \A w \in Callers :
              /\ Rejected(w).at \notin {"first", "waits", "postwaits"}
              /\ Resumed(w, u).at \notin {"first", "waits", "postwaits"}
BY DEF Rejected, Resumed, Waiting, At, NoCall, Call, WorkOK

\* A screen that changes has a say in the list's call only.
LEMMA ScreenSets ==
    ASSUME NEW st, NEW u, NEW wk, wk = [w \in Callers |-> wk[w]],
           Screen(st, u, wk)
    PROVE  /\ status' = st /\ user' = u
           /\ shown' = IF st = "authed" /\ status = "authed" THEN shown ELSE NoUser
           /\ \A w \in Callers \ {"list"} : work'[w] = wk[w]
           /\ work'["list"] = IF st # "authed" THEN NoCall
                              ELSE IF status = "authed" THEN wk["list"]
                              ELSE Call("sent", token')
<1> "list" \in Callers
  BY DEF Callers
<1> QED
  BY DEF Screen

\* A login moves only its own call, and only a 401 starts a refresh for it.
LEMMA LoginMoves ==
    ASSUME WorkOK(work), SignsIn
    PROVE  LET at == work'["login"].at
           IN  /\ \A w \in Callers \ {"login"} : work'[w] = work[w]
               /\ at \in AtLogin \ {"waits", "resent"}
               /\ refresh' = IF at = "postwaits" THEN RefreshAccess ELSE refresh
<1> DEFINE at == work'["login"].at
<1> SUFFICES /\ \A w \in Callers \ {"login"} : work'[w] = work[w]
             /\ at \in {"idle", "sent", "popup", "post", "taken", "granted",
                        "postwaits"}
             /\ refresh' = IF at = "postwaits" THEN RefreshAccess ELSE refresh
  BY DEF AtLogin, Calling, Signing
<1>0. work \in [Callers -> [at : AtBoot \cup AtLogin, as : People,
                            family : Families \cup {NoFamily}]]
      /\ "login" \in Callers
  BY DEF WorkOK, Callers
<1>1. CASE \E u \in Users : Popup(u)
  BY <1>0, <1>1 DEF Popup, Login, Call
<1>2. CASE \E f \in Families : PostTaken(f)
  BY <1>0, <1>2 DEF PostTaken, Login
<1>3. CASE Post \/ PostGranted
  BY <1>0, <1>3 DEF Post, PostGranted, Login
<1>4. CASE PostArrives \/ PostFails
  BY <1>0, <1>4 DEF PostArrives, PostFails, Login, Call, NoCall
<1>5. CASE PostRefused
  BY <1>0, <1>5 DEF PostRefused, Login, Call, NoCall
<1>6. QED BY <1>1, <1>2, <1>3, <1>4, <1>5 DEF SignsIn

LEMMA VainStep == TypeInv /\ NobodyWaitsInVain /\ [Next]_vars => NobodyWaitsInVain'
<1> SUFFICES ASSUME TypeInv, NobodyWaitsInVain, [Next]_vars
             PROVE  NobodyWaitsInVain'
  OBVIOUS
<1> DEFINE Served == \A w \in Callers : Waiting(w) => \E s \in Flights : Flying(s)
           Booted == status = "loading" => ~At("boot", "idle")
<1>0. /\ WorkOK(work) /\ work \in [Callers -> [at : AtBoot \cup AtLogin,
                                   as : People, family : Families \cup {NoFamily}]]
      /\ refresh \in [Flights -> [at : {"none", "asked", "taken", "granted",
                                        "refused"}, cookie : RealCookies]]
      /\ Callers = {"boot", "login", "list", "other"}
      /\ 1 \in Flights /\ Served /\ Booted
  BY DEF TypeInv, WorkOK, FlightsOK, Callers, Flights, NobodyWaitsInVain
<1>1. ASSUME work' = work, status' = status, \A s \in Flights : Flying(s) => Flying(s)'
      PROVE  NobodyWaitsInVain'
  BY <1>1 DEF NobodyWaitsInVain, Waiting, At
<1>2. ASSUME NEW s \in Flights, Serves(s)
      PROVE  NobodyWaitsInVain'
  BY <1>0, <1>1, <1>2
  DEF Serves, RefreshServed, OfServer, RefreshTaken, RefreshGranted,
      RefreshRefused, RefreshBreaks, Flying, Flight, screen
<1>3. ASSUME NEW s \in Flights, Refreshes(s)
      PROVE  NobodyWaitsInVain'
  <2>1. CASE RefreshArrives(s)
    <3>1. token' \in People /\ status' = status
      BY <2>1, NextTyped DEF RefreshArrives, TypeInv, RestOK, screen
    <3>2. \A w \in Callers : work'[w] = Resumed(w, token') /\ ~Waiting(w)'
      BY <1>0, <2>1, <3>1, NobodyWaits DEF RefreshArrives, Waiting, At
    <3>3. ~At("boot", "idle") => ~At("boot", "idle")'
      BY <1>0, <3>2 DEF Resumed, At, Call
    <3>4. QED BY <1>0, <3>1, <3>2, <3>3 DEF NobodyWaitsInVain
  <2>2. CASE RefreshFails(s) \/ RefreshLost(s)
    <3>1. \A w \in Callers : Rejected(w).at \notin {"first", "waits", "postwaits"}
      BY <1>0, NobodyWaits DEF People
    <3>2. \A w \in Callers : ~Waiting(w)'
      <4>1. \E st, u : Screen(st, u, [w \in Callers |-> Rejected(w)])
        BY <2>2 DEF RefreshFails, RefreshLost
      <4>2. \A w \in Callers :
               work'[w] \in {Rejected(w), NoCall, Call("sent", token')}
        BY <1>0, <4>1, ScreenSets
      <4>3. QED BY <3>1, <4>2 DEF Waiting, At, NoCall, Call
    <3>3. CASE status' = "loading"
      <4>1. ~Waiting("boot") /\ status = "loading" /\ RefreshLost(s)
        BY <2>2, <3>3 DEF RefreshFails, RefreshLost, Screen
      <4>2. work'["boot"] = work["boot"]
        BY <1>0, <4>1 DEF RefreshLost, Screen, Rejected
      <4>3. QED BY <1>0, <3>2, <4>1, <4>2 DEF NobodyWaitsInVain, At
    <3>4. QED BY <3>2, <3>3 DEF NobodyWaitsInVain
  <2>3. QED BY <1>3, <2>1, <2>2 DEF Refreshes
<1>4. ASSUME NEW w \in Callers, Calls(w)
      PROVE  NobodyWaitsInVain'
  <2>1. CASE CallAnswered(w) \/ (CallFailed(w) /\ UNCHANGED refresh)
    <3>1. \A v \in Callers : Waiting(v)' => Waiting(v)
      BY <1>0, <2>1
      DEF CallAnswered, CallFailed, Screen, Finished, Waiting, At, NoCall, Call
    <3>2. Served'
      BY <1>0, <2>1, <3>1 DEF CallAnswered, Flying
    <3>3. Booted'
      BY <1>0, <2>1
      DEF CallAnswered, CallFailed, Screen, Finished, At, NoCall, Call
    <3>4. QED BY <3>2, <3>3 DEF NobodyWaitsInVain
  <2>2. CASE CallDenied(w) /\ At(w, "sent")
    <3>1. refresh' = RefreshAccess /\ UNCHANGED screen
          /\ work' = [work EXCEPT ![w] = Call("waits", NoUser)]
      BY <2>2 DEF CallDenied, At
    <3>2. \E s \in Flights : Flying(s)'
      BY <1>0, <3>1 DEF RefreshAccess, Flying, Flight
    <3>3. Booted'
      BY <1>0, <3>1 DEF At, Call, screen
    <3>4. QED BY <3>2, <3>3 DEF NobodyWaitsInVain
  <2>3. CASE OtherCall
    BY <1>0, <2>3
    DEF OtherCall, NobodyWaitsInVain, Waiting, At, Call, Flying, screen
  <2>4. QED BY <1>4, <2>1, <2>2, <2>3 DEF Calls, CallDenied, CallLost
<1>5. ASSUME NEW f \in Families, Expires(f)
      PROVE  NobodyWaitsInVain'
  BY <1>1, <1>5 DEF Expires, OfServer, SessionExpires, Flying, screen
<1>6. CASE SignsIn
  <2> DEFINE at == work'["login"].at
  <2>1. /\ \A w \in Callers \ {"login"} : work'[w] = work[w]
        /\ at \in AtLogin \ {"waits", "resent"}
        /\ refresh' = IF at = "postwaits" THEN RefreshAccess ELSE refresh
        /\ status' = status
    BY <1>0, <1>6, LoginMoves
    DEF SignsIn, Popup, Post, PostTaken, PostGranted, PostArrives, PostRefused,
        PostFails, screen
  <2>2. Booted'
    BY <1>0, <2>1 DEF At
  <2>3. CASE at = "postwaits"
    <3>1. \E s \in Flights : Flying(s)'
      BY <1>0, <2>1, <2>3 DEF RefreshAccess, Flying, Flight
    <3>2. QED BY <2>2, <3>1 DEF NobodyWaitsInVain
  <2>4. CASE at # "postwaits"
    <3>1. \A v \in Callers : Waiting(v)' => Waiting(v)
      BY <1>0, <2>1, <2>4 DEF Waiting, At, AtLogin, Calling, Signing
    <3>2. QED BY <1>0, <2>1, <2>2, <2>4, <3>1 DEF NobodyWaitsInVain, Flying
  <2>5. QED BY <2>3, <2>4
<1>7. CASE Leaves
  <2>1. CASE Reload
    <3>1. Flying(1)' /\ ~At("boot", "idle")'
      BY <1>0, <2>1 DEF Reload, Asking, Booting, Flying, Flight, At, Call
    <3>2. QED BY <1>0, <3>1 DEF NobodyWaitsInVain
  <2>2. CASE LogoutArrives
    <3>1. /\ \A v \in Callers : Waiting(v)' => Waiting(v)
          /\ \A s \in Flights : Flying(s)' <=> Flying(s)
          /\ status' # "loading"
      BY <1>0, <2>2
      DEF LogoutArrives, Screen, Waiting, At, NoCall, Call, Flying
    <3>2. QED BY <1>0, <3>1 DEF NobodyWaitsInVain
  <2>3. CASE LogoutAsk \/ LogoutServed \/ LogoutLost
    BY <1>1, <2>3 DEF LogoutAsk, LogoutServed, LogoutLost, Flying, screen
  <2>4. QED BY <1>7, <2>1, <2>2, <2>3 DEF Leaves
<1>8. CASE UNCHANGED vars
  BY <1>1, <1>8 DEF vars, screen, Flying
<1>9. QED BY <1>2, <1>3, <1>4, <1>5, <1>6, <1>7, <1>8, Steps

(* Whoever waits for a refresh waits for one that is under way, and a page *)
(* that is loading has its boot under way, whatever is lost or refused.    *)
THEOREM NobodyForgotten == Spec => []NobodyWaitsInVain
<1>1. Init => NobodyWaitsInVain
  BY DEF Init, NobodyWaitsInVain, Asking, Booting, Flying, Flight, Flights, At,
         Call, Callers
<1>2. QED BY <1>1, Typed, VainStep, PTL DEF Spec
(***************************************************************************)
(* The server.  There is one flight at a time; what is being exchanged is  *)
(* rotating; and the family of a session that is being begun, or is not    *)
(* yet, is in no cookie.                                                   *)
(***************************************************************************)
Signed(f) == work["login"].at \in {"taken", "granted"} /\ work["login"].family = f
Unseen(f) == state[f] = "unborn" \/ Signed(f)

Secret(f) ==
    Unseen(f) => /\ claimed[f] = 0 /\ jar.family # f
                 /\ Flying(1) => refresh[1].cookie.family # f

Exchanged ==
    /\ refresh[1].at = "taken" => state[refresh[1].cookie.family] = "rotating"
    /\ At("login", "taken") => state[work["login"].family] = "rotating"
    /\ \A f \in Families : Signed(f) =>
          state[f] # "unborn" /\ holder[f] = work["login"].as

ServerInv == ~Flying(2) /\ Exchanged /\ \A f \in Families : Secret(f)

LEMMA InitServer == Init => ServerInv
BY TabAssumption
DEF TabAssumption, Init, Chain!CInit, ServerInv, Exchanged, Secret, Unseen,
    Signed, Asking, Booting, Flying, Flight, NoFlight, NoCookie, Cookie, At,
    Call, NoCall, Flights, Callers

\* What the types say, where the server is concerned.
LEMMA TypesAtHand ==
    ASSUME TypeInv
    PROVE  /\ state \in [Families -> {"unborn", "rotating", "live", "ended"}]
           /\ holder \in [Families -> People] /\ claimed \in [Families -> 0..MaxToken]
           /\ work \in [Callers -> [at : AtBoot \cup AtLogin, as : People,
                                    family : Families \cup {NoFamily}]]
           /\ refresh \in [Flights -> [at : {"none", "asked", "taken", "granted",
                                             "refused"}, cookie : RealCookies]]
           /\ \A s \in Flights : refresh[s].at \in {"taken", "granted"} =>
                 refresh[s].cookie.family \in Families
           /\ \A ck \in RealCookies : ck # NoCookie => ck.family \in Families
           /\ Signed(work["login"].family) => work["login"].family \in Families
           /\ NoFamily \notin Families /\ NoCookie.family = NoFamily
           /\ 1 \in Flights /\ 2 \in Flights /\ \A s \in Flights : s = 1 \/ s = 2
           /\ Callers = {"boot", "login", "list", "other"}
BY TabAssumption
DEF TabAssumption, TypeInv, ServerOK, FlightsOK, WorkOK, Chain!States,
    RealCookies, NoCookie, Cookie, Flights, Callers, Signed

LEMMA ServerStepServes ==
    ASSUME TypeInv, ServerInv, NEW s \in Flights, Serves(s)
    PROVE  ServerInv'
<1> DEFINE f0 == refresh[1].cookie.family
<1>1. s = 1 /\ ~Flying(2) /\ work' = work /\ jar' = jar /\ holder' = holder
  BY TypesAtHand
  DEF ServerInv, Serves, RefreshServed, OfServer, RefreshTaken, RefreshGranted,
      RefreshRefused, RefreshBreaks, Flying
<1>2. CASE RefreshTaken(1)
  <2>1. /\ f0 \in Families /\ state[f0] = "live" /\ Flying(1)
        /\ refresh' = [refresh EXCEPT ![1].at = "taken"]
        /\ state' = [state EXCEPT ![f0] = "rotating"]
        /\ claimed' = [claimed EXCEPT ![f0] = @ + 1]
    BY <1>2, TypesAtHand
    DEF RefreshTaken, Live, Becomes, Flying, TypeInv, FlightsOK
  <2>2. ~Unseen(f0)
    BY <2>1 DEF ServerInv, Secret
  <2>3. \A f \in Families : Secret(f)'
    BY <1>1, <2>1, <2>2, TypesAtHand DEF ServerInv, Secret, Unseen, Signed, Flying
  <2>4. Exchanged'
    BY <1>1, <2>1, <2>2, TypesAtHand DEF ServerInv, Exchanged, Unseen, Signed, At
  <2>5. QED BY <1>1, <2>1, <2>3, <2>4, TypesAtHand DEF ServerInv, Flying
<1>3. CASE RefreshGranted(1) \/ RefreshBreaks(1)
  <2>1. /\ f0 \in Families /\ state[f0] = "rotating" /\ Flying(1)
        /\ refresh'[2] = refresh[2] /\ refresh'[1].at \in {"granted", "refused"}
        /\ refresh'[1].cookie.family = f0
        /\ \E st \in {"live", "ended"} : state' = [state EXCEPT ![f0] = st]
        /\ claimed' = claimed
    BY <1>3, TypesAtHand
    DEF RefreshGranted, RefreshBreaks, Becomes, Flying, Flight, Cookie, ServerInv,
        Exchanged
  <2>2. ~Unseen(f0)
    BY <2>1 DEF ServerInv, Secret
  <2>3. \A f \in Families : Secret(f)'
    BY <1>1, <2>1, <2>2, TypesAtHand DEF ServerInv, Secret, Unseen, Signed, Flying
  <2>4. Exchanged'
    BY <1>1, <2>1, <2>2, TypesAtHand DEF ServerInv, Exchanged, Unseen, Signed, At
  <2>5. QED BY <1>1, <2>1, <2>3, <2>4 DEF ServerInv, Flying
<1>4. CASE RefreshRefused(1)
  <2>1. /\ refresh' = [refresh EXCEPT ![1].at = "refused"] /\ Flying(1)
        /\ \A f \in Families : \/ state'[f] = state[f]
                               \/ state[f] = "live" /\ state'[f] = "ended"
        /\ claimed' = claimed
    BY <1>4, TypesAtHand DEF RefreshRefused, Burns, Becomes, Flying
  <2>2. \A f \in Families : Secret(f)'
    BY <1>1, <2>1, TypesAtHand DEF ServerInv, Secret, Unseen, Signed, Flying
  <2>3. Exchanged'
    BY <1>1, <2>1, TypesAtHand DEF ServerInv, Exchanged, Unseen, Signed, At
  <2>4. QED BY <1>1, <2>1, <2>2, <2>3, TypesAtHand DEF ServerInv, Flying
<1>5. QED
  BY <1>1, <1>2, <1>3, <1>4 DEF Serves, RefreshServed, OfServer

LEMMA ServerStepRefreshes ==
    ASSUME TypeInv, ServerInv, NEW s \in Flights, Refreshes(s)
    PROVE  ServerInv'
<1> DEFINE f0 == refresh[1].cookie.family
<1>1. /\ s = 1 /\ Flying(1) /\ refresh' = [refresh EXCEPT ![1] = NoFlight]
      /\ holder' = holder /\ claimed' = claimed
      /\ jar' \in {jar, refresh[1].cookie}
  BY TypesAtHand
  DEF ServerInv, Refreshes, RefreshArrives, RefreshFails, RefreshLost,
      RefreshUnheard, Flying, server
<1>2. \A f \in Families : \/ state'[f] = state[f]
                          \/ /\ f = f0 /\ refresh[1].at = "taken"
                             /\ state'[f] \in {"live", "ended"}
  BY <1>1, TypesAtHand
  DEF Refreshes, RefreshArrives, RefreshFails, RefreshLost, RefreshUnheard,
      Becomes, server
<1>3. ~Flying(1)' /\ ~Flying(2)'
  BY <1>1, TypesAtHand DEF ServerInv, Flying, NoFlight, Flight
<1>4. \/ work'["login"] = work["login"]
      \/ work'["login"].at \notin {"taken", "granted"}
  <2>1. CASE RefreshArrives(s)
    BY <2>1, TypesAtHand DEF RefreshArrives, Resumed, At, Call
  <2>2. CASE RefreshFails(s) \/ RefreshLost(s)
    <3>1. \E st, u : Screen(st, u, [w \in Callers |-> Rejected(w)])
      BY <2>2 DEF RefreshFails, RefreshLost
    <3>2. work'["login"] = Rejected("login")
      BY <3>1 DEF Screen, Callers
    <3>3. QED BY <3>2 DEF Rejected, NoCall, Call
  <2>3. QED BY <2>1, <2>2 DEF Refreshes
<1>5. \A f \in Families : Signed(f)' => Signed(f) /\ work'["login"] = work["login"]
  BY <1>4 DEF Signed
<1>6. refresh[1].at = "taken" => f0 \in Families /\ ~Unseen(f0)
  BY <1>1, TypesAtHand DEF ServerInv, Secret
<1>7. \A f \in Families : Secret(f)'
  BY <1>1, <1>2, <1>3, <1>5, <1>6 DEF ServerInv, Secret, Unseen
<1>8. Exchanged'
  BY <1>1, <1>2, <1>3, <1>4, <1>5, <1>6, TypesAtHand
  DEF ServerInv, Exchanged, Unseen, Signed, Flying, At
<1>9. QED BY <1>3, <1>7, <1>8 DEF ServerInv
\* A step that only asks for a refresh, or for nothing, changes no session.
LEMMA ServerKept ==
    ASSUME TypeInv, ServerInv, UNCHANGED <<server, jar>>,
           refresh' = refresh \/ refresh' = RefreshAccess,
           work'["login"] = work["login"]
              \/ work'["login"].at \notin {"taken", "granted"}
    PROVE  ServerInv'
<1>1. /\ ~Flying(2)'
      /\ refresh'[1].at = "taken" => refresh'[1] = refresh[1]
      /\ Flying(1)' => refresh'[1].cookie \in {refresh[1].cookie, jar}
      /\ ~Flying(1) /\ Flying(1)' => refresh'[1].cookie = jar
  BY TypesAtHand DEF ServerInv, RefreshAccess, Flying, Flight
<1>2. \A f \in Families : Signed(f)' => Signed(f) /\ work'["login"] = work["login"]
  BY DEF Signed
<1>3. \A f \in Families : Secret(f)'
  BY <1>1, <1>2 DEF ServerInv, Secret, Unseen, server, Flying
<1>4. Exchanged'
  BY <1>1, <1>2 DEF ServerInv, Exchanged, Signed, server, At
<1>5. QED BY <1>1, <1>3, <1>4 DEF ServerInv

\* A login's call is what the callbacks of others leave alone.
LEMMA LoginLeftAlone ==
    ASSUME TypeInv, NEW w \in Callers, Calls(w)
    PROVE  work'["login"] = work["login"]
              \/ work'["login"].at \notin {"taken", "granted"}
<1>1. CASE CallAnswered(w) \/ CallFailed(w)
  <2>1. work'["login"] = Finished(w)["login"]
    <3>1. ASSUME NEW st, NEW u, Screen(st, u, Finished(w))
          PROVE  work'["login"] = Finished(w)["login"]
      <4>1. Finished(w) = [v \in Callers |-> Finished(w)[v]]
        BY TypesAtHand DEF Finished
      <4>2. QED BY <3>1, <4>1, ScreenSets DEF Callers
    <3>2. QED BY <1>1, <3>1 DEF CallAnswered, CallFailed
  <2>2. QED BY <2>1, TypesAtHand DEF Finished, NoCall, Call
<1>2. CASE work' = [work EXCEPT ![w] = Call("waits", NoUser)]
  BY <1>2, TypesAtHand DEF Call
<1>3. CASE OtherCall
  BY <1>3, TypesAtHand DEF OtherCall
<1>4. QED BY <1>1, <1>2, <1>3 DEF Calls, CallDenied, CallLost

LEMMA ServerStepCalls ==
    ASSUME TypeInv, ServerInv, NEW w \in Callers, Calls(w)
    PROVE  ServerInv'
<1>1. UNCHANGED <<server, jar>> /\ (refresh' = refresh \/ refresh' = RefreshAccess)
  BY DEF Calls, CallAnswered, CallDenied, CallLost, CallFailed, OtherCall,
         SameSession
<1>2. QED BY <1>1, LoginLeftAlone, ServerKept

LEMMA ServerStepExpires ==
    ASSUME TypeInv, ServerInv, NEW f \in Families, Expires(f)
    PROVE  ServerInv'
<1>1. /\ state[f] = "live" /\ state' = [state EXCEPT ![f] = "ended"]
      /\ UNCHANGED <<holder, claimed, refresh, jar, work>>
  BY DEF Expires, OfServer, SessionExpires, Becomes
<1>2. \A g \in Families : Secret(g)'
  BY <1>1, TypesAtHand DEF ServerInv, Secret, Unseen, Signed, Flying
<1>3. Exchanged'
  BY <1>1, TypesAtHand DEF ServerInv, Exchanged, Signed, At
<1>4. QED BY <1>1, <1>2, <1>3 DEF ServerInv, Flying

LEMMA ServerStepSignsIn ==
    ASSUME TypeInv, ServerInv, SignsIn
    PROVE  ServerInv'
<1> DEFINE lg == work["login"]
<1>0. lg \in [at : AtBoot \cup AtLogin, as : People,
              family : Families \cup {NoFamily}]
      /\ ServerInv /\ "login" \in Callers
  BY TypesAtHand DEF Callers
<1>1. CASE \E u \in Users : Popup(u)
  BY <1>1, ServerKept, TypesAtHand DEF Popup, Login, SameSession, Call
<1>2. CASE Post
  BY <1>0, <1>2, ServerKept, TypesAtHand DEF Post, Login, SameSession
<1>3. CASE PostRefused
  BY <1>0, <1>3, ServerKept, TypesAtHand
  DEF PostRefused, Login, SameSession, NoCall, Call
<1>4. ASSUME NEW f \in Families, PostTaken(f)
      PROVE  ServerInv'
  <2>1. /\ lg.at \in Posting /\ state[f] = "unborn"
        /\ state' = [state EXCEPT ![f] = "rotating"]
        /\ holder' = [holder EXCEPT ![f] = lg.as]
        /\ work'["login"].at = "taken" /\ work'["login"].family = f
        /\ work'["login"].as = lg.as
        /\ UNCHANGED <<claimed, refresh, jar>>
    BY <1>0, <1>4, TypesAtHand
    DEF PostTaken, Becomes, Login, SameSession
  <2>2. \A g \in Families : ~Signed(g) /\ (Signed(g)' <=> g = f)
    BY <2>1 DEF Signed, Posting
  <2>3. \A g \in Families : Secret(g)'
    BY <2>1, <2>2, TypesAtHand DEF ServerInv, Secret, Unseen, Flying
  <2>4. Exchanged'
    BY <2>1, <2>2, TypesAtHand DEF ServerInv, Exchanged, Signed, At
  <2>5. QED BY <2>1, <2>3, <2>4 DEF ServerInv, Flying
<1>5. ASSUME At("login", "taken"), NEW st \in {"live", "ended"},
             Becomes(lg.family, st),
             UNCHANGED <<holder, claimed, refresh, jar>>,
             \/ work'["login"] = [lg EXCEPT !.at = "granted"]
             \/ work'["login"] = NoCall
      PROVE  ServerInv'
  <2>1. /\ lg.family \in Families /\ Signed(lg.family)
        /\ state[lg.family] = "rotating"
    BY <1>5, TypesAtHand DEF ServerInv, Exchanged, Signed, At
  <2>2. \A g \in Families : Signed(g)' =>
           Signed(g) /\ work'["login"].at = "granted" /\ work'["login"].as = lg.as
    BY <1>0, <1>5 DEF Signed, At, NoCall, Call
  <2>3. \A g \in Families : state'[g] = "unborn" => state[g] = "unborn"
    BY <1>5, <2>1, TypesAtHand DEF Becomes
  <2>4. \A g \in Families : Secret(g)'
    BY <1>5, <2>2, <2>3 DEF ServerInv, Secret, Unseen, Flying
  <2>5. refresh[1].at = "taken" => refresh[1].cookie.family # lg.family
    BY <2>1 DEF ServerInv, Secret, Unseen, Flying
  <2>6. work'["login"].at # "taken"
    BY <1>0, <1>5 DEF NoCall, Call
  <2>7. Exchanged'
    BY <1>5, <2>2, <2>3, <2>5, <2>6, TypesAtHand
    DEF ServerInv, Exchanged, Signed, At, Becomes
  <2>8. QED BY <1>5, <2>4, <2>7 DEF ServerInv, Flying
<1>6. CASE PostGranted
  BY <1>0, <1>5, <1>6, TypesAtHand DEF PostGranted, Login, SameSession
<1>7. CASE PostArrives
  <2>1. /\ Signed(lg.family) /\ lg.family \in Families
        /\ jar' = Cookie(lg.family, 0) /\ UNCHANGED <<server, refresh>>
        /\ work'["login"].at = "sent"
    BY <1>7, TypesAtHand DEF PostArrives, Signed, At, Login, Call
  <2>2. \A g \in Families : ~Signed(g)'
    BY <2>1 DEF Signed
  <2>3. state[lg.family] # "unborn" /\ jar'.family = lg.family
    BY <2>1 DEF ServerInv, Exchanged, Cookie
  <2>4. \A g \in Families : Secret(g)'
    BY <2>1, <2>2, <2>3 DEF ServerInv, Secret, Unseen, Flying, server
  <2>5. Exchanged'
    BY <2>1, <2>2 DEF ServerInv, Exchanged, At, server
  <2>6. QED BY <2>1, <2>4, <2>5 DEF ServerInv, Flying
<1>8. CASE PostFails
  <2>1. /\ work'["login"] = NoCall
        /\ UNCHANGED <<holder, claimed, gone, burnt, refresh, jar>>
    BY <1>8, TypesAtHand DEF PostFails, Login, SameSession
  <2>2. CASE UNCHANGED state
    BY <2>1, <2>2, ServerKept DEF server, NoCall, Call
  <2>3. CASE \E st \in {"live", "ended"} :
                At("login", "taken") /\ Becomes(lg.family, st)
    BY <1>5, <2>1, <2>3
  <2>4. QED BY <1>8, <2>2, <2>3 DEF PostFails
<1>9. QED BY <1>1, <1>2, <1>3, <1>4, <1>6, <1>7, <1>8 DEF SignsIn

LEMMA ServerStepLeaves ==
    ASSUME TypeInv, ServerInv, Leaves
    PROVE  ServerInv'
<1>1. CASE LogoutAsk \/ LogoutLost
  BY <1>1, ServerKept DEF LogoutAsk, LogoutLost
<1>2. CASE LogoutServed
  <2>1. /\ \A f \in Families : \/ state'[f] = state[f]
                               \/ state[f] = "live" /\ state'[f] = "ended"
        /\ UNCHANGED <<holder, claimed, jar, refresh, work>>
    BY <1>2, TypesAtHand DEF LogoutServed, Live, Becomes
  <2>2. \A f \in Families : Secret(f)'
    BY <2>1 DEF ServerInv, Secret, Unseen, Signed, Flying
  <2>3. Exchanged'
    BY <2>1, TypesAtHand DEF ServerInv, Exchanged, Signed, At
  <2>4. QED BY <2>1, <2>2, <2>3 DEF ServerInv, Flying
<1>3. CASE LogoutArrives
  <2>1. /\ jar' = NoCookie /\ UNCHANGED <<server, refresh>>
        /\ work'["login"] = work["login"]
    BY <1>3, TypesAtHand DEF LogoutArrives, Screen
  <2>2. \A f \in Families : Secret(f)'
    BY <2>1, TypesAtHand DEF ServerInv, Secret, Unseen, Signed, Flying, server
  <2>3. Exchanged'
    BY <2>1 DEF ServerInv, Exchanged, Signed, At, server
  <2>4. QED BY <2>1, <2>2, <2>3 DEF ServerInv, Flying
<1>4. CASE Reload
  <2>1. /\ \A f \in Families : state'[f] = "unborn" => state[f] = "unborn"
        /\ UNCHANGED <<holder, claimed, jar>>
        /\ refresh'[1] = Flight("asked", jar) /\ refresh'[2] = NoFlight
        /\ work'["login"] = NoCall
    BY <1>4, TypesAtHand DEF Reload, Rotated, Asking, Booting
  <2>2. \A f \in Families : Secret(f)'
    BY <2>1 DEF ServerInv, Secret, Unseen, Signed, Flight, NoCall, Call
  <2>3. Exchanged' /\ ~Flying(2)'
    BY <2>1 DEF Exchanged, Signed, At, NoCall, Call, Flight, NoFlight, Flying
  <2>4. QED BY <2>2, <2>3 DEF ServerInv
<1>5. QED BY <1>1, <1>2, <1>3, <1>4 DEF Leaves

LEMMA ServerStep == TypeInv /\ ServerInv /\ [Next]_vars => ServerInv'
<1> SUFFICES ASSUME TypeInv, ServerInv, [Next]_vars PROVE ServerInv'
  OBVIOUS
<1>1. CASE UNCHANGED vars
  BY <1>1, ServerKept DEF vars
<1>2. CASE Next
  BY <1>2, Steps, ServerStepServes, ServerStepRefreshes, ServerStepCalls,
     ServerStepExpires, ServerStepSignsIn, ServerStepLeaves
<1>3. QED BY <1>1, <1>2

LEMMA ServerHolds == Spec => [](TypeInv /\ ServerInv)
BY InitServer, ServerStep, Typed, PTL DEF Spec
(***************************************************************************)
(* Refinement: each session moves as SessionChain lets it.                 *)
(***************************************************************************)
Moves(f) == \/ Chain!Begin(f) \/ Chain!Take(f) \/ Chain!Settle(f)
            \/ Chain!End(f) \/ Chain!Rest(f)

LEMMA Moving ==
    ASSUME NEW f \in Families,
           \/ holder'[f] = holder[f] /\ state'[f] = state[f]
           \/ /\ holder'[f] = holder[f] /\ state[f] = "live"
              /\ state'[f] \in {"rotating", "ended"}
           \/ /\ holder'[f] = holder[f] /\ state[f] = "rotating"
              /\ state'[f] \in {"live", "ended"}
           \/ /\ state[f] = "unborn" /\ state'[f] = "rotating"
              /\ holder'[f] \in Users
    PROVE  Moves(f)
BY DEF Moves, Chain!Begin, Chain!Take, Chain!Settle, Chain!End, Chain!Rest,
       Chain!Change, Chain!SameHolder

LEMMA EverySessionMoves ==
    ASSUME TypeInv, ServerInv, [Next]_vars, NEW f \in Families
    PROVE  Moves(f)
<1>1. CASE UNCHANGED server
  BY <1>1, Moving DEF server
<1>2. ASSUME NEW s \in Flights, Serves(s) \/ Refreshes(s)
      PROVE  Moves(f)
  <2>1. holder' = holder
    BY <1>2
    DEF Serves, RefreshServed, OfServer, RefreshTaken, RefreshGranted,
        RefreshRefused, RefreshBreaks, Refreshes, RefreshArrives, RefreshFails,
        RefreshLost, RefreshUnheard, server
  <2>2. refresh[s].at = "taken" => state[refresh[s].cookie.family] = "rotating"
    BY TypesAtHand DEF ServerInv, Exchanged, Flying
  <2>3. \/ state'[f] = state[f]
        \/ state[f] = "live" /\ state'[f] \in {"rotating", "ended"}
        \/ state[f] = "rotating" /\ state'[f] \in {"live", "ended"}
    BY <1>2, <2>2, TypesAtHand
    DEF Serves, RefreshServed, OfServer, RefreshTaken, RefreshGranted,
        RefreshRefused, RefreshBreaks, Refreshes, RefreshArrives, RefreshFails,
        RefreshLost, RefreshUnheard, server, Becomes, Burns, Live
  <2>4. QED BY <2>1, <2>3, Moving
<1>3. ASSUME NEW g \in Families, Expires(g)
      PROVE  Moves(f)
  BY <1>3, Moving, TypesAtHand DEF Expires, OfServer, SessionExpires, Becomes
<1>4. CASE SignsIn
  <2>1. ASSUME NEW g \in Families, PostTaken(g)
        PROVE  Moves(f)
    <3>1. /\ state[g] = "unborn" /\ state' = [state EXCEPT ![g] = "rotating"]
          /\ holder' = [holder EXCEPT ![g] = work["login"].as]
          /\ work["login"].as \in Users
      BY <2>1 DEF PostTaken, Becomes, TypeInv, WorkOK, Posting, Signing
    <3>2. QED BY <3>1, Moving, TypesAtHand
  <2>2. CASE PostGranted \/ PostFails
    <3>1. At("login", "taken") => state[work["login"].family] = "rotating"
      BY DEF ServerInv, Exchanged
    <3>2. /\ holder' = holder
          /\ \/ state'[f] = state[f]
             \/ state[f] = "rotating" /\ state'[f] \in {"live", "ended"}
      BY <2>2, <3>1, TypesAtHand DEF PostGranted, PostFails, Becomes
    <3>3. QED BY <3>2, Moving
  <2>3. QED
    BY <1>1, <1>4, <2>1, <2>2 DEF SignsIn, Popup, Post, PostArrives, PostRefused
<1>5. CASE Leaves
  <2>1. /\ holder' = holder
        /\ \/ state'[f] = state[f]
           \/ state[f] = "live" /\ state'[f] = "ended"
           \/ state[f] = "rotating" /\ state'[f] \in {"live", "ended"}
    BY <1>5, TypesAtHand
    DEF Leaves, LogoutAsk, LogoutServed, LogoutArrives, LogoutLost, Reload,
        Rotated, Becomes, Live, server
  <2>2. QED BY <2>1, Moving
<1>6. CASE \E w \in Callers : Calls(w)
  BY <1>1, <1>6
  DEF Calls, CallAnswered, CallDenied, CallLost, OtherCall
<1>7. CASE UNCHANGED vars
  BY <1>1, <1>7 DEF vars
<1>8. QED BY <1>2, <1>3, <1>4, <1>5, <1>6, <1>7, Steps

(* The server that the tab is modelled against is one that Sessions          *)
(* implements: what the tab's calls do to a session, answered, cut or lost,  *)
(* is what a request may do to one.                                          *)
THEOREM TabServerIsSessionChain == Spec => ServerIsSessionChain
<1>1. Init => Chain!CInit
  BY DEF Init
<1>2. TypeInv /\ TypeInv' /\ ServerInv /\ [Next]_vars =>
         [Chain!CNext]_Chain!cvars
  <2> SUFFICES ASSUME TypeInv, TypeInv', ServerInv, [Next]_vars
               PROVE  Chain!CNext
    OBVIOUS
  <2>1. /\ state' \in [Families -> Chain!States]
        /\ holder' \in [Families -> Users \cup {NoUser}]
    BY DEF TypeInv, ServerOK, People
  <2>2. QED BY <2>1, EverySessionMoves DEF Chain!CNext, Moves
<1>3. QED
  BY <1>1, <1>2, ServerHolds, PTL DEF Spec, ServerIsSessionChain, Chain!CSpec
(***************************************************************************)
(* The cookies.  A cookie that can still be presented is the newest of its *)
(* family, or one that the server no longer knows.  The exception is the   *)
(* jar's while its successor is on the way, and nothing presents it then:  *)
(* there is one flight.                                                    *)
(***************************************************************************)
Current(ck) == ck = NoCookie \/ ck \in gone \/ ck.number = claimed[ck.family]

CookieInv == ~excused =>
    /\ burnt = {}
    /\ refresh[1].at \notin {"taken", "granted"} => Current(jar)
    /\ refresh[1].at \in {"asked", "granted"} => Current(refresh[1].cookie)

LEMMA CookieKept ==
    ASSUME TypeInv, ServerInv, CookieInv, UNCHANGED <<excused, burnt, claimed>>,
           gone \subseteq gone', jar' \in {jar, NoCookie},
           refresh' = refresh \/ (refresh' = RefreshAccess /\ jar' = jar)
    PROVE  CookieInv'
<1> SUFFICES ASSUME ~excused PROVE CookieInv'
  BY DEF CookieInv
<1>1. \A ck : Current(ck) => Current(ck)'
  BY DEF Current
<1>2. Current(NoCookie)'
  BY DEF Current
<1>3. CASE refresh' = refresh
  BY <1>1, <1>2, <1>3 DEF CookieInv
<1>4. CASE refresh' # refresh
  <2>1. /\ refresh[1].at = "none" /\ refresh'[1].at = "asked"
        /\ refresh'[1].cookie = jar /\ jar' = jar
    BY <1>4, TypesAtHand DEF RefreshAccess, Flying, Flight
  <2>2. QED BY <1>1, <2>1 DEF CookieInv
<1>5. QED BY <1>3, <1>4

LEMMA CookieServes ==
    ASSUME TypeInv, ServerInv, CookieInv, NEW s \in Flights, Serves(s)
    PROVE  CookieInv'
<1> SUFFICES ASSUME ~excused, ~excused' PROVE CookieInv'
  BY DEF CookieInv, Serves, RefreshServed, OfServer, RefreshBreaks
<1>1. s = 1 /\ jar' = jar /\ gone' = gone
  BY TypesAtHand
  DEF ServerInv, Serves, RefreshServed, OfServer, RefreshTaken, RefreshGranted,
      RefreshRefused, RefreshBreaks, Flying
<1>2. CASE RefreshTaken(1)
  <2>1. refresh'[1].at = "taken" /\ burnt' = burnt
    BY <1>2, TypesAtHand DEF RefreshTaken
  <2>2. QED BY <2>1 DEF CookieInv
<1>3. CASE RefreshGranted(1)
  <2> DEFINE f0 == refresh[1].cookie.family
  <2>1. /\ refresh'[1] = Flight("granted", Cookie(f0, claimed[f0]))
        /\ UNCHANGED <<burnt, claimed>>
    BY <1>3, TypesAtHand DEF RefreshGranted
  <2>2. refresh'[1].at = "granted" /\ refresh'[1].cookie = Cookie(f0, claimed[f0])
    BY <2>1 DEF Flight
  <2>3. Current(refresh[1].cookie)'
    BY <2>1, <2>2 DEF Current, Cookie
  <2>4. QED BY <2>1, <2>2, <2>3 DEF CookieInv
<1>4. CASE RefreshRefused(1)
  <2> DEFINE ck == refresh[1].cookie
  <2>1. /\ refresh[1].at = "asked" /\ refresh'[1].at = "refused"
        /\ claimed' = claimed /\ Current(ck) /\ Current(jar)
        /\ ck \in RealCookies
    BY <1>4, TypesAtHand DEF RefreshRefused, CookieInv
  <2>2. ~Replayed(ck)
    <3>1. ck # NoCookie => ck.family \in Families /\ claimed[ck.family] \in Int
      BY <2>1, TypesAtHand
    <3>2. QED BY <2>1, <3>1 DEF Current, Replayed
  <2>3. burnt' = burnt
    BY <1>4, <2>2 DEF RefreshRefused
  <2>4. Current(jar)'
    BY <1>1, <2>1 DEF Current
  <2>5. QED BY <2>1, <2>3, <2>4 DEF CookieInv
<1>5. QED
  BY <1>1, <1>2, <1>3, <1>4 DEF Serves, RefreshServed, OfServer, RefreshBreaks

LEMMA CookieStep == TypeInv /\ ServerInv /\ CookieInv /\ [Next]_vars => CookieInv'
<1> SUFFICES ASSUME TypeInv, ServerInv, CookieInv, [Next]_vars, ~excused'
             PROVE  CookieInv'
  BY DEF CookieInv
<1>1. ASSUME NEW s \in Flights, Refreshes(s)
      PROVE  CookieInv'
  <2>1. /\ s = 1 /\ refresh'[1].at = "none" /\ refresh[1].at \in {"granted", "refused"}
        /\ UNCHANGED <<claimed, gone, burnt, excused>>
        /\ jar' = IF refresh[1].at = "granted" THEN refresh[1].cookie ELSE jar
    BY <1>1, TypesAtHand
    DEF Refreshes, RefreshArrives, RefreshFails, RefreshLost, ServerInv, Flying,
        NoFlight, Flight, server
  <2>2. Current(jar')
    BY <2>1 DEF CookieInv
  <2>3. Current(jar)'
    BY <2>1, <2>2 DEF Current
  <2>4. QED BY <2>1, <2>3 DEF CookieInv
<1>2. ASSUME NEW w \in Callers, Calls(w)
      PROVE  CookieInv'
  BY <1>2, CookieKept
  DEF Calls, CallAnswered, CallDenied, CallLost, CallFailed, OtherCall,
      SameSession, server
<1>3. ASSUME NEW f \in Families, Expires(f)
      PROVE  CookieInv'
  BY <1>3, CookieKept DEF Expires, OfServer, SessionExpires
<1>4. CASE SignsIn
  <2>1. CASE PostArrives
    <3> DEFINE f == work["login"].family
    <3>1. /\ Signed(f) /\ f \in Families /\ jar' = Cookie(f, 0)
          /\ UNCHANGED <<server, refresh, excused>>
      BY <2>1, TypesAtHand DEF PostArrives, Signed, At
    <3>2. claimed[f] = 0
      BY <3>1 DEF ServerInv, Secret, Unseen
    <3>3. Current(jar)'
      BY <3>1, <3>2 DEF Current, Cookie, server
    <3>4. Current(refresh[1].cookie) => Current(refresh[1].cookie)'
      BY <3>1 DEF Current, server
    <3>5. QED BY <3>1, <3>3, <3>4 DEF CookieInv, server
  <2>2. CASE ~PostArrives
    BY <1>4, <2>2, CookieKept
    DEF SignsIn, Popup, Post, PostTaken, PostGranted, PostRefused, PostFails,
        SameSession, server
  <2>3. QED BY <2>1, <2>2
<1>5. CASE Leaves
  <2>1. CASE Reload
    <3>1. /\ ~Flying(1) /\ ~excused /\ UNCHANGED <<claimed, gone, burnt, jar>>
          /\ refresh'[1].at = "asked" /\ refresh'[1].cookie = jar
      BY <2>1, TypesAtHand DEF Reload, Asking, Flight
    <3>2. Current(jar)'
      BY <3>1 DEF CookieInv, Flying, Current
    <3>3. QED BY <3>1, <3>2 DEF CookieInv
  <2>2. CASE ~Reload
    BY <1>5, <2>2, CookieKept
    DEF Leaves, LogoutAsk, LogoutServed, LogoutArrives, LogoutLost, server
  <2>3. QED BY <2>1, <2>2
<1>6. CASE UNCHANGED vars
  BY <1>6, CookieKept DEF vars, server
<1>7. QED BY <1>1, <1>2, <1>3, <1>4, <1>5, <1>6, Steps, CookieServes

(* However calls, logins, logouts and boots overlap, a tab presents each of *)
(* its refresh tokens once, and no session of its is revoked for a replay,  *)
(* as long as the successors of its tokens arrive.                          *)
THEOREM NeverTakenForAThief == Spec => []NoReplay
<1>1. Init => CookieInv
  BY DEF Init, CookieInv, Current, Asking, Flight, Flights
<1>2. CookieInv => NoReplay
  BY DEF CookieInv, NoReplay
<1>3. QED BY <1>1, <1>2, CookieStep, ServerHolds, PTL DEF Spec
(***************************************************************************)
(* The account.  What a page may still come by, the token it has, the      *)
(* cookie in the jar and the one in flight, is all of one user: the one it *)
(* shows, or is about to show.                                             *)
(***************************************************************************)
Of(ck, u) == ck # NoCookie => holder[ck.family] = u

Settled(u) == /\ token \in {NoUser, u} /\ Of(jar, u)
              /\ Flying(1) => Of(refresh[1].cookie, u)

\* The list is called for, and shown, on a page that is signed in.
Hidden == status # "authed" => At("list", "idle") /\ shown = NoUser

BootAlone ==
    ~At("boot", "idle") =>
        /\ status = "loading" /\ At("login", "idle") /\ At("other", "idle")
        /\ work["boot"].at \in {"sent", "resent"} => ~Flying(1)

SignedOut == ~At("login", "idle") => status # "authed"

OwnCalls == \A w \in {"boot", "login"} :
               work[w].at \in {"sent", "resent"} => Settled(work[w].as)

Shows == status = "authed" =>
            /\ Settled(user) /\ shown \in {NoUser, user}
            /\ work["list"].as \in {NoUser, user}

Uncrossed == ~Crossing /\ BootAlone /\ SignedOut /\ OwnCalls /\ Shows

AccountInv == Hidden /\ (~crossed => Uncrossed)

LEMMA InitAccount == Init => AccountInv
BY DEF Init, AccountInv, Hidden, Uncrossed, Crossing, BootAlone, SignedOut,
       OwnCalls, Shows, Booting, Asking, Flying, Flight, NoFlight, At, Call,
       NoCall, Flights, Callers

\* The calls after a screen has changed over calls wk.
LEMMA AfterScreen ==
    ASSUME TypeInv, NEW st, NEW u, NEW wk,
           wk \in [Callers -> [at : AtBoot \cup AtLogin, as : People,
                               family : Families \cup {NoFamily}]],
           Screen(st, u, wk)
    PROVE  /\ status' = st /\ user' = u
           /\ shown' = IF st = "authed" /\ status = "authed" THEN shown ELSE NoUser
           /\ work'["boot"] = wk["boot"] /\ work'["login"] = wk["login"]
           /\ work'["other"] = wk["other"]
           /\ work'["list"] = IF st # "authed" THEN NoCall
                              ELSE IF status = "authed" THEN wk["list"]
                              ELSE Call("sent", token')
BY DEF Screen, Callers

LEMMA ListHidden == TypeInv /\ Hidden /\ [Next]_vars => Hidden'
<1> SUFFICES ASSUME TypeInv, Hidden, [Next]_vars PROVE Hidden'
  OBVIOUS
<1>1. ASSUME NEW st, NEW u, NEW wk,
             wk \in [Callers -> [at : AtBoot \cup AtLogin, as : People,
                                 family : Families \cup {NoFamily}]],
             Screen(st, u, wk)
      PROVE  Hidden'
  BY <1>1, AfterScreen DEF Hidden, At, NoCall, Call
<1>2. ASSUME UNCHANGED <<status, shown>>,
             At("list", "idle") => At("list", "idle")'
      PROVE  Hidden'
  BY <1>2 DEF Hidden
<1>3. /\ \A w \in Callers : WorkOK(Finished(w))
      /\ WorkOK([w \in Callers |-> Rejected(w)])
      /\ \A wk : WorkOK(wk) =>
            wk \in [Callers -> [at : AtBoot \cup AtLogin, as : People,
                                family : Families \cup {NoFamily}]]
  BY CallsTyped DEF TypeInv, WorkOK
<1>4. ASSUME NEW s \in Flights, Refreshes(s)
      PROVE  Hidden'
  <2>1. CASE RefreshArrives(s)
    BY <1>2, <2>1, TypesAtHand DEF RefreshArrives, screen, Resumed, At
  <2>2. CASE RefreshFails(s) \/ RefreshLost(s)
    BY <1>1, <1>3, <2>2 DEF RefreshFails, RefreshLost
  <2>3. QED BY <1>4, <2>1, <2>2 DEF Refreshes
<1>5. ASSUME NEW w \in Callers, Calls(w)
      PROVE  Hidden'
  <2>1. CASE CallFailed(w)
    BY <1>1, <1>3, <2>1 DEF CallFailed
  <2>2. CASE CallAnswered(w)
    <3>1. CASE w \in {"boot", "login"}
      BY <1>1, <1>3, <2>2, <3>1 DEF CallAnswered
    <3>2. CASE w \notin {"boot", "login"}
      <4>1. /\ status' = status /\ work' = Finished(w) /\ ~At(w, "idle")
            /\ shown' = IF w = "list" THEN work[w].as ELSE shown
        BY <2>2, <3>2 DEF CallAnswered, At
      <4>2. QED BY <4>1, TypesAtHand DEF Hidden, At, Finished, NoCall, Call
    <3>3. QED BY <3>1, <3>2
  <2>3. CASE OtherCall
    BY <1>2, <2>3, TypesAtHand DEF OtherCall, screen, At
  <2>4. CASE /\ At(w, "sent") /\ UNCHANGED screen
             /\ work' = [work EXCEPT ![w] = Call("waits", NoUser)]
    BY <1>2, <2>4, TypesAtHand DEF screen, At
  <2>5. QED BY <1>5, <2>1, <2>2, <2>3, <2>4 DEF Calls, CallDenied, CallLost
<1>6. CASE SignsIn
  BY <1>2, <1>6, LoginMoves, TypesAtHand
  DEF SignsIn, Popup, Post, PostTaken, PostGranted, PostArrives, PostRefused,
      PostFails, screen, At, TypeInv
<1>7. CASE Leaves
  <2>1. CASE Reload
    BY <2>1, TypesAtHand DEF Reload, Booting, Hidden, At, NoCall, Call
  <2>2. CASE LogoutArrives
    BY <1>1, <1>3, <2>2 DEF LogoutArrives, TypeInv
  <2>3. QED
    BY <1>2, <1>7, <2>1, <2>2
    DEF Leaves, LogoutAsk, LogoutServed, LogoutLost, screen, At
<1>8. ASSUME NEW s \in Flights, NEW f \in Families, Serves(s) \/ Expires(f)
      PROVE  Hidden'
  BY <1>2, <1>8
  DEF Serves, RefreshServed, OfServer, RefreshBreaks, Expires, screen, At
<1>9. ASSUME NEW s \in Flights, Serves(s)
      PROVE  Hidden'
  BY <1>2, <1>9 DEF Serves, RefreshServed, OfServer, RefreshBreaks, screen, At
<1>10. CASE UNCHANGED vars
  BY <1>2, <1>10 DEF vars, screen, At
<1>11. QED
  BY <1>4, <1>5, <1>6, <1>7, <1>8, <1>9, <1>10, Steps, TypesAtHand

\* What is settled stays so: nothing new comes to the page.
LEMMA SettledKept ==
    ASSUME NEW u, Settled(u), token' \in {token, NoUser}, holder' = holder,
           jar' \in {jar, NoCookie},
           Flying(1)' => \/ refresh'[1].cookie = jar
                         \/ Flying(1) /\ refresh'[1].cookie = refresh[1].cookie
    PROVE  Settled(u)'
BY DEF Settled, Of
\* A step by which nothing starts, and nothing new comes to the page.
LEMMA AccountKept ==
    ASSUME Uncrossed, ~Crossing', holder' = holder,
           token' \in {token, NoUser}, jar' \in {jar, NoCookie},
           Flying(1)' => \/ refresh'[1].cookie = jar
                         \/ Flying(1) /\ refresh'[1].cookie = refresh[1].cookie,
           Flying(1)' /\ ~Flying(1) => work'["boot"].at \notin {"sent", "resent"},
           UNCHANGED <<status, user, shown>>,
           \A w \in {"boot", "login", "other"} :
              /\ At(w, "idle") => At(w, "idle")'
              /\ work'[w].at \in {"sent", "resent"} => work'[w] = work[w],
           work'["list"].as \in {NoUser, work["list"].as}
    PROVE  Uncrossed'
<1>1. \A u : Settled(u) => Settled(u)'
  BY SettledKept
<1>2. BootAlone' /\ SignedOut'
  BY DEF Uncrossed, BootAlone, SignedOut, At
<1>3. OwnCalls'
  BY <1>1 DEF Uncrossed, OwnCalls
<1>4. Shows'
  BY <1>1 DEF Uncrossed, Shows
<1>5. QED BY <1>2, <1>3, <1>4 DEF Uncrossed

LEMMA AccountServes ==
    ASSUME TypeInv, ServerInv, Uncrossed, ~Crossing', NEW s \in Flights, Serves(s)
    PROVE  Uncrossed'
<1>1. s = 1 /\ UNCHANGED <<holder, jar, token, work, status, user, shown>>
  BY TypesAtHand
  DEF ServerInv, Serves, RefreshServed, OfServer, RefreshTaken, RefreshGranted,
      RefreshRefused, RefreshBreaks, Flying, screen
<1>2. /\ Flying(1) <=> Flying(1)'
      /\ refresh'[1].cookie = refresh[1].cookie
         \/ /\ refresh[1].cookie # NoCookie
            /\ refresh'[1].cookie.family = refresh[1].cookie.family
  BY <1>1, TypesAtHand
  DEF Serves, RefreshServed, OfServer, RefreshTaken, RefreshGranted,
      RefreshRefused, RefreshBreaks, Flying, Flight, Cookie, TypeInv, FlightsOK
<1>3. \A u : Settled(u) => Settled(u)'
  BY <1>1, <1>2 DEF Settled, Of
<1>4. QED
  BY <1>1, <1>2, <1>3
  DEF Uncrossed, BootAlone, SignedOut, OwnCalls, Shows, At

\* The new token and cookie are of one user, whose calls go on.
LEMMA AccountArrives ==
    ASSUME TypeInv, ServerInv, Uncrossed, ~Crossing', NEW s \in Flights,
           RefreshArrives(s)
    PROVE  Uncrossed'
<1>0. PICK u : u = token'
  OBVIOUS
<1>1. /\ s = 1 /\ refresh[1].at = "granted" /\ Flying(1) /\ ~Flying(1)'
      /\ jar' = refresh[1].cookie /\ jar' # NoCookie
      /\ u = holder[refresh[1].cookie.family]
      /\ \A w \in Callers : work'[w] = Resumed(w, u)
      /\ UNCHANGED <<holder, status, user, shown>>
  BY <1>0, TypesAtHand
  DEF RefreshArrives, ServerInv, Flying, NoFlight, Flight, server, screen, TypeInv,
      FlightsOK
<1>2. Settled(u)' /\ \A v : Settled(v) => v = u
  BY <1>0, <1>1 DEF Settled, Of
<1>3. ASSUME NEW w \in Callers
      PROVE  /\ At(w, "idle") => work'[w] = work[w]
             /\ At(w, "idle")' => At(w, "idle")
             /\ work'[w].at \in {"sent", "resent"} =>
                   work'[w].as = u \/ (work'[w] = work[w])
             /\ work'[w].as \in {u, work[w].as}
  <2>1. work[w] \in [at : AtBoot \cup AtLogin, as : People,
                     family : Families \cup {NoFamily}]
    BY TypesAtHand
  <2>2. work'[w] = Resumed(w, u)
    BY <1>1
  <2>3. CASE At(w, "postwaits")
    BY <2>1, <2>2, <2>3 DEF Resumed, At
  <2>4. CASE ~At(w, "postwaits")
    BY <2>1, <2>2, <2>4 DEF Resumed, At, Call
  <2>5. QED BY <2>3, <2>4
<1>4. BootAlone' /\ SignedOut'
  BY <1>1, <1>3, TypesAtHand DEF Uncrossed, BootAlone, SignedOut, At
<1>5. OwnCalls'
  BY <1>2, <1>3, TypesAtHand DEF Uncrossed, OwnCalls
<1>6. Shows'
  <2>1. work'["list"].as \in {u, work["list"].as}
    BY <1>3, TypesAtHand
  <2>2. QED BY <1>1, <1>2, <2>1 DEF Uncrossed, Shows
<1>7. QED BY <1>4, <1>5, <1>6 DEF Uncrossed

LEMMA AccountFails ==
    ASSUME TypeInv, ServerInv, Hidden, Uncrossed, ~Crossing', NEW s \in Flights,
           RefreshFails(s) \/ RefreshLost(s)
    PROVE  Uncrossed'
<1> DEFINE wk == [w \in Callers |-> Rejected(w)]
<1>1. /\ s = 1 /\ Flying(1) /\ ~Flying(1)' /\ UNCHANGED <<holder, jar>>
      /\ token' \in {token, NoUser}
  BY TypesAtHand
  DEF RefreshFails, RefreshLost, RefreshUnheard, ServerInv, Flying, NoFlight,
      Flight, server
<1>2. PICK st, u : /\ Screen(st, u, wk) /\ st \in {"anon", status}
                   /\ Waiting("boot") => st = "anon"
                   /\ st = "authed" => u = user
  BY DEF RefreshFails, RefreshLost
<1>3. wk \in [Callers -> [at : AtBoot \cup AtLogin, as : People,
                          family : Families \cup {NoFamily}]]
  BY CallsTyped DEF TypeInv, WorkOK
<1>4. /\ status' = st /\ user' = u
      /\ st = "authed" => shown' = shown /\ status = "authed"
      /\ work'["boot"] = Rejected("boot") /\ work'["login"] = Rejected("login")
      /\ work'["other"] = Rejected("other")
      /\ st = "authed" => work'["list"] = Rejected("list")
  BY <1>2, <1>3, AfterScreen, TypesAtHand
<1>5. ~At("boot", "idle") => Waiting("boot")
  BY <1>1, TypesAtHand
  DEF Uncrossed, BootAlone, Waiting, At, TypeInv, WorkOK, AtBoot, Calling
<1>6. At("boot", "idle")'
  BY <1>4, <1>5 DEF Rejected, At, NoCall, Call
<1>7. SignedOut'
  BY <1>2, <1>4 DEF Uncrossed, SignedOut, Rejected, At, NoCall, Call
<1>8. \A v : Settled(v) => Settled(v)'
  BY <1>1, SettledKept
<1>9. OwnCalls'
  BY <1>4, <1>6, <1>8
  DEF Uncrossed, OwnCalls, Rejected, Waiting, At, NoCall, Call
<1>10. Shows'
  <2>1. st = "authed" => work'["list"].as \in {NoUser, work["list"].as}
    BY <1>4 DEF Rejected, NoCall, Call
  <2>2. QED BY <1>2, <1>4, <1>8, <2>1 DEF Uncrossed, Shows
<1>11. BootAlone'
  BY <1>6 DEF BootAlone
<1>12. QED BY <1>7, <1>9, <1>10, <1>11 DEF Uncrossed
\* A call is over; what it had is dropped.
LEMMA AccountCallFails ==
    ASSUME TypeInv, Uncrossed, ~Crossing', NEW w \in Callers, CallFailed(w),
           UNCHANGED <<holder, refresh>>
    PROVE  Uncrossed'
<1>1. UNCHANGED <<holder, jar, token, refresh>>
  BY DEF CallFailed, SameSession
<1>2. PICK st : /\ Screen(st, user, Finished(w))
                /\ IF w = "boot" THEN st = "anon" ELSE st = status
  BY DEF CallFailed
<1>3. Finished(w) \in [Callers -> [at : AtBoot \cup AtLogin, as : People,
                                   family : Families \cup {NoFamily}]]
  BY CallsTyped DEF TypeInv, WorkOK
<1>4. /\ status' = st /\ user' = user
      /\ st = "authed" => shown' = shown /\ status = "authed"
      /\ \A v \in {"boot", "login", "other"} : work'[v] \in {work[v], NoCall}
      /\ st = "authed" => work'["list"] \in {work["list"], NoCall}
      /\ w = "boot" => work'["boot"] = NoCall
  <2>1. \A v \in Callers : Finished(w)[v] = IF v = w THEN NoCall ELSE work[v]
    BY TypesAtHand DEF Finished
  <2>2. /\ status' = st /\ user' = user
        /\ shown' = IF st = "authed" /\ status = "authed" THEN shown ELSE NoUser
        /\ \A v \in {"boot", "login", "other"} : work'[v] = Finished(w)[v]
        /\ st = "authed" /\ status = "authed" => work'["list"] = Finished(w)["list"]
    BY <1>2, <1>3, AfterScreen
  <2>3. st = "authed" => status = "authed"
    BY <1>2
  <2>4. QED BY <2>1, <2>2, <2>3, TypesAtHand
<1>5. \A v : Settled(v) => Settled(v)'
  BY <1>1, SettledKept DEF Flying
<1>6. BootAlone'
  BY <1>1, <1>2, <1>4 DEF Uncrossed, BootAlone, At, NoCall, Call, Flying
<1>7. SignedOut'
  BY <1>2, <1>4 DEF Uncrossed, SignedOut, At, NoCall, Call
<1>8. OwnCalls'
  BY <1>4, <1>5 DEF Uncrossed, OwnCalls, NoCall, Call
<1>9. Shows'
  BY <1>4, <1>5 DEF Uncrossed, Shows, NoCall, Call
<1>10. QED BY <1>6, <1>7, <1>8, <1>9 DEF Uncrossed

\* The boot or a login has its answer: its account is shown.
LEMMA AccountShown ==
    ASSUME TypeInv, Uncrossed, ~Crossing', NEW w \in {"boot", "login"},
           CallAnswered(w)
    PROVE  Uncrossed'
<1>1. /\ UNCHANGED <<holder, jar, token, refresh>>
      /\ work[w].at \in {"sent", "resent"} /\ ~At(w, "idle")
      /\ Screen("authed", work[w].as, Finished(w))
  BY DEF CallAnswered, At, SameSession, server
<1>2. status # "authed" /\ \A v \in {"boot", "login"} : v # w => At(v, "idle")
  BY <1>1 DEF Uncrossed, BootAlone, SignedOut
<1>3. Finished(w) \in [Callers -> [at : AtBoot \cup AtLogin, as : People,
                                   family : Families \cup {NoFamily}]]
  BY CallsTyped, TypesAtHand DEF TypeInv, WorkOK
<1>4. /\ status' = "authed" /\ user' = work[w].as /\ shown' = NoUser
      /\ work'["list"] = Call("sent", token)
      /\ \A v \in {"boot", "login"} : At(v, "idle")'
  <2>1. \A v \in Callers : Finished(w)[v] = IF v = w THEN NoCall ELSE work[v]
    BY TypesAtHand DEF Finished
  <2>2. /\ status' = "authed" /\ user' = work[w].as /\ shown' = NoUser
        /\ work'["list"] = Call("sent", token')
        /\ \A v \in {"boot", "login"} : work'[v] = Finished(w)[v]
    BY <1>1, <1>2, <1>3, AfterScreen
  <2>3. QED BY <1>1, <1>2, <2>1, <2>2, TypesAtHand DEF At, NoCall, Call
<1>5. Settled(work[w].as)
  BY <1>1 DEF Uncrossed, OwnCalls
<1>6. \A v : Settled(v) => Settled(v)'
  BY <1>1, SettledKept DEF Flying
<1>7. Shows'
  BY <1>1, <1>4, <1>5, <1>6 DEF Shows, Settled, Call
<1>8. BootAlone' /\ SignedOut' /\ OwnCalls'
  BY <1>4 DEF BootAlone, SignedOut, OwnCalls, At
<1>9. QED BY <1>7, <1>8 DEF Uncrossed

LEMMA AccountCalls ==
    ASSUME TypeInv, Hidden, Uncrossed, ~Crossing', NEW w \in Callers, Calls(w)
    PROVE  Uncrossed'
<1>1. CASE CallAnswered(w)
  <2>1. CASE w \in {"boot", "login"}
    BY <1>1, <2>1, AccountShown
  <2>2. CASE w \in {"list", "other"}
    <3>1. /\ UNCHANGED <<holder, jar, token, refresh, status, user>>
          /\ work' = Finished(w) /\ ~At(w, "idle")
          /\ shown' = IF w = "list" THEN work["list"].as ELSE shown
      BY <1>1, <2>2 DEF CallAnswered, At, SameSession, server
    <3>2. /\ work'["boot"] = work["boot"] /\ work'["login"] = work["login"]
          /\ work'["other"] \in {work["other"], NoCall}
          /\ work'["list"] \in {work["list"], NoCall}
      BY <2>2, <3>1, TypesAtHand DEF Finished
    <3>3. \A v : Settled(v) => Settled(v)'
      BY <3>1, SettledKept DEF Flying
    <3>4. Shows'
      BY <3>1, <3>2, <3>3 DEF Uncrossed, Shows, NoCall, Call
    <3>5. BootAlone' /\ SignedOut' /\ OwnCalls'
      BY <3>1, <3>2, <3>3
      DEF Uncrossed, BootAlone, SignedOut, OwnCalls, At, NoCall, Call, Flying
    <3>6. QED BY <3>4, <3>5 DEF Uncrossed
  <2>3. QED BY <2>1, <2>2, TypesAtHand
<1>2. CASE At(w, "sent") /\ CallDenied(w)
  <2>1. /\ refresh' = RefreshAccess
        /\ work' = [work EXCEPT ![w] = Call("waits", NoUser)]
        /\ UNCHANGED <<holder, jar, token, status, user, shown>>
        /\ ~At(w, "idle")
    BY <1>2 DEF CallDenied, SameSession, screen, server, At
  <2>2. \/ RefreshAccess = refresh
        \/ ~Flying(1) /\ RefreshAccess[1] = Flight("asked", jar)
    BY TypesAtHand DEF RefreshAccess
  <2>3. Flying(1)' => \/ refresh'[1].cookie = jar
                      \/ Flying(1) /\ refresh'[1].cookie = refresh[1].cookie
    BY <2>1, <2>2 DEF Flying, Flight
  <2>4. ~At("boot", "idle") => w = "boot"
    BY <2>1, TypesAtHand DEF Uncrossed, BootAlone, Hidden
  <2>5. /\ \A v \in Callers : work'[v] = IF v = w THEN Call("waits", NoUser)
                                                  ELSE work[v]
        /\ ~At(w, "idle")'
    BY <2>1, TypesAtHand DEF At, Call
  <2>6. work'["boot"].at \notin {"sent", "resent"} \/ w # "boot"
    BY <2>5, TypesAtHand DEF Call
  <2>7. Flying(1)' /\ ~Flying(1) => work'["boot"].at \notin {"sent", "resent"}
    BY <2>4, <2>5, <2>6, TypesAtHand DEF At
  <2>8. /\ \A v \in {"boot", "login", "other"} :
              /\ At(v, "idle") => At(v, "idle")'
              /\ work'[v].at \in {"sent", "resent"} => work'[v] = work[v]
        /\ work'["list"].as \in {NoUser, work["list"].as}
    BY <2>1, <2>5, TypesAtHand DEF At, Call
  <2>9. QED BY <2>1, <2>3, <2>7, <2>8, AccountKept
<1>3. CASE CallLost(w) \/ (At(w, "resent") /\ CallDenied(w))
  BY <1>3, AccountCallFails DEF CallLost, CallDenied, At, server
<1>4. CASE OtherCall
  <2>1. /\ status = "authed"
        /\ UNCHANGED <<holder, jar, token, refresh, status, user, shown>>
        /\ \A v \in {"boot", "login", "list"} : work'[v] = work[v]
    BY <1>4, TypesAtHand DEF OtherCall, SameSession, screen, server
  <2>2. \A v : Settled(v) => Settled(v)'
    BY <2>1, SettledKept DEF Flying
  <2>3. QED
    BY <2>1, <2>2 DEF Uncrossed, BootAlone, SignedOut, OwnCalls, Shows, At
<1>5. QED BY <1>1, <1>2, <1>3, <1>4 DEF Calls, CallDenied
LEMMA AccountSignsIn ==
    ASSUME TypeInv, ServerInv, Uncrossed, ~Crossing', SignsIn
    PROVE  Uncrossed'
<1>1. /\ UNCHANGED <<status, user, shown>>
      /\ \A w \in Callers \ {"login"} : work'[w] = work[w]
      /\ status # "authed"
  <2>1. /\ UNCHANGED <<status, user, shown>>
        /\ status # "authed" \/ ~At("login", "idle")
    BY DEF SignsIn, Popup, Post, PostTaken, PostGranted, PostArrives, PostRefused,
           PostFails, SameSession, screen, At, Posting
  <2>2. QED BY <2>1, LoginMoves DEF TypeInv, Uncrossed, SignedOut
<1>2. At("boot", "idle")'
  <2>1. CASE At("login", "idle")
    <3>1. work'["login"].at = "popup"
      BY <2>1, TypesAtHand
      DEF SignsIn, Popup, Post, PostTaken, PostGranted, PostArrives, PostRefused,
          PostFails, At, Posting, Login, Call
    <3>2. QED BY <3>1 DEF Crossing
  <2>2. CASE ~At("login", "idle")
    BY <1>1, <2>2, TypesAtHand DEF Uncrossed, BootAlone, At
  <2>3. QED BY <2>1, <2>2
<1>3. CASE PostArrives
  <2>1. PICK u, f : u = work["login"].as /\ f = work["login"].family
    OBVIOUS
  <2>2. /\ Signed(f) /\ f \in Families /\ jar' = Cookie(f, 0) /\ token' = u
        /\ work'["login"].as = u /\ UNCHANGED <<holder, refresh>>
        /\ At("login", "granted")
    BY <1>3, <2>1, TypesAtHand DEF PostArrives, Signed, At, Login, Call, server
  <2>3. ~Flying(1)' /\ holder[f] = u
    BY <2>1, <2>2, TypesAtHand
    DEF Uncrossed, Crossing, At, ServerInv, Exchanged, Flying
  <2>4. Settled(u)'
    BY <2>2, <2>3 DEF Settled, Of, Cookie
  <2>5. QED
    BY <1>1, <1>2, <2>2, <2>4
    DEF Uncrossed, BootAlone, SignedOut, OwnCalls, Shows, At
<1>4. CASE ~PostArrives
  <2>1. work'["login"].at \notin {"sent", "resent"}
    <3>1. /\ work["login"] \in [at : AtBoot \cup AtLogin, as : People,
                                family : Families \cup {NoFamily}]
          /\ \A wk : Login(wk) => work'["login"] = wk
      BY TypesAtHand DEF Login
    <3>2. CASE \E u \in Users : Popup(u)
      <4>1. PICK u \in Users : work'["login"] = Call("popup", u)
        BY <3>1, <3>2 DEF Popup
      <4>2. QED BY <4>1 DEF Call
    <3>0. CASE Post \/ PostGranted
      BY <3>0, <3>1 DEF Post, PostGranted
    <3>3. CASE \E f \in Families : PostTaken(f)
      BY <3>1, <3>3 DEF PostTaken
    <3>4. CASE PostRefused
      BY <3>1, <3>4 DEF PostRefused, NoCall, Call
    <3>5. CASE PostFails
      BY <3>1, <3>5 DEF PostFails, NoCall, Call
    <3>6. QED BY <1>4, <3>0, <3>2, <3>3, <3>4, <3>5 DEF SignsIn
  <2>2. QED
    BY <1>1, <1>2, <2>1
    DEF Uncrossed, BootAlone, SignedOut, OwnCalls, Shows, At
<1>5. QED BY <1>3, <1>4

LEMMA AccountLeaves ==
    ASSUME TypeInv, Uncrossed, ~Crossing', Leaves
    PROVE  Uncrossed'
<1>1. CASE LogoutAsk \/ LogoutServed \/ LogoutLost
  <2>1. /\ UNCHANGED <<holder, jar, refresh, work, status, user, shown>>
        /\ token' \in {token, NoUser}
    BY <1>1 DEF LogoutAsk, LogoutServed, LogoutLost, server, screen
  <2>2. QED BY <2>1, AccountKept DEF Flying, At
<1>2. CASE LogoutArrives
  <2>1. /\ UNCHANGED <<holder, refresh>> /\ jar' = NoCookie /\ token' = NoUser
        /\ logout.at = "answered" /\ Screen("anon", NoUser, work)
    BY <1>2 DEF LogoutArrives, server
  <2>2. /\ status' = "anon" /\ work'["boot"] = work["boot"]
        /\ work'["login"] = work["login"]
    BY <2>1, AfterScreen DEF TypeInv, WorkOK
  <2>3. At("boot", "idle")
    BY <2>1 DEF Uncrossed, Crossing
  <2>4. \A v : Settled(v) => Settled(v)'
    BY <2>1, SettledKept DEF Flying
  <2>5. QED
    BY <2>2, <2>3, <2>4
    DEF Uncrossed, BootAlone, SignedOut, OwnCalls, Shows, At
<1>3. CASE Reload
  <2>1. /\ status' = "loading"
        /\ work'["boot"].at = "first" /\ work'["login"].at = "idle"
        /\ work'["other"].at = "idle"
    BY <1>3, TypesAtHand DEF Reload, Booting, NoCall, Call
  <2>2. QED
    BY <2>1 DEF Uncrossed, BootAlone, SignedOut, OwnCalls, Shows, At
<1>4. QED BY <1>1, <1>2, <1>3 DEF Leaves

LEMMA AccountStep ==
    TypeInv /\ ServerInv /\ AccountInv /\ [Next]_vars => AccountInv'
<1> SUFFICES ASSUME TypeInv, ServerInv, AccountInv, [Next]_vars
             PROVE  ~crossed' => Uncrossed'
  BY ListHidden DEF AccountInv
<1>1. CASE UNCHANGED vars
  BY <1>1
  DEF vars, server, screen, AccountInv, Uncrossed, Crossing, BootAlone, SignedOut,
      OwnCalls, Shows, Settled, Of, Flying, At
<1>2. ASSUME Next, ~crossed'
      PROVE  Uncrossed'
  <2>1. Hidden /\ Uncrossed /\ ~Crossing'
    BY <1>2, Steps DEF AccountInv, TypeInv, RestOK
  <2>2. ASSUME NEW f \in Families, Expires(f)
        PROVE  Uncrossed'
    <3>1. UNCHANGED <<holder, jar, token, refresh, work, status, user, shown>>
      BY <2>2 DEF Expires, OfServer, SessionExpires, screen
    <3>2. QED BY <2>1, <3>1, AccountKept DEF Flying, At
  <2>3. QED
    BY <1>2, <2>1, <2>2, Steps, AccountServes, AccountArrives, AccountFails,
       AccountCalls, AccountSignsIn, AccountLeaves
    DEF Refreshes
<1>3. QED BY <1>1, <1>2

(* Calls are made for the account that is shown, and the conversations that *)
(* the sidebar lists are its own, however refreshes, expiries, failures and *)
(* reloads interleave, unless a login or a logout crossed a boot or a       *)
(* refresh (api.ts:60, 76; auth-context.tsx:54).                            *)
THEOREM OneAccountAtATime == Spec => []OneAccount
<1>1. TypeInv /\ AccountInv => OneAccount
  <2> SUFFICES ASSUME TypeInv, AccountInv, ~crossed
               PROVE  /\ status = "authed" => token \in {NoUser, user}
                      /\ shown # NoUser => shown = user
    BY DEF OneAccount
  <2>1. QED BY DEF AccountInv, Hidden, Uncrossed, Shows, Settled
<1>2. QED BY <1>1, InitAccount, AccountStep, ServerHolds, PTL DEF Spec

=============================================================================
