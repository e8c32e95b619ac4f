------------------------------ MODULE AuthTabs ------------------------------
(***************************************************************************)
(* The clients of AuthSessions: http.ts and sessionStore.ts of the web and *)
(* the mobile app, and their sign-in and sign-out (session.tsx).           *)
(*                                                                         *)
(* A tab keeps one refresh token.  A request that came back 401 starts a   *)
(* refresh, which all of the tab's requests share; its answer counts only  *)
(* if the tab's tokens are still those it was sent with (`revision').  A   *)
(* browser's tab may be duplicated, token included.  Each worker of the    *)
(* server is here one request on its way, from sending to its answer.      *)
(*                                                                         *)
(* Access tokens, the data requests, login's own round trip and changes of *)
(* password (AuthSessions has them) are left out.                          *)
(***************************************************************************)
EXTENDS AuthSessions

CONSTANTS
    Tabs,           \* a browser's tabs, or one mobile app
    Mobile,         \* whether a network error leaves the tokens in place
    Loses,          \* whether requests and answers may be lost
    Duplicates      \* whether a tab may be duplicated

ASSUME TabsAssumption == {Mobile, Loses, Duplicates} \subseteq BOOLEAN

NoToken == [sid |-> "none", jti |-> 0, cred |-> 0]
NoFlight == [stage |-> "none"]
Flights ==
    {NoFlight}
    \cup [stage: {"sent", "taken", "refused"}, kind: {"refresh", "logout"}, tab: Tabs,
          tok: Tokens, current: BOOLEAN]
    \cup [stage: {"granted"}, kind: {"refresh"}, tab: Tabs, tok: Tokens, new: Tokens,
          current: BOOLEAN]

VARIABLES
    tab,        \* the refresh token in each tab's sessionStore
    flight,     \* requests on their way; `current' while revision has not moved
    home,       \* history: the token each tab last signed in with
    shared,     \* history: sessions held by a tab that was duplicated
    over,       \* history: sessions ended by a logout or their expiry
    thrown      \* history: sessions whose tab was signed out by a refusal

tabVars == <<tab, flight, home, shared, over, thrown>>
allVars == <<sessionVars, tabVars>>

TabsTypeOK ==
    /\ tab \in [Tabs -> Tokens \cup {NoToken}]
    /\ flight \in [Servers -> Flights]
    /\ home \in [Tabs -> Sids \cup {"none"}]
    /\ shared \subseteq Sids /\ over \subseteq Sids /\ thrown \subseteq Sids

Newest == CHOOSE tok \in issued' : tok.jti = jtis'

\* setTokens and clear move the tab's revision: its requests on their way are
\* no longer current.
Moved(t) == [w \in Servers |->
    IF flight[w].stage # "none" /\ flight[w].tab = t
    THEN [flight[w] EXCEPT !.current = FALSE] ELSE flight[w]]

-----------------------------------------------------------------------------
(* The tabs *)

SignIn(t, sid) ==
    /\ tab[t] = NoToken
    /\ Login(sid)
    /\ tab' = [tab EXCEPT ![t] = Newest]
    /\ home' = [home EXCEPT ![t] = sid]
    /\ flight' = Moved(t)
    /\ UNCHANGED <<shared, over, thrown>>

\* The fault of reading the token after it was cleared
SendsCleared(t) == NoToken
\* signOut reads the token, clears it, and does not wait for the logout.
LogoutSends(t) == tab[t]

SignOut(t, w) ==
    /\ tab[t] # NoToken
    /\ flight[w] = NoFlight /\ handling[w] = Unoccupied
    /\ flight' = [Moved(t) EXCEPT ![w] =
                    [stage |-> "sent", kind |-> "logout", tab |-> t, tok |-> LogoutSends(t),
                     current |-> FALSE]]
    /\ tab' = [tab EXCEPT ![t] = NoToken]
    /\ home' = [home EXCEPT ![t] = "none"]
    /\ UNCHANGED <<sessionVars, shared, over, thrown>>

Duplicate(t, u) ==
    /\ Duplicates
    /\ tab[t] # NoToken /\ tab[u] = NoToken
    /\ tab' = [tab EXCEPT ![u] = tab[t]]
    /\ home' = [home EXCEPT ![u] = home[t]]
    /\ shared' = shared \cup {tab[t].sid}
    /\ UNCHANGED <<sessionVars, flight, over, thrown>>

\* The fault of every request refreshing for itself
Unshared(t) == TRUE
\* refreshFlight: no refresh of the tab's present tokens is on its way
NoneOnItsWay(t) ==
    \A w \in Servers :
        flight[w].stage # "none" => ~(flight[w].tab = t /\ flight[w].current)

SendRefresh(t, w) ==
    /\ tab[t] # NoToken
    /\ NoneOnItsWay(t)
    /\ flight[w] = NoFlight /\ handling[w] = Unoccupied
    /\ flight' = [flight EXCEPT ![w] =
                    [stage |-> "sent", kind |-> "refresh", tab |-> t, tok |-> tab[t],
                     current |-> TRUE]]
    /\ UNCHANGED <<sessionVars, tab, home, shared, over, thrown>>

-----------------------------------------------------------------------------
(* The server: AuthSessions with an answer *)

Take(w) ==
    /\ flight[w].stage = "sent"
    /\ \/ /\ flight[w].kind = "refresh"
          /\ RefreshRead(w, flight[w].tok)
       \/ /\ flight[w].kind = "logout"
          /\ LogoutRead(w, flight[w].tok)
    /\ flight' = [flight EXCEPT ![w].stage = "taken"]
    /\ UNCHANGED <<tab, home, shared, over, thrown>>

Rotate(w) ==
    /\ RefreshRotate(w)
    /\ flight' = [flight EXCEPT ![w] =
                    IF flight[w].stage # "taken" THEN @
                    ELSE IF jtis' > jtis
                    THEN [stage |-> "granted", kind |-> "refresh", tab |-> @.tab,
                          tok |-> @.tok, new |-> Newest, current |-> @.current]
                    ELSE [@ EXCEPT !.stage = "refused"]]
    /\ UNCHANGED <<tab, home, shared, over, thrown>>

Revoke(w) ==
    /\ LogoutRevoke(w)
    /\ over' = IF Alive(handling[w].tok.sid) THEN over \cup {handling[w].tok.sid} ELSE over
    /\ flight' = [flight EXCEPT ![w] = NoFlight]
    /\ UNCHANGED <<tab, home, shared, thrown>>

Ends(sid) ==
    /\ Expire(sid)
    /\ over' = over \cup {sid}
    /\ UNCHANGED <<tab, flight, home, shared, thrown>>

Grace(sid) == GraceOver(sid) /\ UNCHANGED tabVars

-----------------------------------------------------------------------------
(* Answers *)

\* The fault of taking whatever answer comes
TakesAny(w) == TRUE
\* requestAccess: the revision has not moved
StillAwaited(w) == flight[w].current

Clear(t) ==
    /\ tab' = [tab EXCEPT ![t] = NoToken]
    /\ home' = [home EXCEPT ![t] = "none"]

\* The new tokens arrive, or arrive too late and are dropped
Granted(w) ==
    LET f == flight[w] IN
    /\ f.stage = "granted"
    /\ IF StillAwaited(w)
       THEN /\ tab' = [tab EXCEPT ![f.tab] = f.new]
            /\ flight' = [Moved(f.tab) EXCEPT ![w] = NoFlight]
       ELSE /\ flight' = [flight EXCEPT ![w] = NoFlight]
            /\ UNCHANGED tab
    /\ UNCHANGED <<sessionVars, home, shared, over, thrown>>

\* 401: the tab signs out, unless its tokens have moved on
Refused(w) ==
    LET f == flight[w] IN
    /\ f.stage = "refused"
    /\ IF f.current
       THEN /\ Clear(f.tab)
            /\ flight' = [Moved(f.tab) EXCEPT ![w] = NoFlight]
            /\ thrown' = IF f.tok.sid \in over THEN thrown ELSE thrown \cup {f.tok.sid}
       ELSE /\ flight' = [flight EXCEPT ![w] = NoFlight]
            /\ UNCHANGED <<tab, home, thrown>>
    /\ UNCHANGED <<sessionVars, shared, over>>

\* No answer: the web app signs out as if refused, the mobile app does not
Lost(w) ==
    LET f == flight[w] IN
    /\ Loses
    /\ f.stage # "none"
    /\ IF f.current /\ ~Mobile
       THEN /\ Clear(f.tab)
            /\ flight' = [Moved(f.tab) EXCEPT ![w] = NoFlight]
       ELSE /\ flight' = [flight EXCEPT ![w] = NoFlight]
            /\ UNCHANGED <<tab, home>>
    /\ UNCHANGED <<sessionVars, shared, over, thrown>>

-----------------------------------------------------------------------------
TabsInit ==
    /\ SessionsInit
    /\ tab = [t \in Tabs |-> NoToken]
    /\ flight = [w \in Servers |-> NoFlight]
    /\ home = [t \in Tabs |-> "none"]
    /\ shared = {} /\ over = {} /\ thrown = {}

TabNext(t) ==
    \/ \E sid \in Sids : SignIn(t, sid)
    \/ \E w \in Servers : SignOut(t, w) \/ SendRefresh(t, w)
    \/ \E u \in Tabs : Duplicate(t, u)
FlightNext(w) ==
    Take(w) \/ Rotate(w) \/ Revoke(w) \/ Granted(w) \/ Refused(w) \/ Lost(w)

TabsNext ==
    \/ \E t \in Tabs : TabNext(t)
    \/ \E w \in Servers : FlightNext(w)
    \/ \E sid \in Sids : Grace(sid) \/ Ends(sid)

TabsSpec == TabsInit /\ [][TabsNext]_allVars

-----------------------------------------------------------------------------
(* Properties *)

\* "Does not resurrect tokens when logout occurs during refresh", nor lets an
\* old refresh replace a new sign-in: what a tab holds belongs to its latest
\* sign-in, and it holds nothing when signed out, whatever answer comes late.
HoldsItsSignIn == \A t \in Tabs : tab[t].sid = home[t]

\* A tab that shares its session with no other, has not signed out and whose
\* session has not expired is never signed out by a refused refresh: theft
\* detection does not fire on a client that behaves.
NeverThrownOut == thrown \subseteq shared

-----------------------------------------------------------------------------
(* The inductive strengthening *)

OnItsWay(w) == flight[w].stage # "none"
Current(w) == OnItsWay(w) /\ flight[w].current

\* A request whose answer still counts is the refresh of the token its tab
\* holds; a request taken is being handled.
Fits(w) ==
    /\ OnItsWay(w) => flight[w].tok \in issued
    /\ Current(w) => flight[w].kind = "refresh" /\ flight[w].tok = tab[flight[w].tab]
    /\ flight[w].stage = "taken" =>
          handling[w].at = flight[w].kind /\ handling[w].tok = flight[w].tok
    /\ flight[w].stage \in {"sent", "granted", "refused"} => handling[w].at = "idle"
    /\ flight[w].stage = "granted" =>
          flight[w].new \in issued /\ flight[w].new.sid = flight[w].tok.sid

\* Tokens come from the server.
FlightsFit ==
    /\ \A t \in Tabs : tab[t] # NoToken => tab[t] \in issued
    /\ \A w \in Servers : Fits(w)

TabsInv == SessionsInv /\ TabsTypeOK /\ FlightsFit /\ HoldsItsSignIn

\* A tab awaits one refresh at a time.
OneAwaited ==
    \A v, w \in Servers : Current(v) /\ Current(w) /\ flight[v].tab = flight[w].tab => v = w

\* Nothing but its tab, and the refresh this tab awaits, uses the tokens of a
\* session that is not shared.
Alone(t) ==
    LET sid == tab[t].sid
    IN  /\ \A u \in Tabs : tab[u] # NoToken /\ tab[u].sid = sid => u = t
        /\ \A w \in Servers :
              /\ OnItsWay(w) /\ flight[w].tok.sid = sid => flight[w].tab = t /\ flight[w].current
              /\ handling[w].at \in {"refresh", "logout"} /\ handling[w].tok.sid = sid =>
                    flight[w].stage = "taken"

\* Its tab then holds the session's present token, or this is on its way to it.
Valid(t) ==
    LET sid == tab[t].sid
    IN  /\ Alive(sid)
        /\ \A w \in Servers :
              Current(w) /\ flight[w].tab = t =>
                  /\ flight[w].stage # "refused"
                  /\ flight[w].stage = "granted" => session[sid].cur = flight[w].new.jti
                  /\ flight[w].stage # "granted" => session[sid].cur = tab[t].jti
        /\ (\A w \in Servers : ~(Current(w) /\ flight[w].tab = t)) =>
              session[sid].cur = tab[t].jti

UnsharedIsValid ==
    \A t \in Tabs :
        /\ tab[t] # NoToken /\ tab[t].sid \notin shared => Alone(t)
        /\ tab[t] # NoToken /\ tab[t].sid \notin shared \cup over => Valid(t)

BehavedInv == TabsInv /\ OneAwaited /\ UnsharedIsValid /\ NeverThrownOut
=============================================================================
