---------------------------- MODULE AuthSessions ----------------------------
(***************************************************************************)
(* Refresh sessions: lms_api/lms/auth_sessions.py and the handlers of      *)
(* jwt_auth.py and api.py (login, token/refresh, password, logout) that    *)
(* use it.                                                                 *)
(*                                                                         *)
(* One user.  A session lives in Redis and names the one refresh token     *)
(* that may be exchanged for the next; the token before it is remembered   *)
(* for a grace of three seconds.  The user's row lives in PostgreSQL and   *)
(* names the password whose fingerprint every token carries.  A handler    *)
(* reads the row first and talks to Redis afterwards, and each Lua script  *)
(* is one step.                                                            *)
(*                                                                         *)
(* Signatures, expiry of the tokens themselves, the login limits and the   *)
(* hashing of passwords are left out.                                      *)
(***************************************************************************)
EXTENDS Naturals

CONSTANTS
    Servers,    \* server workers, each running one handler at a time
    Sids,       \* session ids
    MaxJti,     \* bound on the refresh tokens ever made
    MaxCred     \* bound on the passwords ever set

ASSUME AuthAssumption == MaxJti \in Nat /\ MaxCred \in Nat

Tokens == [sid: Sids, jti: 1..MaxJti, cred: 0..MaxCred]
NoSession == [cur |-> 0, prev |-> 0, fresh |-> FALSE]
\* lms:auth:session:<sid>; `fresh' while changed_at is at most 3 s ago
Sessions == [cur: 1..MaxJti, prev: 0..MaxJti, fresh: BOOLEAN]

VARIABLES
    cred,       \* the fingerprint of users.password, as a number
    creds,      \* passwords set or being set so far
    session,    \* Redis
    opened,     \* history: the fingerprint each session was opened under
    issued,     \* refresh tokens made so far
    used,       \* history: the tokens exchanged for a new one
    jtis,       \* token ids made so far
    handling         \* what each worker is doing

sessionVars == <<cred, creds, session, opened, issued, used, jtis, handling>>

Unoccupied == [at |-> "idle"]
Handlers ==
    {Unoccupied}
    \cup [at: {"refresh", "logout"}, tok: Tokens]
    \cup [at: {"password"}, new: 0..MaxCred]

\* `opened' of a session id not used yet
None == MaxCred + 1

SessionsTypeOK ==
    /\ cred \in 0..MaxCred /\ creds \in 0..MaxCred
    /\ session \in [Sids -> Sessions \cup {NoSession}]
    /\ opened \in [Sids -> 0..None]
    /\ issued \subseteq Tokens
    /\ used \subseteq 1..MaxJti
    /\ jtis \in 0..MaxJti
    /\ handling \in [Servers -> Handlers]

Alive(sid) == session[sid] # NoSession

-----------------------------------------------------------------------------
(* issue_tokens: a new session for the fingerprint c *)

Issue(sid, c) ==
    /\ opened[sid] = None
    /\ jtis < MaxJti
    /\ jtis' = jtis + 1
    /\ session' = [session EXCEPT ![sid] = [cur |-> jtis + 1, prev |-> 0, fresh |-> FALSE]]
    /\ opened' = [opened EXCEPT ![sid] = c]
    /\ issued' = issued \cup {[sid |-> sid, jti |-> jtis + 1, cred |-> c]}

\* login: the password is checked, then the user is read again and the tokens
\* carry the fingerprint of that reading.  One step: a session opened after its
\* fingerprint has gone is no different from one opened just before.
Login(sid) ==
    /\ Issue(sid, cred)
    /\ UNCHANGED <<cred, creds, used, handling>>

-----------------------------------------------------------------------------
(* rotate_refresh *)

\* _matching_user: the token must carry the password's fingerprint
RefreshRead(w, tok) ==
    /\ handling[w].at = "idle"
    /\ tok \in issued
    /\ tok.cred = cred
    /\ handling' = [handling EXCEPT ![w] = [at |-> "refresh", tok |-> tok]]
    /\ UNCHANGED <<cred, creds, session, opened, issued, used, jtis>>

\* The fault of a grace that lets the previous token be exchanged again
GraceAccepts(tok) ==
    LET s == session[tok.sid]
    IN  Alive(tok.sid) /\ (s.cur = tok.jti \/ (s.prev = tok.jti /\ s.fresh))
\* The fault of a rotation that does not ask whether the session exists
AcceptsGone(tok) == session[tok.sid].cur \in {0, tok.jti}
\* _ROTATE accepts only the token the session names
Accepts(tok) == Alive(tok.sid) /\ session[tok.sid].cur = tok.jti

\* _ROTATE refuses the previous token without ending the session
Spares(tok) == session[tok.sid].prev = tok.jti /\ session[tok.sid].fresh

\* The fault of naming the password of now in the token made
CurrentFingerprint(tok) == cred
\* The new token is made from the user that was read with the old one.
NewFingerprint(tok) == tok.cred

RefreshRotate(w) ==
    LET tok == handling[w].tok IN
    /\ handling[w].at = "refresh"
    /\ handling' = [handling EXCEPT ![w] = Unoccupied]
    /\ \/ /\ Accepts(tok)
          /\ jtis < MaxJti
          /\ jtis' = jtis + 1
          /\ session' = [session EXCEPT ![tok.sid] =
                           [cur |-> jtis + 1, prev |-> tok.jti, fresh |-> TRUE]]
          /\ issued' = issued \cup
                {[sid |-> tok.sid, jti |-> jtis + 1, cred |-> NewFingerprint(tok)]}
          /\ used' = used \cup {tok.jti}
       \/ /\ ~Accepts(tok)
          /\ session' = IF Spares(tok) THEN session
                        ELSE [session EXCEPT ![tok.sid] = NoSession]
          /\ UNCHANGED <<issued, used, jtis>>
    /\ UNCHANGED <<cred, creds, opened>>

-----------------------------------------------------------------------------
(* logout_refresh *)

LogoutRead(w, tok) ==
    /\ handling[w].at = "idle"
    /\ tok \in issued
    /\ tok.cred = cred
    /\ handling' = [handling EXCEPT ![w] = [at |-> "logout", tok |-> tok]]
    /\ UNCHANGED <<cred, creds, session, opened, issued, used, jtis>>

\* _REVOKE: whichever token of the session is shown
LogoutRevoke(w) ==
    /\ handling[w].at = "logout"
    /\ session' = [session EXCEPT ![handling[w].tok.sid] = NoSession]
    /\ handling' = [handling EXCEPT ![w] = Unoccupied]
    /\ UNCHANGED <<cred, creds, opened, issued, used, jtis>>

-----------------------------------------------------------------------------
(* password: one transaction that locks the user's row *)

\* Write the new password and open a session for it, before the COMMIT
PasswordWrite(w, sid) ==
    /\ handling[w].at = "idle"
    /\ \A v \in Servers : handling[v].at # "password"
    /\ \E tok \in issued : tok.cred = cred /\ Alive(tok.sid)
    /\ creds < MaxCred
    /\ creds' = creds + 1
    /\ Issue(sid, creds + 1)
    /\ handling' = [handling EXCEPT ![w] = [at |-> "password", new |-> creds + 1]]
    /\ UNCHANGED <<cred, used>>

PasswordCommit(w) ==
    /\ handling[w].at = "password"
    /\ cred' = handling[w].new
    /\ handling' = [handling EXCEPT ![w] = Unoccupied]
    /\ UNCHANGED <<creds, session, opened, issued, used, jtis>>

\* A handler dies or Redis does not answer: what Redis holds stays
HandlerFails(w) ==
    /\ handling[w].at # "idle"
    /\ handling' = [handling EXCEPT ![w] = Unoccupied]
    /\ UNCHANGED <<cred, creds, session, opened, issued, used, jtis>>

-----------------------------------------------------------------------------
(* Time *)

GraceOver(sid) ==
    /\ session[sid].fresh
    /\ session' = [session EXCEPT ![sid].fresh = FALSE]
    /\ UNCHANGED <<cred, creds, opened, issued, used, jtis, handling>>

\* The key's EX runs out: REFRESH_TOKEN_LIFETIME after the last rotation
Expire(sid) ==
    /\ Alive(sid)
    /\ session' = [session EXCEPT ![sid] = NoSession]
    /\ UNCHANGED <<cred, creds, opened, issued, used, jtis, handling>>

SessionsInit ==
    /\ cred = 0 /\ creds = 0
    /\ session = [sid \in Sids |-> NoSession]
    /\ opened = [sid \in Sids |-> None]
    /\ issued = {} /\ used = {} /\ jtis = 0
    /\ handling = [w \in Servers |-> Unoccupied]

HandlerNext(w) ==
    \/ \E tok \in issued : RefreshRead(w, tok) \/ LogoutRead(w, tok)
    \/ RefreshRotate(w)
    \/ LogoutRevoke(w)
    \/ \E sid \in Sids : PasswordWrite(w, sid)
    \/ PasswordCommit(w)
    \/ HandlerFails(w)
TimeNext == \E sid \in Sids : GraceOver(sid) \/ Expire(sid)

SessionsNext ==
    \/ \E sid \in Sids : Login(sid)
    \/ \E w \in Servers : HandlerNext(w)
    \/ TimeNext

SessionsSpec == SessionsInit /\ [][SessionsNext]_sessionVars

-----------------------------------------------------------------------------
(* Properties *)

\* "A simultaneous second refresh is rejected without destroying the winner":
\* whatever the grace allows, a token is exchanged at most once.  The tokens of
\* a session form one line, of which the last alone is yet to be exchanged.
SingleUse ==
    \A t1, t2 \in issued :
        t1.sid = t2.sid /\ t1.jti \notin used /\ t2.jti \notin used => t1 = t2

\* A session that has ended (logged out, found stolen, expired) stays ended:
\* no refresh on its way brings it back.
EndedStaysEnded ==
    [][\A sid \in Sids : opened[sid] # None /\ ~Alive(sid) => ~Alive(sid)']_sessionVars

\* "Password changes invalidate every old token": the tokens of a session
\* opened under an old password never carry a newer one's fingerprint, not
\* even one made by a refresh that was on its way when the password changed.
KeepsItsFingerprint == \A tok \in issued : tok.cred = opened[tok.sid]

\* A session names a token that has not been exchanged.
NamesUnused == \A sid \in Sids : Alive(sid) => session[sid].cur \notin used

\* What the three rest on: token ids are fresh, a token belongs to one session
TokensAreFresh ==
    /\ \A tok \in issued : tok.jti <= jtis /\ opened[tok.sid] # None
    /\ \A t1, t2 \in issued : t1.jti = t2.jti => t1 = t2
    /\ \A sid \in Sids :
          /\ Alive(sid) => \E tok \in issued : tok.sid = sid /\ tok.jti = session[sid].cur
          /\ opened[sid] = None => ~Alive(sid)
    /\ \A j \in used : j <= jtis
    /\ \A w \in Servers : handling[w].at \in {"refresh", "logout"} => handling[w].tok \in issued

SessionsInv == SessionsTypeOK /\ SingleUse /\ NamesUnused /\ KeepsItsFingerprint /\ TokensAreFresh
=============================================================================
