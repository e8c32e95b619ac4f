-------------------------- MODULE SessionsProofs --------------------------
(* What holds of AuthSessions for any number of workers, sessions, tokens  *)
(* and passwords, and of AuthTabs, the clients composed with it, for any   *)
(* number of tabs.                                                         *)
EXTENDS AuthTabs, TLAPS

-----------------------------------------------------------------------------
(* The server: AuthSessions *)

LEMMA SessionsInitInv == SessionsInit => SessionsInv
BY AuthAssumption
DEF SessionsInit, SessionsInv, SessionsTypeOK, SingleUse, NamesUnused, KeepsItsFingerprint, TokensAreFresh, Alive,
    NoSession, Unoccupied, Handlers, None, Tokens, Sessions

\* A worker in the middle of a refresh or a logout holds a token.
LEMMA HoldsToken ==
    ASSUME SessionsInv, NEW w \in Servers, handling[w].at \in {"refresh", "logout"}
    PROVE  /\ handling[w].tok \in issued /\ handling[w].tok \in Tokens
           /\ handling[w].tok.sid \in Sids /\ handling[w].tok.jti \in 1..MaxJti
           /\ handling[w].tok.cred \in 0..MaxCred
BY DEF SessionsInv, TokensAreFresh, SessionsTypeOK, Tokens

-----------------------------------------------------------------------------
(* Opening a session *)

LEMMA IssueKeepsIInv ==
    ASSUME SessionsInv, NEW sid \in Sids, NEW c \in 0..MaxCred, Issue(sid, c), UNCHANGED used,
           cred' \in 0..MaxCred, creds' \in 0..MaxCred, handling' \in [Servers -> Handlers],
           \A w \in Servers : handling'[w].at \in {"refresh", "logout"} => handling'[w] = handling[w]
    PROVE  SessionsInv'
<1> DEFINE j == jtis + 1
           t == [sid |-> sid, jti |-> j, cred |-> c]
<1>1. /\ j \in 1..MaxJti /\ jtis' = j /\ jtis \in Nat /\ opened[sid] = None
      /\ session' = [session EXCEPT ![sid] = [cur |-> j, prev |-> 0, fresh |-> FALSE]]
      /\ opened' = [opened EXCEPT ![sid] = c]
      /\ issued' = issued \cup {t}
  BY AuthAssumption DEF Issue, SessionsInv, SessionsTypeOK
<1>2. t \in Tokens
  BY <1>1 DEF Tokens
<1>3. SessionsTypeOK'
  <2>1. [cur |-> j, prev |-> 0, fresh |-> FALSE] \in Sessions
    BY <1>1, AuthAssumption DEF Sessions
  <2>2. session' \in [Sids -> Sessions \cup {NoSession}]
    BY <1>1, <2>1 DEF SessionsInv, SessionsTypeOK
  <2>3. opened' \in [Sids -> 0..None]
    BY <1>1, AuthAssumption DEF SessionsInv, SessionsTypeOK, None
  <2>4. QED BY <1>1, <1>2, <2>2, <2>3 DEF SessionsInv, SessionsTypeOK
<1>4. \A x \in issued : x.sid # sid /\ x.jti < j /\ x \in Tokens
  BY <1>1 DEF SessionsInv, SessionsTypeOK, TokensAreFresh, Tokens
<1>5. \A x \in used : x < j
  BY <1>1 DEF SessionsInv, SessionsTypeOK, TokensAreFresh
<1>6. \A s \in Sids \ {sid} : session'[s] = session[s] /\ opened'[s] = opened[s]
  BY <1>1 DEF SessionsInv, SessionsTypeOK
<1>7. session'[sid] = [cur |-> j, prev |-> 0, fresh |-> FALSE] /\ opened'[sid] = c
  BY <1>1 DEF SessionsInv, SessionsTypeOK
<1>8. SingleUse' /\ NamesUnused'
  <2>1. NamesUnused'
    BY <1>1, <1>5, <1>6, <1>7 DEF SessionsInv, NamesUnused, Alive
  <2>2. SingleUse'
    BY <1>1, <1>4 DEF SessionsInv, SingleUse
  <2>3. QED BY <2>1, <2>2
<1>9. KeepsItsFingerprint'
  BY <1>1, <1>4, <1>6, <1>7 DEF SessionsInv, KeepsItsFingerprint, Tokens
<1>10. TokensAreFresh'
  <2>1. \A x \in issued' : x.jti <= jtis' /\ opened'[x.sid] # None
    <3>1. c # None
      BY AuthAssumption DEF None
    <3>2. \A x \in issued : x.jti \in Nat /\ x.sid \in Sids \ {sid} /\ opened[x.sid] # None
      BY <1>4 DEF Tokens, SessionsInv, TokensAreFresh
    <3>3. QED BY <1>1, <1>4, <1>6, <1>7, <3>1, <3>2
  <2>2. \A x, y \in issued' : x.jti = y.jti => x = y
    <3>1. \A x \in issued : x.jti # t.jti
      BY <1>1, <1>4 DEF Tokens
    <3>2. \A x, y \in issued : x.jti = y.jti => x = y
      BY DEF SessionsInv, TokensAreFresh
    <3> HIDE DEF t
    <3>3. QED BY <1>1, <3>1, <3>2
  <2>3. \A s \in Sids :
          /\ Alive(s)' => \E x \in issued' : x.sid = s /\ x.jti = session'[s].cur
          /\ opened'[s] = None => ~Alive(s)'
    <3>1. c # None
      BY AuthAssumption DEF None
    <3>2. t.sid = sid /\ t.jti = session'[sid].cur /\ t \in issued'
      BY <1>1, <1>7
    <3>3. ASSUME NEW s \in Sids \ {sid}
          PROVE  /\ Alive(s)' => \E x \in issued' : x.sid = s /\ x.jti = session'[s].cur
                 /\ opened'[s] = None => ~Alive(s)'
      <4>1. Alive(s) => \E x \in issued : x.sid = s /\ x.jti = session[s].cur
        BY DEF SessionsInv, TokensAreFresh
      <4>2. opened[s] = None => ~Alive(s)
        BY DEF SessionsInv, TokensAreFresh
      <4>3. Alive(s)' = Alive(s)
        BY <1>6 DEF Alive
      <4>4. QED BY <1>1, <1>6, <4>1, <4>2, <4>3
    <3>4. QED BY <1>7, <3>1, <3>2, <3>3
  <2>4. \A x \in used' : x <= jtis'
    BY <1>1, <1>5 DEF SessionsInv, SessionsTypeOK
  <2>5. \A w \in Servers : handling'[w].at \in {"refresh", "logout"} => handling'[w].tok \in issued'
    BY <1>1 DEF SessionsInv, TokensAreFresh
  <2>6. QED BY <2>1, <2>2, <2>3, <2>4, <2>5 DEF TokensAreFresh
<1>11. QED BY <1>3, <1>8, <1>9, <1>10 DEF SessionsInv

-----------------------------------------------------------------------------
(* Ending a session, or only letting its grace pass *)

LEMMA SessionStepKeepsIInv ==
    ASSUME SessionsInv, NEW sid \in Sids, NEW v \in Sessions \cup {NoSession},
           session' = [session EXCEPT ![sid] = v],
           v = NoSession \/ (Alive(sid) /\ v.cur = session[sid].cur /\ v.prev = session[sid].prev),
           UNCHANGED <<cred, creds, opened, issued, used, jtis>>,
           handling' \in [Servers -> Handlers],
           \A w \in Servers : handling'[w].at \in {"refresh", "logout"} => handling'[w] = handling[w]
    PROVE  SessionsInv'
<1>1. /\ session'[sid] = v
      /\ \A s \in Sids \ {sid} : session'[s] = session[s]
  BY DEF SessionsInv, SessionsTypeOK
<1>2. SessionsTypeOK'
  BY DEF SessionsInv, SessionsTypeOK
<1>3. SingleUse' /\ NamesUnused' /\ KeepsItsFingerprint'
  BY <1>1 DEF SessionsInv, SingleUse, NamesUnused, KeepsItsFingerprint, Alive
<1>4. TokensAreFresh'
  BY <1>1 DEF SessionsInv, TokensAreFresh, Alive
<1>5. QED BY <1>2, <1>3, <1>4 DEF SessionsInv

\* Nothing but a worker's own state changes.
LEMMA RequestStepKeepsIInv ==
    ASSUME SessionsInv, UNCHANGED <<cred, creds, session, opened, issued, used, jtis>>,
           handling' \in [Servers -> Handlers],
           \A w \in Servers : handling'[w].at \in {"refresh", "logout"} => handling'[w].tok \in issued
    PROVE  SessionsInv'
BY DEF SessionsInv, SessionsTypeOK, SingleUse, NamesUnused, KeepsItsFingerprint, TokensAreFresh, Alive

-----------------------------------------------------------------------------
(* Exchanging a token *)

LEMMA RotateKeepsIInv ==
    ASSUME SessionsInv, NEW w \in Servers, RefreshRotate(w)
    PROVE  SessionsInv'
<1>1. PICK tok \in Tokens : tok = handling[w].tok /\ tok \in issued
  BY HoldsToken DEF RefreshRotate
<1>2. tok.sid \in Sids /\ tok.jti \in 1..MaxJti /\ tok.cred \in 0..MaxCred
  BY <1>1 DEF Tokens
<1>3. /\ handling' = [handling EXCEPT ![w] = Unoccupied]
      /\ UNCHANGED <<cred, creds, opened>>
  BY DEF RefreshRotate
<1>4. /\ handling' \in [Servers -> Handlers]
      /\ \A v \in Servers : handling'[v].at \in {"refresh", "logout"} => handling'[v] = handling[v]
  BY <1>3 DEF SessionsInv, SessionsTypeOK, Handlers, Unoccupied
<1>5. CASE ~Accepts(tok)
  <2>1. /\ session' = IF Spares(tok) THEN session ELSE [session EXCEPT ![tok.sid] = NoSession]
        /\ UNCHANGED <<issued, used, jtis>>
    BY <1>1, <1>5 DEF RefreshRotate
  <2>2. CASE Spares(tok)
    BY <1>3, <1>4, <2>1, <2>2, RequestStepKeepsIInv DEF SessionsInv, TokensAreFresh
  <2>3. CASE ~Spares(tok)
    BY <1>2, <1>3, <1>4, <2>1, <2>3, SessionStepKeepsIInv
  <2>4. QED BY <2>2, <2>3
<1>6. CASE Accepts(tok)
  <2> DEFINE j == jtis + 1
             t == [sid |-> tok.sid, jti |-> j, cred |-> tok.cred]
             v == [cur |-> j, prev |-> tok.jti, fresh |-> TRUE]
  <2>1. /\ j \in 1..MaxJti /\ jtis \in Nat /\ jtis' = j
        /\ session' = [session EXCEPT ![tok.sid] = v]
        /\ issued' = issued \cup {t}
        /\ used' = used \cup {tok.jti}
    BY <1>1, <1>6, AuthAssumption DEF RefreshRotate, NewFingerprint, SessionsInv, SessionsTypeOK
  <2>2. /\ session'[tok.sid] = v
        /\ \A s \in Sids \ {tok.sid} : session'[s] = session[s]
    <3>1. session \in [Sids -> Sessions \cup {NoSession}]
      BY DEF SessionsInv, SessionsTypeOK
    <3> HIDE DEF v
    <3>2. QED BY <1>2, <2>1, <3>1
  <2>3. SessionsTypeOK'
    <3>1. t \in Tokens /\ v \in Sessions
      BY <1>2, <2>1 DEF Tokens, Sessions
    <3>2. session' \in [Sids -> Sessions \cup {NoSession}]
      BY <2>1, <3>1 DEF SessionsInv, SessionsTypeOK
    <3>3. QED BY <1>2, <1>3, <1>4, <2>1, <3>1, <3>2 DEF SessionsInv, SessionsTypeOK
  <2>4. \A x \in issued : x \in Tokens /\ x.jti \in Nat /\ x.jti <= jtis
    BY DEF SessionsInv, SessionsTypeOK, TokensAreFresh, Tokens
  <2>5. \A x \in used : x \in Nat /\ x <= jtis
    <3>1. used \subseteq 1..MaxJti
      BY DEF SessionsInv, SessionsTypeOK
    <3>2. \A x \in used : x <= jtis
      BY DEF SessionsInv, TokensAreFresh
    <3>3. QED BY <3>1, <3>2
  <2>6. \A s \in Sids \ {tok.sid} : Alive(s) => session[s].cur # tok.jti
    <3>1. \A x \in issued : x.jti = tok.jti => x.sid = tok.sid
      BY <1>1 DEF SessionsInv, TokensAreFresh
    <3>2. QED BY <3>1 DEF SessionsInv, TokensAreFresh
  <2>7. SingleUse' /\ NamesUnused'
    <3>1. tok.jti \notin used
      BY <1>2, <1>6 DEF Accepts, SessionsInv, NamesUnused
    <3>2. SingleUse'
      <4>1. \A x \in issued : x.sid = tok.sid /\ x.jti \notin used => x = tok
        BY <1>1, <3>1 DEF SessionsInv, SingleUse
      <4>2. \A x \in issued' : x.jti \notin used' => x = t \/ (x.sid # tok.sid /\ x \in issued)
        BY <2>1, <4>1
      <4> HIDE DEF t
      <4>3. t.sid = tok.sid
        BY DEF t
      <4>4. QED BY <2>1, <4>2, <4>3 DEF SessionsInv, SingleUse
    <3>3. NamesUnused'
      <4>1. j \notin used'
        BY <1>1, <1>2, <2>1, <2>4, <2>5
      <4>2. QED BY <2>1, <2>2, <2>6, <4>1 DEF SessionsInv, NamesUnused, Alive
    <3>4. QED BY <3>2, <3>3
  <2>8. KeepsItsFingerprint'
    BY <1>1, <1>3, <2>1 DEF SessionsInv, KeepsItsFingerprint
  <2>9. TokensAreFresh'
    <3>1. \A x \in issued' : x.jti <= jtis' /\ opened'[x.sid] # None
      <4>1. opened[tok.sid] # None
        BY <1>1 DEF SessionsInv, TokensAreFresh
      <4>2. \A x \in issued : opened[x.sid] # None
        BY DEF SessionsInv, TokensAreFresh
      <4>3. QED BY <1>3, <2>1, <2>4, <4>1, <4>2
    <3>2. \A x, y \in issued' : x.jti = y.jti => x = y
      <4>1. \A x \in issued : x.jti # t.jti
        BY <2>1, <2>4
      <4>2. \A x, y \in issued : x.jti = y.jti => x = y
        BY DEF SessionsInv, TokensAreFresh
      <4> HIDE DEF t
      <4>3. QED BY <2>1, <4>1, <4>2
    <3>3. \A s \in Sids :
            /\ Alive(s)' => \E x \in issued' : x.sid = s /\ x.jti = session'[s].cur
            /\ opened'[s] = None => ~Alive(s)'
      <4>1. opened[tok.sid] # None
        BY <1>1 DEF SessionsInv, TokensAreFresh
      <4>2. t.sid = tok.sid /\ t.jti = session'[tok.sid].cur /\ t \in issued'
        BY <2>1, <2>2
      <4>3. ASSUME NEW s \in Sids \ {tok.sid}
            PROVE  /\ Alive(s)' => \E x \in issued' : x.sid = s /\ x.jti = session'[s].cur
                   /\ opened'[s] = None => ~Alive(s)'
        <5>1. Alive(s) => \E x \in issued : x.sid = s /\ x.jti = session[s].cur
          BY DEF SessionsInv, TokensAreFresh
        <5>2. opened[s] = None => ~Alive(s)
          BY DEF SessionsInv, TokensAreFresh
        <5>3. Alive(s)' = Alive(s)
          BY <2>2 DEF Alive
        <5>4. QED BY <1>3, <2>1, <2>2, <5>1, <5>2, <5>3
      <4>4. QED BY <1>3, <4>1, <4>2, <4>3
    <3>4. \A x \in used' : x <= jtis'
      BY <1>1, <1>2, <2>1, <2>4, <2>5
    <3>5. \A x \in Servers : handling'[x].at \in {"refresh", "logout"} => handling'[x].tok \in issued'
      BY <1>4, <2>1 DEF SessionsInv, TokensAreFresh
    <3>6. QED BY <3>1, <3>2, <3>3, <3>4, <3>5 DEF TokensAreFresh
  <2>10. QED BY <2>3, <2>7, <2>8, <2>9 DEF SessionsInv
<1>7. QED BY <1>5, <1>6

-----------------------------------------------------------------------------
(* The theorems *)

LEMMA SessionsNextInv == SessionsInv /\ [SessionsNext]_sessionVars => SessionsInv'
<1> SUFFICES ASSUME SessionsInv, [SessionsNext]_sessionVars PROVE SessionsInv'
  OBVIOUS
<1>t. SessionsTypeOK
  BY DEF SessionsInv
<1>1. ASSUME NEW sid \in Sids, Login(sid)
      PROVE  SessionsInv'
  <2>1. cred \in 0..MaxCred /\ UNCHANGED <<used, cred, creds, handling>> /\ Issue(sid, cred)
    BY <1>t, <1>1 DEF Login, SessionsTypeOK
  <2>2. QED BY <1>t, <2>1, IssueKeepsIInv DEF SessionsTypeOK
<1>2. ASSUME NEW w \in Servers, NEW tok \in issued, RefreshRead(w, tok) \/ LogoutRead(w, tok)
      PROVE  SessionsInv'
  <2>1. PICK at \in {"refresh", "logout"} : handling' = [handling EXCEPT ![w] = [at |-> at, tok |-> tok]]
    BY <1>2 DEF RefreshRead, LogoutRead
  <2>2. [at |-> at, tok |-> tok] \in Handlers
    BY <1>t DEF Handlers, SessionsTypeOK
  <2>3. handling' \in [Servers -> Handlers]
    BY <1>t, <2>1, <2>2 DEF SessionsTypeOK
  <2>4. \A v \in Servers : handling'[v].at \in {"refresh", "logout"} => handling'[v].tok \in issued
    BY <1>t, <2>1 DEF SessionsTypeOK, SessionsInv, TokensAreFresh
  <2>5. QED BY <1>2, <2>3, <2>4, RequestStepKeepsIInv DEF RefreshRead, LogoutRead
<1>3. ASSUME NEW w \in Servers, LogoutRevoke(w)
      PROVE  SessionsInv'
  <2>1. handling[w].tok.sid \in Sids
    BY <1>3, HoldsToken DEF LogoutRevoke
  <2>2. /\ handling' \in [Servers -> Handlers]
        /\ \A v \in Servers : handling'[v].at \in {"refresh", "logout"} => handling'[v] = handling[v]
    BY <1>t, <1>3 DEF LogoutRevoke, SessionsTypeOK, Handlers, Unoccupied
  <2>3. QED BY <1>3, <2>1, <2>2, SessionStepKeepsIInv DEF LogoutRevoke
<1>4. ASSUME NEW w \in Servers, NEW sid \in Sids, PasswordWrite(w, sid)
      PROVE  SessionsInv'
  <2>1. creds + 1 \in 0..MaxCred /\ creds' = creds + 1
    BY <1>t, <1>4, AuthAssumption DEF PasswordWrite, SessionsTypeOK
  <2>2. handling' = [handling EXCEPT ![w] = [at |-> "password", new |-> creds + 1]]
    BY <1>4 DEF PasswordWrite
  <2>3. [at |-> "password", new |-> creds + 1] \in Handlers
    BY <2>1 DEF Handlers
  <2>4. /\ handling' \in [Servers -> Handlers]
        /\ \A v \in Servers : handling'[v].at \in {"refresh", "logout"} => handling'[v] = handling[v]
    BY <1>t, <2>2, <2>3 DEF SessionsTypeOK
  <2>5. QED BY <1>t, <1>4, <2>1, <2>4, IssueKeepsIInv DEF PasswordWrite, SessionsTypeOK
<1>5. ASSUME NEW w \in Servers, PasswordCommit(w)
      PROVE  SessionsInv'
  <2>1. cred' \in 0..MaxCred
    BY <1>t, <1>5 DEF PasswordCommit, SessionsTypeOK, Handlers, Unoccupied
  <2>2. /\ handling' \in [Servers -> Handlers]
        /\ \A v \in Servers : handling'[v].at \in {"refresh", "logout"} => handling'[v] = handling[v]
    BY <1>t, <1>5 DEF PasswordCommit, SessionsTypeOK, Handlers, Unoccupied
  <2>3. UNCHANGED <<creds, session, opened, issued, used, jtis>>
    BY <1>5 DEF PasswordCommit
  <2>4. QED BY <2>1, <2>2, <2>3
        DEF SessionsInv, SessionsTypeOK, SingleUse, NamesUnused, KeepsItsFingerprint, TokensAreFresh, Alive
<1>6. ASSUME NEW w \in Servers, HandlerFails(w)
      PROVE  SessionsInv'
  <2>1. /\ handling' \in [Servers -> Handlers]
        /\ \A v \in Servers : handling'[v].at \in {"refresh", "logout"} => handling'[v].tok \in issued
    BY <1>t, <1>6 DEF HandlerFails, SessionsTypeOK, Handlers, Unoccupied, SessionsInv, TokensAreFresh
  <2>2. QED BY <1>6, <2>1, RequestStepKeepsIInv DEF HandlerFails
<1>7. ASSUME NEW sid \in Sids, GraceOver(sid) \/ Expire(sid)
      PROVE  SessionsInv'
  <2>1. CASE Expire(sid)
    BY <1>t, <2>1, SessionStepKeepsIInv DEF Expire, SessionsTypeOK
  <2>2. CASE GraceOver(sid)
    <3>1. session[sid] \in Sessions
      BY <1>t, <2>2 DEF GraceOver, SessionsTypeOK, NoSession
    <3>2. PICK v \in Sessions : v = [session[sid] EXCEPT !.fresh = FALSE]
      BY <3>1 DEF Sessions
    <3>3. /\ session' = [session EXCEPT ![sid] = v]
          /\ UNCHANGED <<cred, creds, opened, issued, used, jtis, handling>>
      BY <2>2, <3>2 DEF GraceOver
    <3>4. Alive(sid) /\ v.cur = session[sid].cur /\ v.prev = session[sid].prev
      BY <3>1, <3>2, AuthAssumption DEF Alive, NoSession, Sessions
    <3>5. QED BY <1>t, <3>3, <3>4, SessionStepKeepsIInv DEF SessionsTypeOK
  <2>3. QED BY <1>7, <2>1, <2>2
<1>8. CASE UNCHANGED sessionVars
  BY <1>8 DEF sessionVars, SessionsInv, SessionsTypeOK, SingleUse, NamesUnused, KeepsItsFingerprint, TokensAreFresh, Alive
<1>9. QED
  BY <1>1, <1>2, <1>3, <1>4, <1>5, <1>6, <1>7, <1>8, RotateKeepsIInv
  DEF SessionsNext, HandlerNext, TimeNext

\* A session names one token, never exchanged before, for any number of
\* handlers at work.
THEOREM SessionsInvariance == SessionsSpec => []SessionsInv
BY SessionsInitInv, SessionsNextInv, PTL DEF SessionsSpec

\* No refresh token is exchanged twice.
THEOREM TokensAreUsedOnce == SessionsSpec => []SingleUse
<1>1. SessionsInv => SingleUse
  BY DEF SessionsInv
<1>2. QED BY <1>1, SessionsInvariance, PTL

\* No token made for an old session carries a newer password's fingerprint.
THEOREM TokensKeepTheirFingerprint == SessionsSpec => []KeepsItsFingerprint
<1>1. SessionsInv => KeepsItsFingerprint
  BY DEF SessionsInv
<1>2. QED BY <1>1, SessionsInvariance, PTL

\* No refresh on its way brings an ended session back.
THEOREM SessionsStayEnded == SessionsSpec => EndedStaysEnded
<1> DEFINE Step == \A sid \in Sids : opened[sid] # None /\ ~Alive(sid) => ~Alive(sid)'
<1>1. SessionsInv /\ [SessionsNext]_sessionVars => [Step]_sessionVars
  <2> SUFFICES ASSUME SessionsInv, SessionsNext, NEW sid \in Sids, opened[sid] # None, ~Alive(sid)
               PROVE  ~Alive(sid)'
    BY DEF sessionVars
  <2>t. SessionsTypeOK
    BY DEF SessionsInv
  <2>1. ASSUME NEW s \in Sids, NEW c, Issue(s, c)
        PROVE  ~Alive(sid)'
    BY <2>t, <2>1 DEF Issue, Alive, SessionsTypeOK
  <2>2. ASSUME NEW w \in Servers, RefreshRotate(w)
        PROVE  ~Alive(sid)'
    <3>1. PICK tok \in Tokens : tok = handling[w].tok
      BY <2>2, HoldsToken DEF RefreshRotate
    <3>2. CASE Accepts(tok)
      <4>1. sid # tok.sid
        BY <3>2 DEF Accepts
      <4>2. QED BY <2>t, <2>2, <3>1, <3>2, <4>1 DEF RefreshRotate, Alive, SessionsTypeOK
    <3>3. CASE ~Accepts(tok)
      BY <2>t, <2>2, <3>1, <3>3 DEF RefreshRotate, Alive, SessionsTypeOK
    <3>4. QED BY <3>2, <3>3
  <2>3. ASSUME NEW s \in Sids, GraceOver(s)
        PROVE  ~Alive(sid)'
    <3>1. s # sid
      BY <2>3 DEF GraceOver, Alive, NoSession
    <3>2. session'[sid] = session[sid]
      BY <2>t, <2>3, <3>1 DEF GraceOver, SessionsTypeOK
    <3>3. QED BY <3>2 DEF Alive
  <2>4. ASSUME NEW s \in Sids, Expire(s)
        PROVE  ~Alive(sid)'
    BY <2>t, <2>4 DEF Expire, Alive, SessionsTypeOK
  <2>5. ASSUME NEW w \in Servers, LogoutRevoke(w)
        PROVE  ~Alive(sid)'
    BY <2>t, <2>5 DEF LogoutRevoke, Alive, SessionsTypeOK
  <2>6. CASE UNCHANGED session
    BY <2>6 DEF Alive
  <2>7. QED
    BY <2>1, <2>2, <2>3, <2>4, <2>5, <2>6
    DEF SessionsNext, HandlerNext, TimeNext, Login, PasswordWrite, RefreshRead, LogoutRead,
        PasswordCommit, HandlerFails
<1>2. QED BY <1>1, SessionsInvariance, PTL DEF SessionsSpec, EndedStaysEnded

-----------------------------------------------------------------------------
(* The clients: AuthTabs *)

LEMMA TokenFields ==
    ASSUME NEW tok \in Tokens
    PROVE  /\ tok.sid \in Sids /\ tok.jti \in 1..MaxJti /\ tok.cred \in 0..MaxCred
           /\ tok # NoToken
<1>1. tok.sid \in Sids /\ tok.jti \in 1..MaxJti /\ tok.cred \in 0..MaxCred
  BY DEF Tokens
<1>2. NoToken.jti = 0
  BY DEF NoToken
<1>3. QED BY <1>1, <1>2, AuthAssumption

LEMMA FlightFields ==
    ASSUME TabsTypeOK, NEW w \in Servers, OnItsWay(w)
    PROVE  /\ flight[w].stage \in {"sent", "taken", "refused", "granted"}
           /\ flight[w].kind \in {"refresh", "logout"}
           /\ flight[w].tab \in Tabs /\ flight[w].tok \in Tokens
           /\ flight[w].current \in BOOLEAN
           /\ flight[w].stage = "granted" => flight[w].kind = "refresh" /\ flight[w].new \in Tokens
<1>1. flight[w] \in Flights /\ flight[w] # NoFlight
  BY DEF TabsTypeOK, OnItsWay, NoFlight
<1>2. CASE flight[w] \in [stage: {"sent", "taken", "refused"}, kind: {"refresh", "logout"}, tab: Tabs,
                          tok: Tokens, current: BOOLEAN]
  BY <1>2
<1>3. CASE flight[w] \in [stage: {"granted"}, kind: {"refresh"}, tab: Tabs, tok: Tokens, new: Tokens,
                          current: BOOLEAN]
  BY <1>3
<1>4. QED BY <1>1, <1>2, <1>3 DEF Flights

\* A request as it is once its tab's revision has moved
LEMMA Outdated ==
    ASSUME TabsTypeOK, NEW w \in Servers, OnItsWay(w),
           NEW f, f = [flight[w] EXCEPT !.current = FALSE]
    PROVE  /\ f \in Flights /\ ~f.current
           /\ f.stage = flight[w].stage /\ f.kind = flight[w].kind
           /\ f.tab = flight[w].tab /\ f.tok = flight[w].tok
           /\ f.stage = "granted" => f.new = flight[w].new
<1>1. flight[w] \in Flights /\ flight[w] # NoFlight
  BY DEF TabsTypeOK, OnItsWay, NoFlight
<1>2. CASE flight[w] \in [stage: {"sent", "taken", "refused"}, kind: {"refresh", "logout"}, tab: Tabs,
                          tok: Tokens, current: BOOLEAN]
  <2>1. f \in [stage: {"sent", "taken", "refused"}, kind: {"refresh", "logout"}, tab: Tabs,
                          tok: Tokens, current: BOOLEAN]
    BY <1>2
  <2>2. ~f.current
    BY <1>2
  <2>3. QED BY <1>2, <2>1, <2>2 DEF Flights
<1>3. CASE flight[w] \in [stage: {"granted"}, kind: {"refresh"}, tab: Tabs, tok: Tokens, new: Tokens,
                          current: BOOLEAN]
  <2>1. f \in [stage: {"granted"}, kind: {"refresh"}, tab: Tabs, tok: Tokens, new: Tokens,
                          current: BOOLEAN]
    BY <1>3
  <2>2. ~f.current
    BY <1>3
  <2>3. QED BY <1>3, <2>1, <2>2 DEF Flights
<1>4. QED BY <1>1, <1>2, <1>3 DEF Flights

LEMMA MovedType ==
    ASSUME TabsTypeOK, NEW t \in Tabs
    PROVE  Moved(t) \in [Servers -> Flights]
<1>1. ASSUME NEW w \in Servers
      PROVE  (IF flight[w].stage # "none" /\ flight[w].tab = t
              THEN [flight[w] EXCEPT !.current = FALSE] ELSE flight[w]) \in Flights
  <2>1. PICK f : f = [flight[w] EXCEPT !.current = FALSE]
    OBVIOUS
  <2>2. CASE OnItsWay(w)
    <3>1. f \in Flights
      BY <2>1, <2>2, Outdated
    <3>2. QED BY <2>1, <3>1 DEF TabsTypeOK
  <2>3. QED BY <2>2 DEF TabsTypeOK, OnItsWay
<1>2. QED BY <1>1 DEF Moved

LEMMA MovedShape ==
    ASSUME TabsTypeOK, NEW t \in Tabs, NEW w \in Servers, NEW f, f = Moved(t)[w]
    PROVE  /\ f.stage = flight[w].stage
           /\ OnItsWay(w) => /\ f.kind = flight[w].kind
                             /\ f.tab = flight[w].tab /\ f.tok = flight[w].tok
                             /\ f.stage = "granted" => f.new = flight[w].new
           /\ OnItsWay(w) /\ flight[w].tab = t => ~f.current
           /\ ~(OnItsWay(w) /\ flight[w].tab = t) => f = flight[w]
<1>1. f = IF flight[w].stage # "none" /\ flight[w].tab = t
          THEN [flight[w] EXCEPT !.current = FALSE] ELSE flight[w]
  BY DEF Moved
<1>2. CASE OnItsWay(w) /\ flight[w].tab = t
  <2>1. f = [flight[w] EXCEPT !.current = FALSE]
    BY <1>1, <1>2 DEF OnItsWay
  <2>2. QED BY <1>2, <2>1, Outdated
<1>3. CASE ~(OnItsWay(w) /\ flight[w].tab = t)
  BY <1>1, <1>3 DEF OnItsWay
<1>4. QED BY <1>2, <1>3
-----------------------------------------------------------------------------
(* What the server's steps do *)

LEMMA StepsAreSessionSteps == [TabsNext]_allVars => [SessionsNext]_sessionVars
<1>1. ASSUME NEW t \in Tabs, TabNext(t)
      PROVE  [SessionsNext]_sessionVars
  BY <1>1 DEF TabNext, SignIn, SignOut, SendRefresh, Duplicate, SessionsNext
<1>2. ASSUME NEW w \in Servers, FlightNext(w)
      PROVE  [SessionsNext]_sessionVars
  <2>1. CASE Take(w)
    <3>1. \E tok \in issued : RefreshRead(w, tok) \/ LogoutRead(w, tok)
      BY <2>1 DEF Take, RefreshRead, LogoutRead
    <3>2. QED BY <3>1 DEF SessionsNext, HandlerNext
  <2>2. CASE Rotate(w)
    BY <2>2 DEF Rotate, SessionsNext, HandlerNext
  <2>3. CASE Revoke(w)
    BY <2>3 DEF Revoke, SessionsNext, HandlerNext
  <2>4. CASE Granted(w) \/ Refused(w) \/ Lost(w)
    BY <2>4 DEF Granted, Refused, Lost
  <2>5. QED BY <1>2, <2>1, <2>2, <2>3, <2>4 DEF FlightNext
<1>3. ASSUME NEW sid \in Sids, Grace(sid) \/ Ends(sid)
      PROVE  [SessionsNext]_sessionVars
  BY <1>3 DEF Grace, Ends, SessionsNext, TimeNext
<1>4. QED BY <1>1, <1>2, <1>3 DEF TabsNext, allVars

\* The token a sign-in or an exchange makes
LEMMA NewestIs ==
    ASSUME SessionsInv', NEW tok, tok \in issued', tok.jti = jtis'
    PROVE  Newest = tok
BY DEF Newest, SessionsInv, TokensAreFresh

LEMMA SignInMakes ==
    ASSUME SessionsInv, SessionsInv', NEW t \in Tabs, NEW sid \in Sids, SignIn(t, sid)
    PROVE  /\ Newest \in Tokens /\ Newest \in issued' /\ Newest.sid = sid
           /\ issued \subseteq issued' /\ opened[sid] = None
           /\ session'[sid].cur = Newest.jti /\ Alive(sid)'
           /\ \A s \in Sids \ {sid} : session'[s] = session[s]
           /\ UNCHANGED handling
<1>1. PICK tok : tok = [sid |-> sid, jti |-> jtis + 1, cred |-> cred]
  OBVIOUS
<1>2. /\ issued' = issued \cup {tok} /\ jtis' = jtis + 1 /\ opened[sid] = None
      /\ session' = [session EXCEPT ![sid] = [cur |-> jtis + 1, prev |-> 0, fresh |-> FALSE]]
      /\ UNCHANGED handling
  BY <1>1 DEF SignIn, Login, Issue
<1>3. Newest = tok
  BY <1>1, <1>2, NewestIs
<1>4. tok \in Tokens
  BY <1>2 DEF SessionsInv, SessionsTypeOK
<1>5. session'[sid] = [cur |-> jtis + 1, prev |-> 0, fresh |-> FALSE]
  BY <1>2 DEF SessionsInv, SessionsTypeOK
<1>6. /\ session'[sid].cur = tok.jti
      /\ session'[sid] # NoSession
  BY <1>1, <1>5 DEF NoSession, SessionsInv, SessionsTypeOK
<1>7. \A s \in Sids \ {sid} : session'[s] = session[s]
  BY <1>2 DEF SessionsInv, SessionsTypeOK
<1>8. QED BY <1>1, <1>2, <1>3, <1>4, <1>6, <1>7 DEF Alive

LEMMA RotateMakes ==
    ASSUME SessionsInv, SessionsInv', NEW w \in Servers, RefreshRotate(w),
           NEW old, old = handling[w].tok, Accepts(old)
    PROVE  /\ jtis' > jtis /\ issued \subseteq issued'
           /\ Newest \in Tokens /\ Newest \in issued' /\ Newest.sid = old.sid
           /\ session'[old.sid].cur = Newest.jti /\ Alive(old.sid)'
           /\ \A s \in Sids \ {old.sid} : session'[s] = session[s]
<1>1. old \in Tokens /\ old.sid \in Sids /\ old.jti \in 1..MaxJti
  BY HoldsToken DEF RefreshRotate
<1>2. PICK tok : tok = [sid |-> old.sid, jti |-> jtis + 1, cred |-> old.cred]
  OBVIOUS
<1>3. /\ issued' = issued \cup {tok} /\ jtis' = jtis + 1
      /\ session' = [session EXCEPT ![old.sid] = [cur |-> jtis + 1, prev |-> old.jti, fresh |-> TRUE]]
  BY <1>1, <1>2 DEF RefreshRotate, NewFingerprint
<1>4. Newest = tok
  BY <1>2, <1>3, NewestIs
<1>5. tok \in Tokens
  BY <1>3 DEF SessionsInv, SessionsTypeOK
<1>6. session'[old.sid] = [cur |-> jtis + 1, prev |-> old.jti, fresh |-> TRUE]
  BY <1>1, <1>3 DEF SessionsInv, SessionsTypeOK
<1>7. jtis \in Nat
  BY AuthAssumption DEF SessionsInv, SessionsTypeOK
<1>8. session'[old.sid] # NoSession
  BY <1>6, <1>7 DEF NoSession
<1>9. \A s \in Sids \ {old.sid} : session'[s] = session[s]
  BY <1>1, <1>3 DEF SessionsInv, SessionsTypeOK
<1>10. Newest \in Tokens /\ Newest \in issued' /\ Newest.sid = old.sid
  BY <1>2, <1>3, <1>4, <1>5
<1>11. session'[old.sid].cur = Newest.jti
  BY <1>2, <1>4, <1>6
<1>12. jtis' > jtis /\ issued \subseteq issued'
  BY <1>3, <1>7
<1>13. Alive(old.sid)'
  BY <1>8 DEF Alive
<1>14. QED BY <1>1, <1>9, <1>10, <1>11, <1>12, <1>13

LEMMA RotateRefuses ==
    ASSUME SessionsInv, NEW w \in Servers, RefreshRotate(w), ~Accepts(handling[w].tok)
    PROVE  /\ jtis' = jtis /\ ~(jtis' > jtis) /\ issued' = issued
           /\ \A s \in Sids \ {handling[w].tok.sid} : session'[s] = session[s]
<1>1. handling[w].tok.sid \in Sids
  BY HoldsToken DEF RefreshRotate
<1>2. jtis \in Nat /\ jtis' = jtis /\ issued' = issued
  BY AuthAssumption DEF RefreshRotate, SessionsInv, SessionsTypeOK
<1>3. \A s \in Sids \ {handling[w].tok.sid} : session'[s] = session[s]
  BY <1>1 DEF RefreshRotate, SessionsInv, SessionsTypeOK
<1>4. QED BY <1>2, <1>3
-----------------------------------------------------------------------------
(* Requests through a step *)

\* What a step may do to a request: leave it, move its revision, or end it
LEMMA SameFits ==
    ASSUME NEW v \in Servers, Fits(v), flight'[v] = flight[v], handling'[v] = handling[v],
           issued \subseteq issued', Current(v) => tab'[flight[v].tab] = tab[flight[v].tab]
    PROVE  Fits(v)'
BY DEF Fits, OnItsWay, Current

LEMMA OutdatedFits ==
    ASSUME TabsTypeOK, NEW v \in Servers, Fits(v), NEW t \in Tabs, flight'[v] = Moved(t)[v],
           handling'[v] = handling[v], issued \subseteq issued',
           \A u \in Tabs \ {t} : tab'[u] = tab[u]
    PROVE  Fits(v)'
<1>1. CASE OnItsWay(v) /\ flight[v].tab = t
  <2>1. /\ flight'[v].stage = flight[v].stage /\ flight'[v].kind = flight[v].kind
        /\ flight'[v].tab = flight[v].tab /\ flight'[v].tok = flight[v].tok
        /\ flight'[v].stage = "granted" => flight'[v].new = flight[v].new
        /\ ~flight'[v].current
    BY <1>1, MovedShape
  <2>2. ~Current(v)'
    BY <2>1 DEF Current
  <2>3. QED BY <1>1, <2>1, <2>2 DEF Fits, OnItsWay
<1>2. CASE ~(OnItsWay(v) /\ flight[v].tab = t)
  <2>1. flight'[v] = flight[v]
    BY <1>2, MovedShape
  <2>2. Current(v) => flight[v].tab \in Tabs \ {t}
    BY <1>2, FlightFields DEF Current
  <2>3. QED BY <2>1, <2>2, SameFits
<1>3. QED BY <1>1, <1>2

LEMMA GoneFits ==
    ASSUME NEW v \in Servers, flight'[v] = NoFlight
    PROVE  Fits(v)' /\ ~OnItsWay(v)' /\ ~Current(v)'
BY DEF Fits, OnItsWay, Current, NoFlight

\* A request awaited after a step that sends none was awaited before it.
LEMMA OutdatedAwaits ==
    ASSUME TabsTypeOK, NEW v \in Servers, NEW t \in Tabs, flight'[v] = Moved(t)[v]
    PROVE  /\ (OnItsWay(v)' <=> OnItsWay(v))
           /\ OnItsWay(v) => flight'[v].tab = flight[v].tab /\ flight'[v].tok = flight[v].tok
           /\ OnItsWay(v) /\ flight[v].tab # t => flight'[v] = flight[v]
           /\ Current(v)' => Current(v) /\ flight[v].tab # t /\ flight'[v] = flight[v]
<1>1. (OnItsWay(v)' <=> OnItsWay(v))
  BY MovedShape DEF OnItsWay
<1>2. CASE OnItsWay(v) /\ flight[v].tab = t
  <2>1. ~flight'[v].current /\ flight'[v].tab = flight[v].tab /\ flight'[v].tok = flight[v].tok
    BY <1>2, MovedShape
  <2>2. ~Current(v)'
    BY <2>1 DEF Current
  <2>3. QED BY <1>1, <1>2, <2>1, <2>2
<1>3. CASE ~(OnItsWay(v) /\ flight[v].tab = t)
  <2>1. flight'[v] = flight[v]
    BY <1>3, MovedShape
  <2>2. Current(v)' => Current(v) /\ flight[v].tab # t
    BY <1>1, <1>3, <2>1 DEF Current
  <2>3. QED BY <1>1, <2>1, <2>2
<1>4. QED BY <1>2, <1>3

-----------------------------------------------------------------------------
(* TabsInv, action by action *)

LEMMA SignInKeeps ==
    ASSUME TabsInv, SessionsInv', NEW t \in Tabs, NEW sid \in Sids, SignIn(t, sid)
    PROVE  TabsInv'
<1>t. TabsTypeOK /\ FlightsFit /\ HoldsItsSignIn /\ SessionsInv
  BY DEF TabsInv
<1>1. PICK new \in Tokens : /\ new = Newest /\ new \in issued' /\ new.sid = sid
                            /\ issued \subseteq issued' /\ UNCHANGED handling
  BY <1>t, SignInMakes
<1>2. /\ tab' = [tab EXCEPT ![t] = new] /\ home' = [home EXCEPT ![t] = sid]
      /\ flight' = Moved(t) /\ UNCHANGED <<shared, over, thrown>>
  BY <1>1 DEF SignIn
<1>3. /\ tab'[t] = new /\ home'[t] = sid
      /\ \A u \in Tabs \ {t} : tab'[u] = tab[u] /\ home'[u] = home[u]
  BY <1>t, <1>2 DEF TabsTypeOK
<1>4. TabsTypeOK'
  <2>1. flight' \in [Servers -> Flights]
    BY <1>t, <1>2, MovedType
  <2>2. tab' \in [Tabs -> Tokens \cup {NoToken}]
    BY <1>t, <1>2 DEF TabsTypeOK
  <2>3. home' \in [Tabs -> Sids \cup {"none"}]
    BY <1>t, <1>2 DEF TabsTypeOK
  <2>4. QED BY <1>t, <1>2, <2>1, <2>2, <2>3 DEF TabsTypeOK
<1>5. FlightsFit'
  <2>1. ASSUME NEW v \in Servers PROVE Fits(v)'
    BY <1>t, <1>1, <1>2, <1>3, OutdatedFits DEF FlightsFit
  <2>2. \A u \in Tabs : tab'[u] # NoToken => tab'[u] \in issued'
    BY <1>t, <1>1, <1>3 DEF FlightsFit
  <2>3. QED BY <2>1, <2>2 DEF FlightsFit
<1>6. HoldsItsSignIn'
  BY <1>t, <1>1, <1>3 DEF HoldsItsSignIn
<1>7. QED BY <1>4, <1>5, <1>6 DEF TabsInv

LEMMA SignOutKeeps ==
    ASSUME TabsInv, SessionsInv', NEW t \in Tabs, NEW w \in Servers, SignOut(t, w)
    PROVE  TabsInv'
<1>t. TabsTypeOK /\ FlightsFit /\ HoldsItsSignIn /\ SessionsInv
  BY DEF TabsInv
<1>1. PICK f : f = [stage |-> "sent", kind |-> "logout", tab |-> t, tok |-> tab[t], current |-> FALSE]
  OBVIOUS
<1>2. /\ tab' = [tab EXCEPT ![t] = NoToken] /\ home' = [home EXCEPT ![t] = "none"]
      /\ flight' = [Moved(t) EXCEPT ![w] = f]
      /\ tab[t] # NoToken /\ handling[w] = Unoccupied
      /\ UNCHANGED <<sessionVars, shared, over, thrown>>
  BY <1>1 DEF SignOut, LogoutSends
<1>3. /\ tab'[t] = NoToken /\ home'[t] = "none"
      /\ \A u \in Tabs \ {t} : tab'[u] = tab[u] /\ home'[u] = home[u]
  BY <1>t, <1>2 DEF TabsTypeOK
<1>4. Moved(t) \in [Servers -> Flights]
  BY <1>t, MovedType
<1>5. /\ flight'[w] = f
      /\ \A v \in Servers \ {w} : flight'[v] = Moved(t)[v]
  BY <1>2, <1>4
<1>6. tab[t] \in issued /\ tab[t] \in Tokens
  BY <1>t, <1>2 DEF FlightsFit, TabsTypeOK
<1>7. TabsTypeOK'
  <2>1. f \in Flights
    BY <1>1, <1>6 DEF Flights
  <2>2. flight' \in [Servers -> Flights]
    BY <1>2, <1>4, <2>1
  <2>3. tab' \in [Tabs -> Tokens \cup {NoToken}]
    BY <1>t, <1>2 DEF TabsTypeOK
  <2>4. home' \in [Tabs -> Sids \cup {"none"}]
    BY <1>t, <1>2 DEF TabsTypeOK
  <2>5. QED BY <1>t, <1>2, <2>2, <2>3, <2>4 DEF TabsTypeOK
<1>8. FlightsFit'
  <2>1. ASSUME NEW v \in Servers \ {w} PROVE Fits(v)'
    BY <1>t, <1>2, <1>3, <1>5, OutdatedFits DEF FlightsFit, sessionVars
  <2>2. Fits(w)'
    <3>1. ~Current(w)'
      BY <1>1, <1>5 DEF Current
    <3>2. handling'[w].at = "idle" /\ issued' = issued
      BY <1>2 DEF sessionVars, Unoccupied
    <3>3. flight'[w].stage = "sent" /\ flight'[w].tok = tab[t]
      BY <1>1, <1>5
    <3>4. QED BY <1>6, <3>1, <3>2, <3>3 DEF Fits
  <2>3. \A u \in Tabs : tab'[u] # NoToken => tab'[u] \in issued'
    BY <1>t, <1>2, <1>3 DEF FlightsFit, sessionVars
  <2>4. QED BY <2>1, <2>2, <2>3 DEF FlightsFit
<1>9. HoldsItsSignIn'
  BY <1>t, <1>3 DEF HoldsItsSignIn, NoToken
<1>10. QED BY <1>7, <1>8, <1>9 DEF TabsInv

LEMMA DuplicateKeeps ==
    ASSUME TabsInv, SessionsInv', NEW t \in Tabs, NEW u \in Tabs, Duplicate(t, u)
    PROVE  TabsInv'
<1>t. TabsTypeOK /\ FlightsFit /\ HoldsItsSignIn /\ SessionsInv
  BY DEF TabsInv
<1>1. /\ tab' = [tab EXCEPT ![u] = tab[t]] /\ home' = [home EXCEPT ![u] = home[t]]
      /\ tab[t] # NoToken /\ tab[u] = NoToken
      /\ shared' = shared \cup {tab[t].sid}
      /\ UNCHANGED <<sessionVars, flight, over, thrown>>
  BY DEF Duplicate
<1>2. /\ tab'[u] = tab[t] /\ home'[u] = home[t]
      /\ \A v \in Tabs \ {u} : tab'[v] = tab[v] /\ home'[v] = home[v]
  BY <1>t, <1>1 DEF TabsTypeOK
<1>3. tab[t] \in issued /\ tab[t] \in Tokens
  BY <1>t, <1>1 DEF FlightsFit, TabsTypeOK
<1>4. TabsTypeOK'
  BY <1>t, <1>1, <1>3, TokenFields DEF TabsTypeOK
<1>5. FlightsFit'
  <2>1. ASSUME NEW v \in Servers PROVE Fits(v)'
    <3>1. Current(v) => flight[v].tab \in Tabs \ {u}
      <4>1. ASSUME Current(v), flight[v].tab = u PROVE FALSE
        <5>1. flight[v].tok = NoToken /\ flight[v].tok \in Tokens
          BY <1>t, <1>1, <4>1, FlightFields DEF FlightsFit, Fits, Current
        <5>2. QED BY <5>1, TokenFields
      <4>2. QED BY <1>t, <4>1, FlightFields DEF Current
    <3>2. QED BY <1>t, <1>1, <1>2, <3>1, SameFits DEF FlightsFit, sessionVars
  <2>2. \A v \in Tabs : tab'[v] # NoToken => tab'[v] \in issued'
    BY <1>t, <1>1, <1>2, <1>3 DEF FlightsFit, sessionVars
  <2>3. QED BY <2>1, <2>2 DEF FlightsFit
<1>6. HoldsItsSignIn'
  BY <1>t, <1>2 DEF HoldsItsSignIn
<1>7. QED BY <1>4, <1>5, <1>6 DEF TabsInv

LEMMA SendRefreshKeeps ==
    ASSUME TabsInv, SessionsInv', NEW t \in Tabs, NEW w \in Servers, SendRefresh(t, w)
    PROVE  TabsInv'
<1>t. TabsTypeOK /\ FlightsFit /\ HoldsItsSignIn /\ SessionsInv
  BY DEF TabsInv
<1>1. PICK f : f = [stage |-> "sent", kind |-> "refresh", tab |-> t, tok |-> tab[t], current |-> TRUE]
  OBVIOUS
<1>2. /\ flight' = [flight EXCEPT ![w] = f]
      /\ tab[t] # NoToken /\ handling[w] = Unoccupied
      /\ UNCHANGED <<sessionVars, tab, home, shared, over, thrown>>
  BY <1>1 DEF SendRefresh
<1>3. /\ flight'[w] = f
      /\ \A v \in Servers \ {w} : flight'[v] = flight[v]
  BY <1>t, <1>2 DEF TabsTypeOK
<1>4. tab[t] \in issued /\ tab[t] \in Tokens
  BY <1>t, <1>2 DEF FlightsFit, TabsTypeOK
<1>5. TabsTypeOK'
  <2>1. f \in Flights
    BY <1>1, <1>4 DEF Flights
  <2>2. flight' \in [Servers -> Flights]
    BY <1>t, <1>2, <2>1 DEF TabsTypeOK
  <2>3. QED BY <1>t, <1>2, <2>2 DEF TabsTypeOK
<1>6. FlightsFit'
  <2>1. ASSUME NEW v \in Servers \ {w} PROVE Fits(v)'
    BY <1>t, <1>2, <1>3, SameFits DEF FlightsFit, sessionVars
  <2>2. Fits(w)'
    <3>1. handling'[w].at = "idle" /\ issued' = issued
      BY <1>2 DEF sessionVars, Unoccupied
    <3>2. /\ flight'[w].stage = "sent" /\ flight'[w].tok = tab[t] /\ flight'[w].kind = "refresh"
          /\ flight'[w].tab = t
      BY <1>1, <1>3
    <3>3. QED BY <1>2, <1>4, <3>1, <3>2 DEF Fits
  <2>3. \A u \in Tabs : tab'[u] # NoToken => tab'[u] \in issued'
    BY <1>t, <1>2 DEF FlightsFit, sessionVars
  <2>4. QED BY <2>1, <2>2, <2>3 DEF FlightsFit
<1>7. HoldsItsSignIn'
  BY <1>t, <1>2 DEF HoldsItsSignIn
<1>8. QED BY <1>5, <1>6, <1>7 DEF TabsInv
\* The steps that end requests: an answer or its loss
LEMMA DroppedKeeps ==
    ASSUME TabsInv, SessionsInv', NEW w \in Servers, flight' = [flight EXCEPT ![w] = NoFlight],
           UNCHANGED <<sessionVars, tab, home, shared, over>>, thrown' \subseteq Sids
    PROVE  TabsInv'
<1>t. TabsTypeOK /\ FlightsFit /\ HoldsItsSignIn /\ SessionsInv
  BY DEF TabsInv
<1>1. /\ flight'[w] = NoFlight
      /\ \A v \in Servers \ {w} : flight'[v] = flight[v]
  BY <1>t DEF TabsTypeOK
<1>2. TabsTypeOK'
  <2>1. NoFlight \in Flights
    BY DEF Flights
  <2>2. flight' \in [Servers -> Flights]
    BY <1>t, <2>1 DEF TabsTypeOK
  <2>3. QED BY <1>t, <2>2 DEF TabsTypeOK
<1>3. FlightsFit'
  <2>1. ASSUME NEW v \in Servers \ {w} PROVE Fits(v)'
    BY <1>t, <1>1, SameFits DEF FlightsFit, sessionVars
  <2>2. Fits(w)'
    BY <1>1, GoneFits
  <2>3. QED BY <1>t, <2>1, <2>2 DEF FlightsFit, sessionVars
<1>4. HoldsItsSignIn'
  BY <1>t DEF HoldsItsSignIn
<1>5. QED BY <1>2, <1>3, <1>4 DEF TabsInv

\* An answer that counts: its tab takes a token of the same session, or none
LEMMA AnsweredKeeps ==
    ASSUME TabsInv, SessionsInv', NEW w \in Servers, NEW t \in Tabs,
           flight' = [Moved(t) EXCEPT ![w] = NoFlight],
           NEW new, tab' = [tab EXCEPT ![t] = new], new = NoToken \/ new \in Tokens \cap issued,
           home' \in [Tabs -> Sids \cup {"none"}], new.sid = home'[t],
           \A u \in Tabs \ {t} : home'[u] = home[u],
           UNCHANGED <<sessionVars, shared, over>>, thrown' \subseteq Sids
    PROVE  TabsInv'
<1>t. TabsTypeOK /\ FlightsFit /\ HoldsItsSignIn /\ SessionsInv
  BY DEF TabsInv
<1>1. Moved(t) \in [Servers -> Flights]
  BY <1>t, MovedType
<1>2. /\ flight'[w] = NoFlight
      /\ \A v \in Servers \ {w} : flight'[v] = Moved(t)[v]
  BY <1>1
<1>3. /\ tab'[t] = new
      /\ \A u \in Tabs \ {t} : tab'[u] = tab[u]
  BY <1>t DEF TabsTypeOK
<1>4. TabsTypeOK'
  <2>1. NoFlight \in Flights
    BY DEF Flights
  <2>2. flight' \in [Servers -> Flights]
    BY <1>1, <2>1
  <2>3. tab' \in [Tabs -> Tokens \cup {NoToken}]
    BY <1>t DEF TabsTypeOK
  <2>4. QED BY <1>t, <2>2, <2>3 DEF TabsTypeOK
<1>5. FlightsFit'
  <2>1. ASSUME NEW v \in Servers \ {w} PROVE Fits(v)'
    BY <1>t, <1>2, <1>3, OutdatedFits DEF FlightsFit, sessionVars
  <2>2. Fits(w)'
    BY <1>2, GoneFits
  <2>3. \A u \in Tabs : tab'[u] # NoToken => tab'[u] \in issued'
    BY <1>t, <1>3 DEF FlightsFit, sessionVars
  <2>4. QED BY <2>1, <2>2, <2>3 DEF FlightsFit
<1>6. HoldsItsSignIn'
  BY <1>t, <1>3 DEF HoldsItsSignIn
<1>7. QED BY <1>4, <1>5, <1>6 DEF TabsInv

\* An answer that counts concerns the token its tab holds.
LEMMA AwaitedFits ==
    ASSUME TabsInv, NEW w \in Servers, Current(w)
    PROVE  /\ OnItsWay(w) /\ flight[w].tab \in Tabs /\ flight[w].kind = "refresh"
           /\ flight[w].tok \in Tokens \cap issued /\ flight[w].tok = tab[flight[w].tab]
           /\ tab[flight[w].tab] # NoToken
<1>1. TabsTypeOK /\ Fits(w) /\ OnItsWay(w)
  BY DEF TabsInv, FlightsFit, Current
<1>2. flight[w].tok = tab[flight[w].tab] /\ flight[w].kind = "refresh" /\ flight[w].tok \in issued
  BY <1>1 DEF Fits
<1>3. flight[w].tok \in Tokens /\ flight[w].tab \in Tabs
  BY <1>1, FlightFields
<1>4. QED BY <1>1, <1>2, <1>3, TokenFields

\* A tab that clears its tokens on an answer
LEMMA ClearKeeps ==
    ASSUME TabsInv, SessionsInv', NEW w \in Servers, NEW t \in Tabs, Clear(t),
           flight' = [Moved(t) EXCEPT ![w] = NoFlight],
           UNCHANGED <<sessionVars, shared, over>>, thrown' \subseteq Sids
    PROVE  TabsInv'
<1>1. home \in [Tabs -> Sids \cup {"none"}]
  BY DEF TabsInv, TabsTypeOK
<1>2. /\ home' \in [Tabs -> Sids \cup {"none"}] /\ home'[t] = "none"
      /\ \A u \in Tabs \ {t} : home'[u] = home[u]
      /\ tab' = [tab EXCEPT ![t] = NoToken]
  BY <1>1 DEF Clear
<1>3. NoToken.sid = "none"
  BY DEF NoToken
<1>4. QED BY <1>2, <1>3, AnsweredKeeps

LEMMA GrantedKeeps ==
    ASSUME TabsInv, SessionsInv', NEW w \in Servers, Granted(w)
    PROVE  TabsInv'
<1>t. TabsTypeOK /\ FlightsFit /\ HoldsItsSignIn /\ SessionsInv
  BY DEF TabsInv
<1>1. /\ flight[w].stage = "granted" /\ OnItsWay(w)
      /\ UNCHANGED <<sessionVars, home, shared, over, thrown>> /\ thrown' \subseteq Sids
  BY <1>t DEF Granted, OnItsWay, TabsTypeOK
<1>2. CASE Current(w)
  <2>1. PICK t \in Tabs : t = flight[w].tab
    BY <1>2, AwaitedFits
  <2>2. PICK new : new = flight[w].new
    OBVIOUS
  <2>3. /\ tab' = [tab EXCEPT ![t] = new]
        /\ flight' = [Moved(t) EXCEPT ![w] = NoFlight]
    BY <1>2, <2>1, <2>2 DEF Granted, StillAwaited, Current
  <2>4. new \in Tokens \cap issued /\ new.sid = flight[w].tok.sid
    BY <1>t, <1>1, <2>2, FlightFields DEF FlightsFit, Fits
  <2>5. new.sid = home'[t]
    BY <1>t, <1>1, <1>2, <2>1, <2>4, AwaitedFits DEF HoldsItsSignIn
  <2>6. home' \in [Tabs -> Sids \cup {"none"}]
    BY <1>t, <1>1 DEF TabsTypeOK
  <2>7. QED BY <1>1, <2>3, <2>4, <2>5, <2>6, AnsweredKeeps
<1>3. CASE ~Current(w)
  <2>1. flight' = [flight EXCEPT ![w] = NoFlight] /\ UNCHANGED tab
    BY <1>1, <1>3 DEF Granted, StillAwaited, Current
  <2>2. QED BY <1>1, <2>1, DroppedKeeps
<1>4. QED BY <1>2, <1>3

LEMMA RefusedKeeps ==
    ASSUME TabsInv, SessionsInv', NEW w \in Servers, Refused(w)
    PROVE  TabsInv'
<1>t. TabsTypeOK /\ FlightsFit /\ HoldsItsSignIn /\ SessionsInv
  BY DEF TabsInv
<1>1. flight[w].stage = "refused" /\ OnItsWay(w) /\ UNCHANGED <<sessionVars, shared, over>>
  BY DEF Refused, OnItsWay
<1>2. CASE Current(w)
  <2>1. PICK t \in Tabs : t = flight[w].tab
    BY <1>2, AwaitedFits
  <2>2. /\ Clear(t) /\ flight' = [Moved(t) EXCEPT ![w] = NoFlight]
        /\ thrown' \subseteq thrown \cup {flight[w].tok.sid}
    BY <1>2, <2>1 DEF Refused, Current
  <2>3. thrown' \subseteq Sids
    BY <1>t, <1>2, <2>2, AwaitedFits, TokenFields DEF TabsTypeOK
  <2>4. QED BY <1>1, <2>2, <2>3, ClearKeeps
<1>3. CASE ~Current(w)
  <2>1. flight' = [flight EXCEPT ![w] = NoFlight] /\ UNCHANGED <<tab, home, thrown>>
    BY <1>1, <1>3 DEF Refused, Current
  <2>2. QED BY <1>t, <1>1, <2>1, DroppedKeeps DEF TabsTypeOK
<1>4. QED BY <1>2, <1>3

LEMMA LostKeeps ==
    ASSUME TabsInv, SessionsInv', NEW w \in Servers, Lost(w)
    PROVE  TabsInv'
<1>t. thrown \subseteq Sids
  BY DEF TabsInv, TabsTypeOK
<1>1. OnItsWay(w) /\ UNCHANGED <<sessionVars, shared, over, thrown>>
  BY DEF Lost, OnItsWay
<1>2. CASE Current(w) /\ ~Mobile
  <2>1. PICK t \in Tabs : t = flight[w].tab
    BY <1>2, AwaitedFits
  <2>2. Clear(t) /\ flight' = [Moved(t) EXCEPT ![w] = NoFlight]
    BY <1>2, <2>1 DEF Lost, Current
  <2>3. QED BY <1>t, <1>1, <2>2, ClearKeeps
<1>3. CASE ~(Current(w) /\ ~Mobile)
  <2>1. flight' = [flight EXCEPT ![w] = NoFlight] /\ UNCHANGED <<tab, home>>
    BY <1>1, <1>3 DEF Lost, Current
  <2>2. QED BY <1>t, <1>1, <2>1, DroppedKeeps
<1>4. QED BY <1>2, <1>3
LEMMA TakeShape ==
    ASSUME TabsInv, NEW w \in Servers, Take(w)
    PROVE  /\ flight[w].stage = "sent" /\ OnItsWay(w)
           /\ flight'[w].stage = "taken" /\ flight'[w].kind = flight[w].kind
           /\ flight'[w].tab = flight[w].tab /\ flight'[w].tok = flight[w].tok
           /\ flight'[w].current = flight[w].current /\ flight'[w] \in Flights
           /\ (Current(w)' <=> Current(w)) /\ OnItsWay(w)'
           /\ \A v \in Servers \ {w} : flight'[v] = flight[v] /\ handling'[v] = handling[v]
           /\ handling'[w].at = flight[w].kind /\ handling'[w].tok = flight[w].tok
           /\ handling[w].at = "idle"
           /\ UNCHANGED <<cred, creds, session, opened, issued, used, jtis, tab, home, shared, over, thrown>>
<1>t. flight \in [Servers -> Flights] /\ handling \in [Servers -> Handlers] /\ TabsTypeOK
  BY DEF TabsInv, TabsTypeOK, SessionsInv, SessionsTypeOK
<1>1. flight[w].stage = "sent" /\ OnItsWay(w)
  BY DEF Take, OnItsWay
<1>2. flight[w] \in [stage: {"sent", "taken", "refused"}, kind: {"refresh", "logout"}, tab: Tabs,
                     tok: Tokens, current: BOOLEAN]
  BY <1>t, <1>1 DEF Flights, NoFlight
<1>3. PICK f : f = [flight[w] EXCEPT !.stage = "taken"]
  OBVIOUS
<1>4. /\ f \in [stage: {"sent", "taken", "refused"}, kind: {"refresh", "logout"}, tab: Tabs,
                tok: Tokens, current: BOOLEAN]
      /\ f.stage = "taken" /\ f.kind = flight[w].kind /\ f.tab = flight[w].tab /\ f.tok = flight[w].tok
  BY <1>2, <1>3
<1>5. f.current = flight[w].current
  BY <1>2, <1>3
<1>6. flight' = [flight EXCEPT ![w] = f]
  <2>1. flight' = [flight EXCEPT ![w].stage = "taken"]
    BY DEF Take
  <2>2. QED BY <1>3, <2>1, Zenon
<1>7. flight'[w] = f /\ \A v \in Servers \ {w} : flight'[v] = flight[v]
  BY <1>t, <1>6
<1>8. (Current(w)' <=> Current(w)) /\ OnItsWay(w)'
  <2>1. OnItsWay(w)'
    BY <1>4, <1>7 DEF OnItsWay
  <2>2. flight'[w].current = flight[w].current
    BY <1>5, <1>7
  <2>3. QED BY <1>1, <2>1, <2>2, Zenon DEF Current
<1>9. PICK h : /\ handling' = [handling EXCEPT ![w] = h] /\ h.at = flight[w].kind /\ h.tok = flight[w].tok
               /\ handling[w].at = "idle"
               /\ UNCHANGED <<cred, creds, session, opened, issued, used, jtis>>
  <2>1. CASE flight[w].kind = "refresh" /\ RefreshRead(w, flight[w].tok)
    BY <2>1 DEF RefreshRead
  <2>2. CASE flight[w].kind = "logout" /\ LogoutRead(w, flight[w].tok)
    BY <2>2 DEF LogoutRead
  <2>3. QED BY <2>1, <2>2 DEF Take
<1>10. handling'[w] = h /\ \A v \in Servers \ {w} : handling'[v] = handling[v]
  BY <1>t, <1>9
<1>11. UNCHANGED <<tab, home, shared, over, thrown>>
  BY DEF Take
<1>12. f \in Flights
  BY <1>4 DEF Flights
<1>13. QED BY <1>1, <1>4, <1>5, <1>7, <1>8, <1>9, <1>10, <1>11, <1>12

LEMMA TakeKeeps ==
    ASSUME TabsInv, SessionsInv', NEW w \in Servers, Take(w)
    PROVE  TabsInv'
<1>t. TabsTypeOK /\ FlightsFit /\ HoldsItsSignIn
  BY DEF TabsInv
<1>1. UNCHANGED <<cred, creds, session, opened, issued, used, jtis, tab, home, shared, over, thrown>>
  BY TakeShape
<1>2. TabsTypeOK'
  <2>1. flight'[w] \in Flights
    BY TakeShape
  <2>2. flight' = [flight EXCEPT ![w] = flight'[w]]
    BY <1>t DEF TabsTypeOK, Take
  <2>3. flight' \in [Servers -> Flights]
    BY <1>t, <2>1, <2>2 DEF TabsTypeOK
  <2>4. QED BY <1>t, <1>1, <2>3 DEF TabsTypeOK
<1>3. FlightsFit'
  <2>1. ASSUME NEW v \in Servers \ {w} PROVE Fits(v)'
    BY <1>t, <1>1, TakeShape, SameFits DEF FlightsFit
  <2>2. Fits(w)'
    <3>1. Fits(w)
      BY <1>t DEF FlightsFit
    <3>2. OnItsWay(w) /\ flight[w].tok \in issued /\ flight'[w].tok = flight[w].tok
      BY <3>1, TakeShape DEF Fits
    <3>3. Current(w)' => flight'[w].kind = "refresh" /\ flight'[w].tok = tab'[flight'[w].tab]
      BY <1>1, <3>1, TakeShape DEF Fits
    <3>4. flight'[w].stage = "taken" /\ handling'[w].at = flight'[w].kind /\ handling'[w].tok = flight'[w].tok
      BY TakeShape
    <3>5. QED BY <1>1, <3>2, <3>3, <3>4 DEF Fits
  <2>3. QED BY <1>t, <1>1, <2>1, <2>2 DEF FlightsFit
<1>4. HoldsItsSignIn'
  BY <1>t, <1>1 DEF HoldsItsSignIn
<1>5. QED BY <1>2, <1>3, <1>4 DEF TabsInv

\* An exchange done for a request: the request is granted a token, or refused.
LEMMA RotateShape ==
    ASSUME TabsInv, SessionsInv', NEW w \in Servers, Rotate(w), flight[w].stage = "taken"
    PROVE  /\ flight'[w] \in Flights
           /\ flight'[w].tab = flight[w].tab /\ flight'[w].tok = flight[w].tok
           /\ flight'[w].kind = "refresh" /\ flight[w].kind = "refresh"
           /\ (Current(w)' <=> Current(w)) /\ OnItsWay(w)' /\ OnItsWay(w)
           /\ flight[w].tok = handling[w].tok
           /\ Accepts(flight[w].tok) => flight'[w].stage = "granted" /\ flight'[w].new = Newest
           /\ ~Accepts(flight[w].tok) => flight'[w].stage = "refused"
<1>t. flight \in [Servers -> Flights] /\ Fits(w) /\ TabsTypeOK /\ SessionsInv
  BY DEF TabsInv, TabsTypeOK, FlightsFit
<1>1. PICK tok : tok = flight[w].tok
  OBVIOUS
<1>2. OnItsWay(w) /\ tok = handling[w].tok /\ flight[w].kind = "refresh" /\ RefreshRotate(w)
  BY <1>t, <1>1 DEF OnItsWay, Fits, Rotate, RefreshRotate
<1>3. flight[w] \in [stage: {"sent", "taken", "refused"}, kind: {"refresh", "logout"}, tab: Tabs,
                     tok: Tokens, current: BOOLEAN]
  BY <1>t DEF Flights, NoFlight
<1>4. CASE Accepts(tok)
  <2>1. PICK f : f = [stage |-> "granted", kind |-> "refresh", tab |-> flight[w].tab,
                      tok |-> flight[w].tok, new |-> Newest, current |-> flight[w].current]
    OBVIOUS
  <2>2. jtis' > jtis /\ Newest \in Tokens
    BY <1>t, <1>2, <1>4, RotateMakes
  <2>3. flight' = [flight EXCEPT ![w] = f]
    BY <2>1, <2>2 DEF Rotate
  <2>4. flight'[w] = f
    BY <1>t, <2>3
  <2>5. f \in Flights
    BY <1>3, <2>1, <2>2 DEF Flights
  <2>6. f.current = flight[w].current
    BY <2>1
  <2>7. f.stage = "granted" /\ f.kind = "refresh" /\ f.tab = flight[w].tab /\ f.tok = tok /\ f.new = Newest
    BY <1>1, <2>1
  <2>8. OnItsWay(w)'
    BY <2>4, <2>7 DEF OnItsWay
  <2>9. Current(w)' <=> Current(w)
    BY <1>2, <2>4, <2>6, <2>8, Zenon DEF Current
  <2>10. QED BY <1>1, <1>2, <1>4, <2>4, <2>5, <2>7, <2>8, <2>9
<1>5. CASE ~Accepts(tok)
  <2>1. PICK f : f = [flight[w] EXCEPT !.stage = "refused"]
    OBVIOUS
  <2>2. ~(jtis' > jtis)
    BY <1>t, <1>2, <1>5, RotateRefuses
  <2>3. flight' = [flight EXCEPT ![w] = f]
    <3>1. flight' = [flight EXCEPT ![w] =
                       IF flight[w].stage # "taken" THEN flight[w]
                       ELSE IF jtis' > jtis
                       THEN [stage |-> "granted", kind |-> "refresh", tab |-> flight[w].tab,
                             tok |-> flight[w].tok, new |-> Newest, current |-> flight[w].current]
                       ELSE [flight[w] EXCEPT !.stage = "refused"]]
      BY Zenon DEF Rotate
    <3>2. QED BY <2>1, <2>2, <3>1
  <2>4. flight'[w] = f
    BY <1>t, <2>3
  <2>5. f \in [stage: {"sent", "taken", "refused"}, kind: {"refresh", "logout"}, tab: Tabs,
               tok: Tokens, current: BOOLEAN]
    BY <1>3, <2>1
  <2>6. f.current = flight[w].current
    BY <1>3, <2>1
  <2>7. f.stage = "refused" /\ f.kind = flight[w].kind /\ f.tab = flight[w].tab /\ f.tok = tok
    BY <1>1, <1>3, <2>1
  <2>8. OnItsWay(w)'
    BY <2>4, <2>7 DEF OnItsWay
  <2>9. Current(w)' <=> Current(w)
    BY <1>2, <2>4, <2>6, <2>8, Zenon DEF Current
  <2>10. f \in Flights
    BY <2>5 DEF Flights
  <2>11. QED BY <1>1, <1>2, <1>5, <2>4, <2>7, <2>8, <2>9, <2>10
<1>6. QED BY <1>1, <1>4, <1>5

LEMMA RotateKeeps ==
    ASSUME TabsInv, SessionsInv', NEW w \in Servers, Rotate(w)
    PROVE  TabsInv'
<1>t. TabsTypeOK /\ FlightsFit /\ HoldsItsSignIn /\ SessionsInv
  BY DEF TabsInv
<1>1. RefreshRotate(w) /\ UNCHANGED <<tab, home, shared, over, thrown>>
  BY DEF Rotate
<1>2. /\ handling'[w].at = "idle"
      /\ \A v \in Servers \ {w} : handling'[v] = handling[v]
  BY <1>t, <1>1 DEF RefreshRotate, Unoccupied, SessionsInv, SessionsTypeOK
<1>3. PICK tok : tok = handling[w].tok
  OBVIOUS
<1>4. issued \subseteq issued'
  <2>1. CASE Accepts(tok)
    BY <1>t, <1>1, <1>3, <2>1, RotateMakes
  <2>2. CASE ~Accepts(tok)
    BY <1>t, <1>1, <1>3, <2>2, RotateRefuses
  <2>3. QED BY <2>1, <2>2
<1>5. \A v \in Servers \ {w} : flight'[v] = flight[v]
  BY <1>t DEF Rotate, TabsTypeOK
<1>6. flight'[w] \in Flights /\ Fits(w)'
  <2>1. CASE flight[w].stage # "taken"
    <3>1. flight[w].stage \notin {"sent", "granted", "refused"}
      BY <1>t, <1>1 DEF FlightsFit, Fits, RefreshRotate
    <3>2. flight[w] = NoFlight
      BY <1>t, <2>1, <3>1 DEF TabsTypeOK, Flights
    <3>3. flight'[w] = NoFlight
      BY <1>t, <2>1, <3>2 DEF TabsTypeOK, Rotate
    <3>4. QED BY <3>3, GoneFits DEF Flights
  <2>2. CASE flight[w].stage = "taken"
    <3>1. /\ flight'[w].stage \in {"granted", "refused"}
          /\ flight'[w].tab = flight[w].tab /\ flight'[w].tok = flight[w].tok
          /\ flight'[w].kind = "refresh" /\ OnItsWay(w) /\ flight'[w] \in Flights
          /\ (Current(w)' <=> Current(w)) /\ flight[w].tok = tok
      BY <1>3, <2>2, RotateShape
    <3>2. tok \in issued'
      BY <1>t, <1>4, <3>1 DEF FlightsFit, Fits
    <3>3. Current(w)' => flight'[w].tok = tab'[flight'[w].tab]
      BY <1>t, <1>1, <3>1 DEF FlightsFit, Fits
    <3>4. flight'[w].stage = "granted" => flight'[w].new \in issued' /\ flight'[w].new.sid = tok.sid
      <4>1. CASE Accepts(tok)
        BY <1>t, <1>1, <1>3, <2>2, <3>1, <4>1, RotateShape, RotateMakes
      <4>2. CASE ~Accepts(tok)
        BY <2>2, <3>1, <4>2, RotateShape
      <4>3. QED BY <4>1, <4>2
    <3>5. QED BY <1>2, <3>1, <3>2, <3>3, <3>4 DEF Fits
  <2>3. QED BY <2>1, <2>2
<1>7. TabsTypeOK'
  <2>1. PICK f : flight' = [flight EXCEPT ![w] = f]
    BY DEF Rotate
  <2>2. flight'[w] = f
    BY <1>t, <2>1 DEF TabsTypeOK
  <2>3. flight' \in [Servers -> Flights]
    BY <1>t, <1>6, <2>1, <2>2 DEF TabsTypeOK
  <2>4. QED BY <1>t, <1>1, <2>3 DEF TabsTypeOK
<1>8. FlightsFit'
  <2>1. ASSUME NEW v \in Servers \ {w} PROVE Fits(v)'
    BY <1>t, <1>1, <1>2, <1>4, <1>5, SameFits DEF FlightsFit
  <2>2. QED BY <1>t, <1>1, <1>4, <1>6, <2>1 DEF FlightsFit
<1>9. HoldsItsSignIn'
  BY <1>t, <1>1 DEF HoldsItsSignIn
<1>10. QED BY <1>7, <1>8, <1>9 DEF TabsInv

LEMMA RevokeKeeps ==
    ASSUME TabsInv, SessionsInv', NEW w \in Servers, Revoke(w)
    PROVE  TabsInv'
<1>t. TabsTypeOK /\ FlightsFit /\ HoldsItsSignIn /\ SessionsInv
  BY DEF TabsInv
<1>1. /\ flight' = [flight EXCEPT ![w] = NoFlight] /\ UNCHANGED <<tab, home, shared, thrown, issued>>
      /\ handling' = [handling EXCEPT ![w] = Unoccupied]
  BY DEF Revoke, LogoutRevoke
<1>2. /\ flight'[w] = NoFlight
      /\ \A v \in Servers \ {w} : flight'[v] = flight[v] /\ handling'[v] = handling[v]
  BY <1>t, <1>1 DEF TabsTypeOK, SessionsInv, SessionsTypeOK
<1>3. TabsTypeOK'
  <2>1. NoFlight \in Flights
    BY DEF Flights
  <2>2. flight' \in [Servers -> Flights]
    BY <1>t, <1>1, <2>1 DEF TabsTypeOK
  <2>3. handling[w].tok.sid \in Sids
    BY <1>t, HoldsToken DEF Revoke, LogoutRevoke
  <2>4. over' \subseteq Sids
    BY <1>t, <2>3 DEF Revoke, TabsTypeOK
  <2>5. QED BY <1>t, <1>1, <2>2, <2>4 DEF TabsTypeOK
<1>4. FlightsFit'
  <2>1. ASSUME NEW v \in Servers \ {w} PROVE Fits(v)'
    BY <1>t, <1>1, <1>2, SameFits DEF FlightsFit
  <2>2. Fits(w)'
    BY <1>2, GoneFits
  <2>3. QED BY <1>t, <1>1, <2>1, <2>2 DEF FlightsFit
<1>5. HoldsItsSignIn'
  BY <1>t, <1>1 DEF HoldsItsSignIn
<1>6. QED BY <1>3, <1>4, <1>5 DEF TabsInv

LEMMA TimeKeeps ==
    ASSUME TabsInv, SessionsInv', NEW sid \in Sids, Grace(sid) \/ Ends(sid)
    PROVE  TabsInv'
<1>t. TabsTypeOK /\ FlightsFit /\ HoldsItsSignIn /\ SessionsInv
  BY DEF TabsInv
<1>1. /\ UNCHANGED <<tab, flight, home, shared, thrown, issued, handling>>
      /\ over' \subseteq over \cup {sid}
  BY DEF Grace, GraceOver, Ends, Expire, tabVars
<1>2. TabsTypeOK'
  BY <1>t, <1>1 DEF TabsTypeOK
<1>3. FlightsFit'
  <2>1. ASSUME NEW v \in Servers PROVE Fits(v)'
    BY <1>t, <1>1, SameFits DEF FlightsFit
  <2>2. QED BY <1>t, <1>1, <2>1 DEF FlightsFit
<1>4. HoldsItsSignIn'
  BY <1>t, <1>1 DEF HoldsItsSignIn
<1>5. QED BY <1>2, <1>3, <1>4 DEF TabsInv

LEMMA TabsInitInv == TabsInit => TabsInv
<1> SUFFICES ASSUME TabsInit PROVE TabsInv
  OBVIOUS
<1>1. SessionsInv
  BY SessionsInitInv DEF TabsInit
<1>2. TabsTypeOK
  BY DEF TabsInit, TabsTypeOK, Flights
<1>3. FlightsFit
  BY DEF TabsInit, FlightsFit, Fits, OnItsWay, Current, NoFlight
<1>4. HoldsItsSignIn
  BY DEF TabsInit, HoldsItsSignIn, NoToken
<1>5. QED BY <1>1, <1>2, <1>3, <1>4 DEF TabsInv

LEMMA TabsNextInv == TabsInv /\ [TabsNext]_allVars => TabsInv'
<1> SUFFICES ASSUME TabsInv, [TabsNext]_allVars PROVE TabsInv'
  OBVIOUS
<1>s. SessionsInv'
  BY StepsAreSessionSteps, SessionsNextInv DEF TabsInv
<1>1. ASSUME NEW t \in Tabs, TabNext(t)
      PROVE  TabsInv'
  BY <1>s, <1>1, SignInKeeps, SignOutKeeps, SendRefreshKeeps, DuplicateKeeps DEF TabNext
<1>2. ASSUME NEW w \in Servers, FlightNext(w)
      PROVE  TabsInv'
  BY <1>s, <1>2, TakeKeeps, RotateKeeps, RevokeKeeps, GrantedKeeps, RefusedKeeps, LostKeeps DEF FlightNext
<1>3. ASSUME NEW sid \in Sids, Grace(sid) \/ Ends(sid)
      PROVE  TabsInv'
  BY <1>s, <1>3, TimeKeeps
<1>4. CASE UNCHANGED allVars
  <2>1. UNCHANGED <<sessionVars, tab, flight, home, shared, over, thrown, issued, handling>>
    BY <1>4 DEF allVars, tabVars, sessionVars
  <2>2. TabsTypeOK' /\ HoldsItsSignIn'
    BY <2>1 DEF TabsInv, TabsTypeOK, HoldsItsSignIn
  <2>3. FlightsFit'
    BY <2>1 DEF TabsInv, FlightsFit, Fits, OnItsWay, Current
  <2>4. QED BY <1>s, <2>2, <2>3 DEF TabsInv
<1>5. QED BY <1>1, <1>2, <1>3, <1>4 DEF TabsNext

\* A request is handled for the token it carries, and a tab holds a token the
\* server made, whatever is lost, duplicated or answered late.
THEOREM TabsInvariance == TabsSpec => []TabsInv
BY TabsInitInv, TabsNextInv, PTL DEF TabsSpec

\* What a tab holds belongs to its latest sign-in: no late answer brings back
\* a session signed out of, or replaces a newer one.
THEOREM TabsHoldTheirSignIn == TabsSpec => []HoldsItsSignIn
<1>1. TabsInv => HoldsItsSignIn
  BY DEF TabsInv
<1>2. QED BY <1>1, TabsInvariance, PTL
-----------------------------------------------------------------------------
(* A client that behaves: an unshared session through a step *)

LEMMA StaysOne ==
    ASSUME OneAwaited, \A v \in Servers : Current(v)' => Current(v) /\ flight'[v].tab = flight[v].tab
    PROVE  OneAwaited'
BY DEF OneAwaited

LEMMA StaysAlone ==
    ASSUME NEW u \in Tabs, Alone(u), tab'[u] = tab[u], NEW sid, sid = tab[u].sid,
           \A v \in Tabs : tab'[v] # NoToken /\ tab'[v].sid = sid => v = u \/ tab'[v] = tab[v],
           \A v \in Servers : OnItsWay(v)' /\ flight'[v].tok.sid = sid =>
              (OnItsWay(v) /\ flight'[v] = flight[v]) \/ (flight'[v].tab = u /\ flight'[v].current),
           \A v \in Servers : handling'[v].at \in {"refresh", "logout"} /\ handling'[v].tok.sid = sid =>
              flight'[v].stage = "taken"
    PROVE  Alone(u)'
<1>1. /\ \A v \in Tabs : tab[v] # NoToken /\ tab[v].sid = sid => v = u
      /\ \A v \in Servers : OnItsWay(v) /\ flight[v].tok.sid = sid => flight[v].tab = u /\ flight[v].current
  BY DEF Alone
<1>2. tab'[u].sid = sid
  OBVIOUS
<1>3. \A v \in Tabs : tab'[v] # NoToken /\ tab'[v].sid = sid => v = u
  BY <1>1
<1>4. \A v \in Servers : OnItsWay(v)' /\ flight'[v].tok.sid = sid => flight'[v].tab = u /\ flight'[v].current
  BY <1>1
<1>5. QED BY <1>2, <1>3, <1>4 DEF Alone

\* The refresh a tab awaits, if any, is as far as before.
LEMMA StaysValid ==
    ASSUME NEW u \in Tabs, Valid(u), tab'[u] = tab[u], NEW sid, sid = tab[u].sid,
           Alive(sid)', session'[sid].cur = session[sid].cur,
           \A v \in Servers : Current(v)' /\ flight'[v].tab = u =>
              /\ Current(v) /\ flight[v].tab = u
              /\ flight'[v].stage # "refused"
              /\ flight'[v].stage = "granted" => flight[v].stage = "granted" /\ flight'[v].new = flight[v].new
              /\ flight'[v].stage # "granted" => flight[v].stage # "granted",
           \A v \in Servers : Current(v) /\ flight[v].tab = u => Current(v)' /\ flight'[v].tab = u
    PROVE  Valid(u)'
<1>1. tab'[u].sid = sid /\ tab'[u].jti = tab[u].jti
  OBVIOUS
<1>2. \A v \in Servers : Current(v) /\ flight[v].tab = u =>
        /\ flight[v].stage = "granted" => session[sid].cur = flight[v].new.jti
        /\ flight[v].stage # "granted" => session[sid].cur = tab[u].jti
  BY DEF Valid
<1>3. (\A v \in Servers : ~(Current(v) /\ flight[v].tab = u)) => session[sid].cur = tab[u].jti
  BY DEF Valid
<1>4. \A v \in Servers : Current(v)' /\ flight'[v].tab = u =>
        /\ flight'[v].stage # "refused"
        /\ flight'[v].stage = "granted" => session'[sid].cur = flight'[v].new.jti
        /\ flight'[v].stage # "granted" => session'[sid].cur = tab'[u].jti
  BY <1>1, <1>2
<1>5. (\A v \in Servers : ~(Current(v)' /\ flight'[v].tab = u)) => session'[sid].cur = tab'[u].jti
  BY <1>1, <1>3
<1>6. QED BY <1>1, <1>4, <1>5 DEF Valid

\* What is to be shown of each tab after a step
Fine(u) ==
    /\ tab[u] # NoToken /\ tab[u].sid \notin shared => Alone(u)
    /\ tab[u] # NoToken /\ tab[u].sid \notin shared \cup over => Valid(u)

LEMMA UnsharedSession ==
    ASSUME BehavedInv, NEW u \in Tabs, tab[u] # NoToken, NEW sid, sid = tab[u].sid, sid \notin shared
    PROVE  /\ TabsInv /\ TabsTypeOK /\ FlightsFit /\ SessionsInv /\ tab[u] \in Tokens \cap issued
           /\ sid \in Sids /\ opened[sid] # None
           /\ \A v \in Tabs : tab[v] # NoToken /\ tab[v].sid = sid => v = u
           /\ Alone(u) /\ (sid \notin over => Valid(u))
           /\ \A w \in Servers :
                /\ OnItsWay(w) /\ flight[w].tok.sid = sid => flight[w].tab = u /\ Current(w)
                /\ handling[w].at \in {"refresh", "logout"} /\ handling[w].tok.sid = sid =>
                     /\ flight[w].stage = "taken" /\ handling[w].at = "refresh" /\ Current(w)
                     /\ flight[w].tab = u /\ flight[w].tok = handling[w].tok /\ handling[w].tok = tab[u]
<1>1. TabsInv /\ TabsTypeOK /\ FlightsFit /\ SessionsInv /\ tab[u] \in Tokens \cap issued
  BY DEF BehavedInv, TabsInv, FlightsFit, TabsTypeOK
<1>2. sid \in Sids /\ opened[sid] # None
  BY <1>1, TokenFields DEF SessionsInv, TokensAreFresh
<1>3. Alone(u) /\ (sid \notin over => Valid(u))
  BY DEF BehavedInv, UnsharedIsValid
<1>4. \A v \in Tabs : tab[v] # NoToken /\ tab[v].sid = sid => v = u
  BY <1>3 DEF Alone
<1>5. ASSUME NEW w \in Servers, OnItsWay(w), flight[w].tok.sid = sid
      PROVE  flight[w].tab = u /\ Current(w)
  BY <1>3, <1>5 DEF Alone, Current
<1>6. ASSUME NEW w \in Servers, handling[w].at \in {"refresh", "logout"}, handling[w].tok.sid = sid
      PROVE  /\ flight[w].stage = "taken" /\ handling[w].at = "refresh" /\ Current(w)
             /\ flight[w].tab = u /\ flight[w].tok = handling[w].tok /\ handling[w].tok = tab[u]
  <2>1. flight[w].stage = "taken"
    BY <1>3, <1>6 DEF Alone
  <2>2. OnItsWay(w) /\ handling[w].at = flight[w].kind /\ handling[w].tok = flight[w].tok
    BY <1>1, <2>1 DEF FlightsFit, Fits, OnItsWay
  <2>3. flight[w].tab = u /\ Current(w)
    BY <1>5, <1>6, <2>2
  <2>4. flight[w].kind = "refresh" /\ flight[w].tok = tab[u]
    BY <1>1, <2>3 DEF FlightsFit, Fits
  <2>5. QED BY <2>1, <2>2, <2>3, <2>4
<1>7. QED BY <1>1, <1>2, <1>3, <1>4, <1>5, <1>6

\* The other tabs, when one tab's revision moves
LEMMA OthersStayFine ==
    ASSUME BehavedInv, NEW t \in Tabs, NEW u \in Tabs \ {t}, tab'[u] = tab[u],
           shared \subseteq shared', over \subseteq over',
           tab[u] # NoToken, tab[u].sid \notin shared',
           session'[tab[u].sid] = session[tab[u].sid],
           \A v \in Tabs \ {t} : tab'[v] = tab[v],
           tab'[t] # NoToken => tab'[t].sid # tab[u].sid,
           UNCHANGED handling,
           \A v \in Servers :
              \/ flight'[v] = Moved(t)[v]
              \/ /\ OnItsWay(v) => flight[v].tab = t
                 /\ ~Current(v)'
                 /\ OnItsWay(v)' => flight'[v].tok.sid # tab[u].sid
    PROVE  Fine(u)'
<1>1. PICK sid : sid = tab[u].sid /\ sid \notin shared /\ sid \notin shared'
  OBVIOUS
<1>2. TabsTypeOK /\ Alone(u)
  BY <1>1, UnsharedSession
<1>3. ASSUME NEW v \in Servers, OnItsWay(v)', flight'[v].tok.sid = sid
      PROVE  OnItsWay(v) /\ flight'[v] = flight[v]
  <2>1. flight'[v] = Moved(t)[v]
    BY <1>1, <1>3
  <2>2. OnItsWay(v) /\ flight[v].tok.sid = sid
    BY <1>2, <1>3, <2>1, OutdatedAwaits
  <2>3. flight[v].tab = u
    BY <1>1, <2>2, UnsharedSession
  <2>4. QED BY <1>2, <2>1, <2>2, <2>3, OutdatedAwaits
<1>4. ASSUME NEW v \in Servers, handling[v].at \in {"refresh", "logout"}, handling[v].tok.sid = sid
      PROVE  flight'[v].stage = "taken"
  <2>1. flight[v].stage = "taken" /\ flight[v].tab = u
    BY <1>1, <1>4, UnsharedSession
  <2>2. OnItsWay(v) /\ flight'[v] = Moved(t)[v]
    BY <2>1 DEF OnItsWay
  <2>3. flight'[v] = flight[v]
    BY <1>2, <2>1, <2>2, OutdatedAwaits
  <2>4. QED BY <2>1, <2>3
<1>5. Alone(u)'
  <2>1. \A v \in Tabs : tab'[v] # NoToken /\ tab'[v].sid = sid => v = u \/ tab'[v] = tab[v]
    BY <1>1
  <2>2. \A v \in Servers : handling'[v].at \in {"refresh", "logout"} /\ handling'[v].tok.sid = sid =>
            flight'[v].stage = "taken"
    BY <1>4
  <2>3. \A v \in Servers : OnItsWay(v)' /\ flight'[v].tok.sid = sid =>
            (OnItsWay(v) /\ flight'[v] = flight[v]) \/ (flight'[v].tab = u /\ flight'[v].current)
    BY <1>3
  <2>4. QED BY <1>1, <1>2, <2>1, <2>2, <2>3, StaysAlone
<1>6. ASSUME sid \notin over PROVE Valid(u)'
  <2>1. Valid(u)
    BY <1>1, <1>6, UnsharedSession
  <2>2. Alive(sid)' /\ session'[sid].cur = session[sid].cur
    BY <1>1, <2>1 DEF Valid, Alive
  <2>3. ASSUME NEW v \in Servers, Current(v)', flight'[v].tab = u
        PROVE  Current(v) /\ flight'[v] = flight[v]
    BY <1>2, <2>3, OutdatedAwaits
  <2>4. \A v \in Servers : Current(v)' /\ flight'[v].tab = u =>
            Current(v) /\ flight[v].tab = u /\ flight[v].stage # "refused"
    BY <2>1, <2>3 DEF Valid
  <2>5. ASSUME NEW v \in Servers, Current(v), flight[v].tab = u
        PROVE  Current(v)' /\ flight'[v].tab = u
    <3>1. OnItsWay(v) /\ flight'[v] = Moved(t)[v]
      BY <2>5 DEF Current
    <3>2. flight'[v] = flight[v]
      BY <1>2, <2>5, <3>1, OutdatedAwaits
    <3>3. QED BY <2>5, <3>2 DEF Current, OnItsWay
  <2>6. QED BY <1>1, <2>1, <2>2, <2>3, <2>4, <2>5, StaysValid
<1>7. QED BY <1>1, <1>5, <1>6 DEF Fine

\* All tabs, when no tab's revision moves
LEMMA StaysFine ==
    ASSUME BehavedInv, NEW u \in Tabs, tab'[u] = tab[u],
           shared \subseteq shared', over \subseteq over',
           tab[u] # NoToken, tab[u].sid \notin shared',
           NEW sid, sid = tab[u].sid,
           sid \notin over' /\ Alive(sid) => Alive(sid)' /\ session'[sid].cur = session[sid].cur,
           \A v \in Tabs : tab'[v] # NoToken /\ tab'[v].sid = sid => v = u \/ tab'[v] = tab[v],
           \A v \in Servers :
              \/ flight'[v] = flight[v] /\ handling'[v] = handling[v]
              \/ /\ OnItsWay(v) => flight[v].tok.sid # sid
                 /\ handling'[v].at \in {"refresh", "logout"} => handling'[v].tok.sid # sid
                 /\ OnItsWay(v)' => flight'[v].tok.sid # sid
                 /\ flight'[v].tab = u => ~Current(v)'
              \/ /\ OnItsWay(v) /\ OnItsWay(v)' /\ (Current(v)' <=> Current(v))
                 /\ flight'[v].tab = flight[v].tab /\ flight'[v].tok = flight[v].tok
                 /\ flight[v].stage = "sent" /\ flight'[v].stage = "taken"
    PROVE  Fine(u)'
<1>1. sid \notin shared /\ sid \notin shared'
  OBVIOUS
<1>2. Alone(u)
  BY <1>1, UnsharedSession
<1>3. ASSUME NEW v \in Servers, OnItsWay(v)', flight'[v].tok.sid = sid
      PROVE  (OnItsWay(v) /\ flight'[v] = flight[v]) \/ (flight'[v].tab = u /\ flight'[v].current)
  <2>1. CASE flight'[v] = flight[v]
    BY <1>3, <2>1 DEF OnItsWay
  <2>2. CASE flight'[v] # flight[v]
    <3>1. /\ OnItsWay(v) /\ (Current(v)' <=> Current(v))
          /\ flight'[v].tab = flight[v].tab /\ flight'[v].tok = flight[v].tok
      BY <1>3, <2>2
    <3>2. flight[v].tab = u /\ Current(v)
      BY <1>1, <1>3, <3>1, UnsharedSession
    <3>3. QED BY <3>1, <3>2 DEF Current
  <2>3. QED BY <2>1, <2>2
<1>4. ASSUME NEW v \in Servers, handling'[v].at \in {"refresh", "logout"}, handling'[v].tok.sid = sid
      PROVE  flight'[v].stage = "taken"
  <2>1. CASE flight'[v].stage = "taken"
    BY <2>1
  <2>2. CASE flight'[v].stage # "taken"
    <3>1. flight'[v] = flight[v] /\ handling'[v] = handling[v]
      BY <1>4, <2>2
    <3>2. QED BY <1>1, <1>4, <3>1, UnsharedSession
  <2>3. QED BY <2>1, <2>2
<1>5. Alone(u)'
  BY <1>2, <1>3, <1>4, StaysAlone
<1>6. ASSUME sid \notin over' PROVE Valid(u)'
  <2>1. Valid(u)
    BY <1>1, <1>6, UnsharedSession
  <2>2. Alive(sid)' /\ session'[sid].cur = session[sid].cur
    BY <1>6, <2>1 DEF Valid
  <2>3. \A v \in Servers : Current(v) /\ flight[v].tab = u =>
            flight[v].stage # "refused" /\ OnItsWay(v) /\ flight[v].tok.sid = sid
    BY <1>1, <2>1, AwaitedFits, UnsharedSession DEF Valid, Current
  <2>4. ASSUME NEW v \in Servers, Current(v)', flight'[v].tab = u
        PROVE  /\ Current(v) /\ flight[v].tab = u
               /\ flight'[v].stage # "refused"
               /\ flight'[v].stage = "granted" => flight[v].stage = "granted" /\ flight'[v].new = flight[v].new
               /\ flight'[v].stage # "granted" => flight[v].stage # "granted"
    <3>1. CASE flight'[v] = flight[v]
      BY <2>3, <2>4, <3>1 DEF Current, OnItsWay
    <3>2. CASE flight'[v] # flight[v]
      BY <2>4, <3>2
    <3>3. QED BY <3>1, <3>2
  <2>5. ASSUME NEW v \in Servers, Current(v), flight[v].tab = u
        PROVE  Current(v)' /\ flight'[v].tab = u
    <3>1. CASE flight'[v] = flight[v]
      BY <2>5, <3>1 DEF Current, OnItsWay
    <3>2. CASE flight'[v] # flight[v]
      BY <2>3, <2>5, <3>2
    <3>3. QED BY <3>1, <3>2
  <2>6. QED BY <2>1, <2>2, <2>4, <2>5, StaysValid
<1>7. QED BY <1>5, <1>6 DEF Fine
-----------------------------------------------------------------------------
(* BehavedInv, action by action *)

Behaves == OneAwaited /\ NeverThrownOut /\ \A u \in Tabs : Fine(u)

LEMMA BehavesIs == BehavedInv <=> TabsInv /\ Behaves
BY DEF BehavedInv, Behaves, UnsharedIsValid, Fine

LEMMA SignInBehaves ==
    ASSUME BehavedInv, SessionsInv', NEW t \in Tabs, NEW sid \in Sids, SignIn(t, sid)
    PROVE  Behaves'
<1>t. TabsInv /\ TabsTypeOK /\ FlightsFit /\ SessionsInv /\ OneAwaited /\ NeverThrownOut
  BY DEF BehavedInv, TabsInv
<1>1. /\ Newest \in Tokens /\ Newest.sid = sid /\ opened[sid] = None /\ UNCHANGED handling
      /\ session'[sid].cur = Newest.jti /\ Alive(sid)'
      /\ \A s \in Sids \ {sid} : session'[s] = session[s]
  BY <1>t, SignInMakes
<1>2. /\ tab'[t] = Newest /\ flight' = Moved(t) /\ UNCHANGED <<shared, over, thrown>>
      /\ \A u \in Tabs \ {t} : tab'[u] = tab[u]
  BY <1>t DEF SignIn, TabsTypeOK
<1>3. OneAwaited'
  BY <1>t, <1>2, OutdatedAwaits, StaysOne
<1>4. NeverThrownOut'
  BY <1>t, <1>2 DEF NeverThrownOut
<1>5. ASSUME NEW u \in Tabs \ {t} PROVE Fine(u)'
  <2> SUFFICES ASSUME tab'[u] # NoToken, tab'[u].sid \notin shared' PROVE Fine(u)'
    BY DEF Fine
  <2>1. tab'[u] = tab[u] /\ tab[u] # NoToken /\ tab[u].sid \notin shared
    BY <1>2
  <2>2. tab[u].sid \in Sids \ {sid}
    BY <1>1, <2>1, UnsharedSession
  <2>3. tab'[t].sid # tab[u].sid
    BY <1>1, <1>2, <2>2
  <2>4. session'[tab[u].sid] = session[tab[u].sid]
    BY <1>1, <2>2
  <2>5. QED BY <1>1, <1>2, <2>1, <2>3, <2>4, OthersStayFine
<1>6. Fine(t)'
  <2>1. \A x \in issued : x.sid # sid
    BY <1>t, <1>1 DEF SessionsInv, TokensAreFresh
  <2>2. \A u \in Tabs : tab'[u] # NoToken /\ tab'[u].sid = sid => u = t
    BY <1>t, <1>2, <2>1 DEF FlightsFit
  <2>3. ASSUME NEW w \in Servers, OnItsWay(w)' PROVE flight'[w].tok.sid # sid
    BY <1>t, <1>2, <2>1, <2>3, OutdatedAwaits DEF FlightsFit, Fits
  <2>4. ASSUME NEW w \in Servers, handling'[w].at \in {"refresh", "logout"}
        PROVE  handling'[w].tok.sid # sid
    BY <1>t, <1>1, <2>1, <2>4 DEF SessionsInv, TokensAreFresh
  <2>5. tab'[t].sid = sid /\ tab'[t].jti = session'[sid].cur
    BY <1>1, <1>2
  <2>6. Alone(t)'
    BY <2>2, <2>3, <2>4, <2>5 DEF Alone
  <2>7. \A w \in Servers : ~(Current(w)' /\ flight'[w].tab = t)
    BY <1>t, <1>2, OutdatedAwaits
  <2>8. Valid(t)'
    BY <1>1, <2>5, <2>7 DEF Valid
  <2>9. QED BY <2>6, <2>8 DEF Fine
<1>7. QED BY <1>3, <1>4, <1>5, <1>6 DEF Behaves

LEMMA SignOutBehaves ==
    ASSUME BehavedInv, NEW t \in Tabs, NEW w \in Servers, SignOut(t, w)
    PROVE  Behaves'
<1>t. TabsInv /\ TabsTypeOK /\ OneAwaited /\ NeverThrownOut
  BY DEF BehavedInv, TabsInv
<1>1. PICK f : f = [stage |-> "sent", kind |-> "logout", tab |-> t, tok |-> tab[t], current |-> FALSE]
  OBVIOUS
<1>2. /\ tab' = [tab EXCEPT ![t] = NoToken] /\ flight' = [Moved(t) EXCEPT ![w] = f]
      /\ tab[t] # NoToken /\ flight[w] = NoFlight
      /\ UNCHANGED <<session, handling, shared, over, thrown>>
  BY <1>1 DEF SignOut, LogoutSends, sessionVars
<1>3. /\ tab'[t] = NoToken
      /\ \A u \in Tabs \ {t} : tab'[u] = tab[u]
  BY <1>t, <1>2 DEF TabsTypeOK
<1>4. /\ flight'[w] = f
      /\ \A v \in Servers \ {w} : flight'[v] = Moved(t)[v]
  BY <1>t, <1>2, MovedType
<1>5. ~Current(w)' /\ ~OnItsWay(w) /\ flight'[w].tok = tab[t]
  BY <1>1, <1>2, <1>4 DEF Current, OnItsWay, NoFlight
<1>6. OneAwaited'
  BY <1>t, <1>4, <1>5, OutdatedAwaits, StaysOne
<1>7. NeverThrownOut'
  BY <1>t, <1>2 DEF NeverThrownOut
<1>8. Fine(t)'
  BY <1>3 DEF Fine
<1>9. ASSUME NEW u \in Tabs \ {t} PROVE Fine(u)'
  <2> SUFFICES ASSUME tab'[u] # NoToken, tab'[u].sid \notin shared' PROVE Fine(u)'
    BY DEF Fine
  <2>1. tab'[u] = tab[u] /\ tab[u] # NoToken /\ tab[u].sid \notin shared'
    BY <1>3
  <2>2. tab[t].sid # tab[u].sid
    BY <1>2, <2>1, UnsharedSession
  <2>3. \A v \in Servers :
          \/ flight'[v] = Moved(t)[v]
          \/ /\ OnItsWay(v) => flight[v].tab = t
             /\ ~Current(v)'
             /\ OnItsWay(v)' => flight'[v].tok.sid # tab[u].sid
    BY <1>4, <1>5, <2>2
  <2>4. QED BY <1>2, <1>3, <2>1, <2>3, OthersStayFine
<1>10. QED BY <1>6, <1>7, <1>8, <1>9 DEF Behaves

LEMMA DuplicateBehaves ==
    ASSUME BehavedInv, NEW t \in Tabs, NEW c \in Tabs, Duplicate(t, c)
    PROVE  Behaves'
<1>t. TabsInv /\ TabsTypeOK /\ OneAwaited /\ NeverThrownOut
  BY DEF BehavedInv, TabsInv
<1>1. /\ tab' = [tab EXCEPT ![c] = tab[t]] /\ tab[t] # NoToken /\ tab[c] = NoToken
      /\ shared' = shared \cup {tab[t].sid}
      /\ UNCHANGED <<session, handling, flight, over, thrown>>
  BY DEF Duplicate, sessionVars
<1>2. /\ tab'[c] = tab[t]
      /\ \A v \in Tabs \ {c} : tab'[v] = tab[v]
  BY <1>t, <1>1 DEF TabsTypeOK
<1>3. OneAwaited' /\ NeverThrownOut'
  BY <1>t, <1>1 DEF OneAwaited, Current, OnItsWay, NeverThrownOut
<1>4. ASSUME NEW u \in Tabs PROVE Fine(u)'
  <2> SUFFICES ASSUME tab'[u] # NoToken, tab'[u].sid \notin shared' PROVE Fine(u)'
    BY DEF Fine
  <2>1. u # c /\ tab'[u] = tab[u]
    BY <1>1, <1>2
  <2>2. PICK sid : sid = tab[u].sid
    OBVIOUS
  <2>3. sid # tab[t].sid /\ sid \notin shared' /\ tab[u] # NoToken
    BY <1>1, <2>1, <2>2
  <2>4. \A v \in Tabs : tab'[v] # NoToken /\ tab'[v].sid = sid => v = u \/ tab'[v] = tab[v]
    BY <1>2, <2>3
  <2>5. Alive(sid) => Alive(sid)' /\ session'[sid].cur = session[sid].cur
    BY <1>1 DEF Alive
  <2>6. QED BY <1>1, <2>1, <2>2, <2>3, <2>4, <2>5, StaysFine
<1>5. QED BY <1>3, <1>4 DEF Behaves

LEMMA SendRefreshBehaves ==
    ASSUME BehavedInv, NEW t \in Tabs, NEW w \in Servers, SendRefresh(t, w)
    PROVE  Behaves'
<1>t. TabsInv /\ TabsTypeOK /\ OneAwaited /\ NeverThrownOut
  BY DEF BehavedInv, TabsInv
<1>1. PICK f : f = [stage |-> "sent", kind |-> "refresh", tab |-> t, tok |-> tab[t], current |-> TRUE]
  OBVIOUS
<1>2. /\ flight' = [flight EXCEPT ![w] = f]
      /\ tab[t] # NoToken /\ flight[w] = NoFlight /\ handling[w] = Unoccupied
      /\ UNCHANGED <<session, handling, tab, shared, over, thrown>>
  BY <1>1 DEF SendRefresh, sessionVars
<1>3. /\ flight'[w] = f
      /\ \A v \in Servers \ {w} : flight'[v] = flight[v] /\ (Current(v)' <=> Current(v))
  BY <1>t, <1>2 DEF TabsTypeOK, Current, OnItsWay
<1>4. /\ Current(w)' /\ flight'[w].tab = t /\ flight'[w].tok = tab[t] /\ flight'[w].stage = "sent"
      /\ flight'[w].current
  BY <1>1, <1>3 DEF Current, OnItsWay
<1>5. \A v \in Servers : ~(Current(v) /\ flight[v].tab = t)
  BY DEF SendRefresh, NoneOnItsWay, Current, OnItsWay
<1>6. OneAwaited'
  BY <1>t, <1>3, <1>4, <1>5 DEF OneAwaited
<1>7. NeverThrownOut'
  BY <1>t, <1>2 DEF NeverThrownOut
<1>8. ASSUME NEW u \in Tabs \ {t} PROVE Fine(u)'
  <2> SUFFICES ASSUME tab'[u] # NoToken, tab'[u].sid \notin shared' PROVE Fine(u)'
    BY DEF Fine
  <2>1. PICK sid : sid = tab[u].sid
    OBVIOUS
  <2>2. sid # tab[t].sid
    BY <1>2, <2>1, UnsharedSession
  <2>3. Alive(sid) => Alive(sid)' /\ session'[sid].cur = session[sid].cur
    BY <1>2 DEF Alive
  <2>4. /\ ~OnItsWay(w) /\ handling'[w].at \notin {"refresh", "logout"}
        /\ flight'[w].tok.sid # sid /\ flight'[w].tab # u
    BY <1>2, <1>4, <2>2 DEF OnItsWay, NoFlight, Unoccupied
  <2>5. QED BY <1>2, <1>3, <2>1, <2>3, <2>4, StaysFine
<1>9. Fine(t)'
  <2> SUFFICES ASSUME tab[t].sid \notin shared
               PROVE  Alone(t)' /\ (tab[t].sid \notin over => Valid(t)')
    BY <1>2 DEF Fine
  <2>1. PICK sid : sid = tab[t].sid
    OBVIOUS
  <2>2. Alone(t)
    BY <1>2, UnsharedSession
  <2>3. Alone(t)'
    <3>1. \A v \in Servers : OnItsWay(v)' /\ flight'[v].tok.sid = sid =>
            (OnItsWay(v) /\ flight'[v] = flight[v]) \/ (flight'[v].tab = t /\ flight'[v].current)
      BY <1>3, <1>4 DEF OnItsWay
    <3>2. \A v \in Servers : handling'[v].at \in {"refresh", "logout"} /\ handling'[v].tok.sid = sid =>
            flight'[v].stage = "taken"
      <4>1. handling'[w].at \notin {"refresh", "logout"}
        BY <1>2 DEF Unoccupied
      <4>2. \A v \in Servers \ {w} : handling[v].at \in {"refresh", "logout"} /\ handling[v].tok.sid = sid =>
              flight[v].stage = "taken"
        BY <1>2, <2>1, UnsharedSession
      <4>3. QED BY <1>2, <1>3, <4>1, <4>2
    <3>3. QED BY <1>2, <2>1, <2>2, <3>1, <3>2, StaysAlone
  <2>4. ASSUME tab[t].sid \notin over PROVE Valid(t)'
    <3>1. Valid(t)
      BY <1>2, <2>4, UnsharedSession
    <3>2. Alive(sid) /\ session[sid].cur = tab[t].jti
      BY <1>5, <2>1, <3>1 DEF Valid
    <3>3. Alive(sid)' /\ session'[sid].cur = tab'[t].jti /\ tab'[t].sid = sid
      BY <1>2, <2>1, <3>2 DEF Alive
    <3>4. \A v \in Servers : Current(v)' /\ flight'[v].tab = t => flight'[v].stage = "sent"
      BY <1>3, <1>4, <1>5
    <3>5. QED BY <3>3, <3>4 DEF Valid
  <2>5. QED BY <2>3, <2>4
<1>10. QED BY <1>6, <1>7, <1>8, <1>9 DEF Behaves
LEMMA TakeBehaves ==
    ASSUME BehavedInv, NEW w \in Servers, Take(w)
    PROVE  Behaves'
<1>t. TabsInv /\ OneAwaited /\ NeverThrownOut
  BY DEF BehavedInv
<1>1. UNCHANGED <<session, tab, shared, over, thrown>>
  BY <1>t, TakeShape
<1>2. \A v \in Servers \ {w} : flight'[v] = flight[v] /\ handling'[v] = handling[v]
  BY <1>t, TakeShape
<1>3. /\ OnItsWay(w) /\ OnItsWay(w)' /\ (Current(w)' <=> Current(w))
      /\ flight'[w].tab = flight[w].tab /\ flight'[w].tok = flight[w].tok
      /\ flight[w].stage = "sent" /\ flight'[w].stage = "taken"
  BY <1>t, TakeShape
<1>4. OneAwaited'
  BY <1>t, <1>2, <1>3, StaysOne DEF Current, OnItsWay
<1>5. NeverThrownOut'
  BY <1>t, <1>1 DEF NeverThrownOut
<1>6. ASSUME NEW u \in Tabs PROVE Fine(u)'
  <2> SUFFICES ASSUME tab'[u] # NoToken, tab'[u].sid \notin shared' PROVE Fine(u)'
    BY DEF Fine
  <2>1. PICK sid : sid = tab[u].sid
    OBVIOUS
  <2>2. Alive(sid) => Alive(sid)' /\ session'[sid].cur = session[sid].cur
    BY <1>1 DEF Alive
  <2>3. QED BY <1>1, <1>2, <1>3, <2>1, <2>2, StaysFine
<1>7. QED BY <1>4, <1>5, <1>6 DEF Behaves

\* The refresh of an unshared session that has not ended is accepted.
LEMMA RotateBehaves ==
    ASSUME BehavedInv, SessionsInv', NEW w \in Servers, Rotate(w)
    PROVE  Behaves'
<1>t. TabsInv /\ TabsTypeOK /\ FlightsFit /\ SessionsInv /\ OneAwaited /\ NeverThrownOut
  BY DEF BehavedInv, TabsInv
<1>1. RefreshRotate(w) /\ UNCHANGED <<tab, home, shared, over, thrown>>
  BY DEF Rotate
<1>2. PICK tok : tok = handling[w].tok /\ tok \in Tokens /\ tok.sid \in Sids
  BY <1>t, <1>1, HoldsToken DEF RefreshRotate
<1>3. /\ handling[w].at = "refresh" /\ handling'[w].at = "idle"
      /\ \A v \in Servers \ {w} : handling'[v] = handling[v]
  BY <1>t, <1>1 DEF RefreshRotate, Unoccupied, SessionsInv, SessionsTypeOK
<1>4. \A v \in Servers \ {w} : flight'[v] = flight[v] /\ (Current(v)' <=> Current(v))
  BY <1>t DEF Rotate, TabsTypeOK, Current, OnItsWay
<1>5. \A s \in Sids \ {tok.sid} : session'[s] = session[s]
  <2>1. CASE Accepts(tok)
    BY <1>t, <1>1, <1>2, <2>1, RotateMakes
  <2>2. CASE ~Accepts(tok)
    BY <1>t, <1>1, <1>2, <2>2, RotateRefuses
  <2>3. QED BY <2>1, <2>2
\* The request may have been given up; otherwise it is granted or refused.
<1>6. \/ ~OnItsWay(w) /\ ~OnItsWay(w)' /\ ~Current(w)'
      \/ /\ flight[w].stage = "taken" /\ OnItsWay(w) /\ OnItsWay(w)' /\ (Current(w)' <=> Current(w))
         /\ flight'[w].tab = flight[w].tab /\ flight'[w].tok = flight[w].tok /\ flight[w].tok = tok
  <2>1. CASE flight[w].stage # "taken"
    <3>1. flight[w].stage \notin {"sent", "granted", "refused"}
      BY <1>t, <1>3 DEF FlightsFit, Fits
    <3>2. flight[w] = NoFlight
      BY <1>t, <2>1, <3>1 DEF TabsTypeOK, Flights
    <3>3. flight'[w] = NoFlight
      BY <1>t, <2>1, <3>2 DEF TabsTypeOK, Rotate
    <3>4. QED BY <3>2, <3>3, GoneFits DEF OnItsWay, NoFlight
  <2>2. CASE flight[w].stage = "taken"
    BY <1>t, <1>2, <2>2, RotateShape
  <2>3. QED BY <2>1, <2>2
<1>7. OneAwaited'
  BY <1>t, <1>4, <1>6, StaysOne
<1>8. NeverThrownOut'
  BY <1>t, <1>1 DEF NeverThrownOut
<1>9. ASSUME NEW u \in Tabs PROVE Fine(u)'
  <2> SUFFICES ASSUME tab'[u] # NoToken, tab'[u].sid \notin shared' PROVE Fine(u)'
    BY DEF Fine
  <2>1. PICK sid : sid = tab[u].sid
    OBVIOUS
  <2>2. /\ tab[u] # NoToken /\ sid \notin shared /\ tab'[u] = tab[u]
        /\ shared \subseteq shared' /\ over \subseteq over'
    BY <1>1, <2>1
  <2>3. sid \in Sids /\ Alone(u) /\ tab[u] \in Tokens
    BY <2>1, <2>2, UnsharedSession
  <2>4. CASE tok.sid # sid
    <3>1. Alive(sid) => Alive(sid)' /\ session'[sid].cur = session[sid].cur
      BY <1>5, <2>3, <2>4 DEF Alive
    <3>2. \A v \in Tabs : tab'[v] = tab[v]
      BY <1>1
    <3>3. flight'[w].tab = u => ~Current(w)'
      <4>1. ASSUME flight'[w].tab = u, Current(w)' PROVE FALSE
        <5>1. flight[w].tab = u /\ Current(w) /\ flight[w].tok = tok
          BY <1>6, <4>1
        <5>2. tok = tab[u]
          BY <1>t, <5>1, AwaitedFits
        <5>3. QED BY <2>1, <2>4, <5>2
      <4>2. QED BY <4>1
    <3>4. /\ OnItsWay(w) => flight[w].tok.sid # sid
          /\ handling'[w].at \in {"refresh", "logout"} => handling'[w].tok.sid # sid
          /\ OnItsWay(w)' => flight'[w].tok.sid # sid
      BY <1>3, <1>6, <2>4
    <3>5. QED BY <1>3, <1>4, <2>1, <2>2, <3>1, <3>2, <3>3, <3>4, StaysFine
  <2>5. CASE tok.sid = sid
    <3>1. /\ flight[w].stage = "taken" /\ Current(w) /\ flight[w].tab = u /\ flight[w].tok = tok
          /\ tok = tab[u]
      BY <1>2, <1>3, <2>1, <2>2, <2>5, UnsharedSession
    <3>2. /\ Current(w)' /\ OnItsWay(w)' /\ flight'[w].tab = u
      BY <1>6, <3>1 DEF OnItsWay, Current
    <3>3. Alone(u)'
      <4>1. \A v \in Servers : OnItsWay(v)' /\ flight'[v].tok.sid = sid =>
              (OnItsWay(v) /\ flight'[v] = flight[v]) \/ (flight'[v].tab = u /\ flight'[v].current)
        BY <1>4, <3>2 DEF OnItsWay, Current
      <4>2. \A v \in Servers : handling'[v].at \in {"refresh", "logout"} /\ handling'[v].tok.sid = sid =>
              flight'[v].stage = "taken"
        <5>1. \A v \in Servers \ {w} : handling[v].at \in {"refresh", "logout"} /\ handling[v].tok.sid = sid =>
                flight[v].stage = "taken"
          BY <2>1, <2>2, UnsharedSession
        <5>2. QED BY <1>3, <1>4, <5>1
      <4>3. \A v \in Tabs : tab'[v] = tab[v]
        BY <1>1
      <4>4. QED BY <2>1, <2>2, <2>3, <4>1, <4>2, <4>3, StaysAlone
    <3>4. ASSUME sid \notin over PROVE Valid(u)'
      <4>1. Valid(u)
        BY <2>1, <2>2, <3>4, UnsharedSession
      <4>2. Alive(sid) /\ session[sid].cur = tok.jti
        BY <2>1, <3>1, <4>1 DEF Valid
      <4>3. Accepts(tok)
        BY <2>5, <4>2 DEF Accepts
      <4>4. session'[sid].cur = Newest.jti /\ Alive(sid)'
        BY <1>t, <1>1, <1>2, <2>5, <4>3, RotateMakes
      <4>5. flight'[w].stage = "granted" /\ flight'[w].new = Newest
        BY <1>t, <3>1, <4>3, RotateShape
      <4>6. \A v \in Servers : Current(v)' /\ flight'[v].tab = u => v = w
        BY <1>t, <1>4, <3>1 DEF OneAwaited
      <4>7. \A v \in Servers : Current(v)' /\ flight'[v].tab = u =>
              /\ flight'[v].stage # "refused"
              /\ flight'[v].stage = "granted" => session'[sid].cur = flight'[v].new.jti
              /\ flight'[v].stage # "granted" => session'[sid].cur = tab'[u].jti
        BY <4>4, <4>5, <4>6
      <4>8. tab'[u].sid = sid
        BY <2>1, <2>2
      <4>9. QED BY <3>2, <4>4, <4>7, <4>8 DEF Valid
    <3>5. tab'[u].sid = sid /\ over' = over
      BY <1>1, <2>1
    <3>6. QED BY <3>3, <3>4, <3>5 DEF Fine
  <2>6. QED BY <2>4, <2>5
<1>10. QED BY <1>7, <1>8, <1>9 DEF Behaves

LEMMA RevokeBehaves ==
    ASSUME BehavedInv, NEW w \in Servers, Revoke(w)
    PROVE  Behaves'
<1>t. TabsInv /\ TabsTypeOK /\ SessionsInv /\ FlightsFit /\ OneAwaited /\ NeverThrownOut
  BY DEF BehavedInv, TabsInv
<1>1. /\ flight' = [flight EXCEPT ![w] = NoFlight] /\ UNCHANGED <<tab, shared, thrown>>
      /\ handling' = [handling EXCEPT ![w] = Unoccupied] /\ handling[w].at = "logout"
      /\ over \subseteq over'
  BY DEF Revoke, LogoutRevoke
<1>2. PICK tok : tok = handling[w].tok /\ session' = [session EXCEPT ![tok.sid] = NoSession]
  BY DEF Revoke, LogoutRevoke
<1>3. /\ flight'[w] = NoFlight /\ handling'[w].at \notin {"refresh", "logout"}
      /\ \A v \in Servers \ {w} : flight'[v] = flight[v] /\ handling'[v] = handling[v]
                                  /\ (Current(v)' <=> Current(v))
  BY <1>t, <1>1 DEF TabsTypeOK, SessionsInv, SessionsTypeOK, Unoccupied, Current, OnItsWay
<1>4. ~OnItsWay(w)' /\ ~Current(w)'
  BY <1>3, GoneFits
<1>5. OneAwaited'
  BY <1>t, <1>3, <1>4, StaysOne
<1>6. NeverThrownOut'
  BY <1>t, <1>1 DEF NeverThrownOut
<1>7. ASSUME NEW u \in Tabs PROVE Fine(u)'
  <2> SUFFICES ASSUME tab'[u] # NoToken, tab'[u].sid \notin shared' PROVE Fine(u)'
    BY DEF Fine
  <2>1. PICK sid : sid = tab[u].sid
    OBVIOUS
  <2>2. /\ tab[u] # NoToken /\ sid \notin shared /\ tab'[u] = tab[u]
    BY <1>1, <2>1
  <2>3. sid \in Sids
    BY <2>1, <2>2, UnsharedSession
  <2>4. tok.sid # sid
    BY <1>1, <1>2, <2>1, <2>2, UnsharedSession
  <2>5. Alive(sid) => Alive(sid)' /\ session'[sid].cur = session[sid].cur
    <3>1. session'[sid] = session[sid]
      BY <1>t, <1>2, <2>3, <2>4 DEF SessionsInv, SessionsTypeOK
    <3>2. QED BY <3>1 DEF Alive
  <2>6. OnItsWay(w) => flight[w].tok.sid # sid
    <3>1. OnItsWay(w) => flight[w].stage = "taken"
      BY <1>t, <1>1, FlightFields DEF FlightsFit, Fits
    <3>2. OnItsWay(w) => flight[w].tok = tok
      BY <1>t, <1>2, <3>1 DEF FlightsFit, Fits
    <3>3. QED BY <2>4, <3>2
  <2>7. \A v \in Tabs : tab'[v] = tab[v]
    BY <1>1
  <2>8. QED BY <1>1, <1>3, <1>4, <2>1, <2>2, <2>5, <2>6, <2>7, StaysFine
<1>8. QED BY <1>5, <1>6, <1>7 DEF Behaves

LEMMA TimeBehaves ==
    ASSUME BehavedInv, NEW s \in Sids, Grace(s) \/ Ends(s)
    PROVE  Behaves'
<1>t. TabsInv /\ TabsTypeOK /\ SessionsInv /\ OneAwaited /\ NeverThrownOut
  BY DEF BehavedInv, TabsInv
<1>1. /\ UNCHANGED <<tab, flight, shared, thrown, handling>>
      /\ over \subseteq over'
  BY DEF Grace, GraceOver, Ends, Expire, tabVars
<1>2. OneAwaited' /\ NeverThrownOut'
  BY <1>t, <1>1 DEF OneAwaited, Current, OnItsWay, NeverThrownOut
<1>3. ASSUME NEW sid \in Sids, sid \notin over', Alive(sid)
      PROVE  Alive(sid)' /\ session'[sid].cur = session[sid].cur
  <2>1. CASE Ends(s)
    <3>1. sid # s /\ session' = [session EXCEPT ![s] = NoSession]
      BY <1>3, <2>1 DEF Ends, Expire
    <3>2. session'[sid] = session[sid]
      BY <1>t, <3>1 DEF SessionsInv, SessionsTypeOK
    <3>3. QED BY <1>3, <3>2 DEF Alive
  <2>2. CASE Grace(s)
    <3>1. session' = [session EXCEPT ![s].fresh = FALSE]
      BY <2>2 DEF Grace, GraceOver
    <3>2. session[sid] \in Sessions /\ session[sid].cur \in 1..MaxJti
      BY <1>t, <1>3 DEF SessionsInv, SessionsTypeOK, Alive, Sessions
    <3>3. session'[sid].cur = session[sid].cur
      <4>1. CASE sid = s
        <5>1. session'[sid] = [session[sid] EXCEPT !.fresh = FALSE]
          BY <1>t, <3>1, <4>1 DEF SessionsInv, SessionsTypeOK
        <5>2. QED BY <3>2, <5>1 DEF Sessions
      <4>2. CASE sid # s
        BY <1>t, <3>1, <4>2 DEF SessionsInv, SessionsTypeOK
      <4>3. QED BY <4>1, <4>2
    <3>4. session'[sid] # NoSession
      BY <3>2, <3>3, AuthAssumption DEF NoSession
    <3>5. QED BY <3>3, <3>4 DEF Alive
  <2>3. QED BY <2>1, <2>2
<1>4. ASSUME NEW u \in Tabs PROVE Fine(u)'
  <2> SUFFICES ASSUME tab'[u] # NoToken, tab'[u].sid \notin shared' PROVE Fine(u)'
    BY DEF Fine
  <2>1. PICK sid : sid = tab[u].sid
    OBVIOUS
  <2>2. tab[u] # NoToken /\ sid \notin shared /\ tab'[u] = tab[u]
    BY <1>1, <2>1
  <2>3. sid \in Sids
    BY <2>1, <2>2, UnsharedSession
  <2>4. \A v \in Tabs : tab'[v] = tab[v]
    BY <1>1
  <2>5. QED BY <1>1, <1>3, <2>1, <2>2, <2>3, <2>4, StaysFine
<1>5. QED BY <1>2, <1>4 DEF Behaves

-----------------------------------------------------------------------------
(* Answers *)

\* A request that is not awaited makes no difference when it ends.
LEMMA DroppedBehaves ==
    ASSUME BehavedInv, NEW w \in Servers, ~Current(w),
           flight[w].stage # "taken" \/ handling[w].tok = flight[w].tok,
           flight' = [flight EXCEPT ![w] = NoFlight],
           UNCHANGED <<sessionVars, tab, shared, over, thrown>>
    PROVE  Behaves'
<1>t. TabsInv /\ TabsTypeOK /\ FlightsFit /\ OneAwaited /\ NeverThrownOut
  BY DEF BehavedInv, TabsInv
<1>1. UNCHANGED <<session, handling>>
  BY DEF sessionVars
<1>2. /\ flight'[w] = NoFlight
      /\ \A v \in Servers \ {w} : flight'[v] = flight[v] /\ (Current(v)' <=> Current(v))
  BY <1>t DEF TabsTypeOK, Current, OnItsWay
<1>3. ~OnItsWay(w)' /\ ~Current(w)'
  BY <1>2, GoneFits
<1>4. OneAwaited'
  BY <1>t, <1>2, <1>3, StaysOne
<1>5. NeverThrownOut'
  BY <1>t DEF NeverThrownOut
<1>6. ASSUME NEW u \in Tabs PROVE Fine(u)'
  <2> SUFFICES ASSUME tab'[u] # NoToken, tab'[u].sid \notin shared' PROVE Fine(u)'
    BY DEF Fine
  <2>1. PICK sid : sid = tab[u].sid
    OBVIOUS
  <2>2. tab[u] # NoToken /\ sid \notin shared
    BY <2>1
  <2>3. OnItsWay(w) => flight[w].tok.sid # sid
    BY <2>1, <2>2, UnsharedSession
  <2>4. handling'[w].at \in {"refresh", "logout"} => handling'[w].tok.sid # sid
    BY <1>1, <2>1, <2>2, UnsharedSession
  <2>5. Alive(sid) => Alive(sid)' /\ session'[sid].cur = session[sid].cur
    BY <1>1 DEF Alive
  <2>6. QED BY <1>1, <1>2, <1>3, <2>1, <2>2, <2>3, <2>4, <2>5, StaysFine
<1>7. QED BY <1>4, <1>5, <1>6 DEF Behaves

\* An answer that is awaited concerns its own tab only.
LEMMA AnsweredOthers ==
    ASSUME BehavedInv, NEW w \in Servers, NEW t \in Tabs, Current(w), flight[w].tab = t,
           flight' = [Moved(t) EXCEPT ![w] = NoFlight],
           NEW new, tab' = [tab EXCEPT ![t] = new], new = NoToken \/ new.sid = tab[t].sid,
           UNCHANGED <<sessionVars, shared, over>>
    PROVE  /\ OneAwaited' /\ \A u \in Tabs \ {t} : Fine(u)'
           /\ \A v \in Servers : ~(Current(v)' /\ flight'[v].tab = t)
<1>t. TabsInv /\ TabsTypeOK /\ OneAwaited
  BY DEF BehavedInv, TabsInv
<1>1. UNCHANGED <<session, handling>>
  BY DEF sessionVars
<1>2. /\ flight'[w] = NoFlight
      /\ \A v \in Servers \ {w} : flight'[v] = Moved(t)[v]
  BY <1>t, MovedType
<1>3. /\ tab'[t] = new
      /\ \A u \in Tabs \ {t} : tab'[u] = tab[u]
  BY <1>t DEF TabsTypeOK
<1>4. ~OnItsWay(w)' /\ ~Current(w)' /\ tab[t] # NoToken
  BY <1>t, <1>2, GoneFits, AwaitedFits
<1>5. OneAwaited'
  BY <1>t, <1>2, <1>4, OutdatedAwaits, StaysOne
<1>6. ASSUME NEW u \in Tabs \ {t} PROVE Fine(u)'
  <2> SUFFICES ASSUME tab'[u] # NoToken, tab'[u].sid \notin shared' PROVE Fine(u)'
    BY DEF Fine
  <2>1. tab'[u] = tab[u] /\ tab[u] # NoToken /\ tab[u].sid \notin shared'
    BY <1>3
  <2>2. tab[t].sid # tab[u].sid
    BY <1>4, <2>1, UnsharedSession
  <2>3. \A v \in Servers :
          \/ flight'[v] = Moved(t)[v]
          \/ /\ OnItsWay(v) => flight[v].tab = t
             /\ ~Current(v)'
             /\ OnItsWay(v)' => flight'[v].tok.sid # tab[u].sid
    BY <1>2, <1>4
  <2>4. QED BY <1>1, <1>3, <2>1, <2>2, <2>3, OthersStayFine
<1>7. \A v \in Servers : ~(Current(v)' /\ flight'[v].tab = t)
  BY <1>t, <1>2, <1>4, OutdatedAwaits
<1>8. QED BY <1>5, <1>6, <1>7

LEMMA GrantedBehaves ==
    ASSUME BehavedInv, NEW w \in Servers, Granted(w)
    PROVE  Behaves'
<1>t. TabsInv /\ TabsTypeOK /\ FlightsFit /\ OneAwaited /\ NeverThrownOut
  BY DEF BehavedInv, TabsInv
<1>1. /\ flight[w].stage = "granted" /\ OnItsWay(w)
      /\ UNCHANGED <<sessionVars, shared, over, thrown>>
  BY DEF Granted, OnItsWay
<1>2. NeverThrownOut'
  BY <1>t, <1>1 DEF NeverThrownOut
<1>3. CASE Current(w)
  <2>1. PICK t \in Tabs : t = flight[w].tab
    BY <1>t, <1>3, AwaitedFits
  <2>2. PICK new : new = flight[w].new
    OBVIOUS
  <2>3. /\ tab' = [tab EXCEPT ![t] = new]
        /\ flight' = [Moved(t) EXCEPT ![w] = NoFlight]
    BY <1>3, <2>1, <2>2 DEF Granted, StillAwaited, Current
  <2>4. new.sid = tab[t].sid /\ tab[t] # NoToken
    BY <1>t, <1>1, <1>3, <2>1, <2>2, AwaitedFits DEF FlightsFit, Fits
  <2>5. /\ OneAwaited' /\ \A u \in Tabs \ {t} : Fine(u)'
        /\ \A v \in Servers : ~(Current(v)' /\ flight'[v].tab = t)
    BY <1>1, <1>3, <2>1, <2>3, <2>4, AnsweredOthers
  <2>6. Fine(t)'
    <3> SUFFICES ASSUME tab'[t].sid \notin shared'
                 PROVE  Alone(t)' /\ (tab'[t].sid \notin over' => Valid(t)')
      BY DEF Fine
    <3>1. PICK sid : sid = tab[t].sid
      OBVIOUS
    <3>2. /\ tab'[t] = new /\ tab'[t].sid = sid /\ sid \notin shared
          /\ \A u \in Tabs \ {t} : tab'[u] = tab[u]
      BY <1>t, <1>1, <2>3, <2>4, <3>1 DEF TabsTypeOK
    <3>3. \A u \in Tabs : tab'[u] # NoToken /\ tab'[u].sid = sid => u = t
      BY <2>4, <3>1, <3>2, UnsharedSession
    <3>4. /\ flight'[w] = NoFlight
          /\ \A v \in Servers \ {w} : flight'[v] = Moved(t)[v]
      BY <1>t, <2>3, MovedType
    <3>5. ASSUME NEW v \in Servers, OnItsWay(v)' PROVE flight'[v].tok.sid # sid
      <4>1. ASSUME flight'[v].tok.sid = sid PROVE FALSE
        <5>1. v # w /\ flight'[v] = Moved(t)[v]
          BY <3>4, <3>5, GoneFits
        <5>2. OnItsWay(v) /\ flight[v].tok.sid = sid
          BY <1>t, <3>5, <4>1, <5>1, OutdatedAwaits
        <5>3. flight[v].tab = t /\ Current(v)
          BY <2>4, <3>1, <3>2, <5>2, UnsharedSession
        <5>4. QED BY <1>t, <1>3, <2>1, <5>1, <5>3 DEF OneAwaited
      <4>2. QED BY <4>1
    <3>6. ASSUME NEW v \in Servers, handling'[v].at \in {"refresh", "logout"}, handling'[v].tok.sid = sid
          PROVE  FALSE
      <4>1. handling'[v] = handling[v]
        BY <1>1 DEF sessionVars
      <4>2. flight[v].stage = "taken" /\ Current(v) /\ flight[v].tab = t
        BY <2>4, <3>1, <3>2, <3>6, <4>1, UnsharedSession
      <4>3. v = w
        BY <1>t, <1>3, <2>1, <4>2 DEF OneAwaited
      <4>4. QED BY <1>1, <4>2, <4>3
    <3>7. Alone(t)'
      BY <3>2, <3>3, <3>5, <3>6 DEF Alone
    <3>8. ASSUME sid \notin over PROVE Valid(t)'
      <4>1. Valid(t)
        BY <2>4, <3>1, <3>2, <3>8, UnsharedSession
      <4>2. Alive(sid) /\ session[sid].cur = new.jti
        BY <1>1, <1>3, <2>1, <2>2, <3>1, <4>1 DEF Valid
      <4>3. Alive(sid)' /\ session'[sid].cur = tab'[t].jti
        BY <1>1, <3>2, <4>2 DEF Alive, sessionVars
      <4>4. QED BY <2>5, <3>2, <4>3 DEF Valid
    <3>9. QED BY <1>1, <3>2, <3>7, <3>8
  <2>7. QED BY <1>2, <2>5, <2>6 DEF Behaves
<1>4. CASE ~Current(w)
  <2>1. flight' = [flight EXCEPT ![w] = NoFlight] /\ UNCHANGED tab
    BY <1>1, <1>4 DEF Granted, StillAwaited, Current
  <2>2. QED BY <1>1, <1>4, <2>1, DroppedBehaves
<1>5. QED BY <1>3, <1>4

\* A refusal that is awaited is of a session shared or ended.
LEMMA RefusedBehaves ==
    ASSUME BehavedInv, NEW w \in Servers, Refused(w)
    PROVE  Behaves'
<1>t. TabsInv /\ TabsTypeOK /\ FlightsFit /\ OneAwaited /\ NeverThrownOut
  BY DEF BehavedInv, TabsInv
<1>1. /\ flight[w].stage = "refused" /\ OnItsWay(w)
      /\ UNCHANGED <<sessionVars, shared, over>>
  BY DEF Refused, OnItsWay
<1>2. CASE Current(w)
  <2>1. PICK t \in Tabs : t = flight[w].tab
    BY <1>t, <1>2, AwaitedFits
  <2>2. /\ tab' = [tab EXCEPT ![t] = NoToken] /\ flight' = [Moved(t) EXCEPT ![w] = NoFlight]
        /\ thrown' = IF flight[w].tok.sid \in over THEN thrown ELSE thrown \cup {flight[w].tok.sid}
    BY <1>2, <2>1 DEF Refused, Clear, Current
  <2>3. OneAwaited' /\ \A u \in Tabs \ {t} : Fine(u)'
    BY <1>1, <1>2, <2>1, <2>2, AnsweredOthers
  <2>4. Fine(t)'
    BY <1>t, <2>2 DEF Fine, TabsTypeOK
  <2>5. flight[w].tok = tab[t] /\ tab[t] # NoToken
    BY <1>t, <1>2, <2>1, AwaitedFits
  <2>6. tab[t].sid \in shared \cup over
    <3>1. ASSUME tab[t].sid \notin shared \cup over PROVE FALSE
      <4>1. Valid(t)
        BY <2>5, <3>1, UnsharedSession
      <4>2. QED BY <1>1, <1>2, <2>1, <4>1 DEF Valid
    <3>2. QED BY <3>1
  <2>7. NeverThrownOut'
    BY <1>t, <1>1, <2>2, <2>5, <2>6 DEF NeverThrownOut
  <2>8. QED BY <2>3, <2>4, <2>7 DEF Behaves
<1>3. CASE ~Current(w)
  <2>1. flight' = [flight EXCEPT ![w] = NoFlight] /\ UNCHANGED <<tab, thrown>>
    BY <1>1, <1>3 DEF Refused, Current
  <2>2. QED BY <1>1, <1>3, <2>1, DroppedBehaves
<1>4. QED BY <1>2, <1>3

LEMMA LostBehaves ==
    ASSUME BehavedInv, ~(Mobile /\ Loses), NEW w \in Servers, Lost(w)
    PROVE  Behaves'
<1>t. TabsInv /\ TabsTypeOK /\ FlightsFit /\ OneAwaited /\ NeverThrownOut
  BY DEF BehavedInv, TabsInv
<1>1. OnItsWay(w) /\ ~Mobile /\ UNCHANGED <<sessionVars, shared, over, thrown>>
  BY DEF Lost, OnItsWay
<1>2. CASE Current(w)
  <2>1. PICK t \in Tabs : t = flight[w].tab
    BY <1>t, <1>2, AwaitedFits
  <2>2. tab' = [tab EXCEPT ![t] = NoToken] /\ flight' = [Moved(t) EXCEPT ![w] = NoFlight]
    BY <1>1, <1>2, <2>1 DEF Lost, Clear, Current
  <2>3. OneAwaited' /\ \A u \in Tabs \ {t} : Fine(u)'
    BY <1>1, <1>2, <2>1, <2>2, AnsweredOthers
  <2>4. Fine(t)'
    BY <1>t, <2>2 DEF Fine, TabsTypeOK
  <2>5. NeverThrownOut'
    BY <1>t, <1>1 DEF NeverThrownOut
  <2>6. QED BY <2>3, <2>4, <2>5 DEF Behaves
<1>3. CASE ~Current(w)
  <2>1. flight' = [flight EXCEPT ![w] = NoFlight] /\ UNCHANGED tab
    BY <1>1, <1>3 DEF Lost, Current
  <2>2. flight[w].stage # "taken" \/ handling[w].tok = flight[w].tok
    BY <1>t DEF FlightsFit, Fits
  <2>3. QED BY <1>1, <1>3, <2>1, <2>2, DroppedBehaves
<1>4. QED BY <1>2, <1>3

LEMMA BehavedInitInv == TabsInit => BehavedInv
<1> SUFFICES ASSUME TabsInit PROVE Behaves
  BY TabsInitInv, BehavesIs
<1>1. OneAwaited
  BY DEF TabsInit, OneAwaited, Current, OnItsWay, NoFlight
<1>2. NeverThrownOut /\ \A u \in Tabs : Fine(u)
  BY DEF TabsInit, NeverThrownOut, Fine
<1>3. QED BY <1>1, <1>2 DEF Behaves

LEMMA BehavedNextInv ==
    ASSUME ~(Mobile /\ Loses)
    PROVE  BehavedInv /\ [TabsNext]_allVars => BehavedInv'
<1> SUFFICES ASSUME BehavedInv, [TabsNext]_allVars PROVE Behaves'
  <2>1. BehavedInv' <=> TabsInv' /\ Behaves'
    BY DEF BehavedInv, Behaves, UnsharedIsValid, Fine
  <2>2. QED BY <2>1, BehavesIs, TabsNextInv
<1>s. SessionsInv' /\ OneAwaited /\ NeverThrownOut /\ UnsharedIsValid
  BY TabsNextInv DEF BehavedInv, TabsInv
<1>1. ASSUME NEW t \in Tabs, TabNext(t)
      PROVE  Behaves'
  BY <1>s, <1>1, SignInBehaves, SignOutBehaves, SendRefreshBehaves, DuplicateBehaves DEF TabNext
<1>2. ASSUME NEW w \in Servers, FlightNext(w)
      PROVE  Behaves'
  BY <1>s, <1>2, TakeBehaves, RotateBehaves, RevokeBehaves, GrantedBehaves, RefusedBehaves, LostBehaves
  DEF FlightNext
<1>3. ASSUME NEW sid \in Sids, Grace(sid) \/ Ends(sid)
      PROVE  Behaves'
  BY <1>3, TimeBehaves
<1>4. CASE UNCHANGED allVars
  <2>1. UNCHANGED <<session, handling, tab, flight, home, shared, over, thrown>>
    BY <1>4 DEF allVars, tabVars, sessionVars
  <2>2. OneAwaited' /\ NeverThrownOut'
    BY <1>s, <2>1 DEF OneAwaited, Current, OnItsWay, NeverThrownOut
  <2>3. \A u \in Tabs : Fine(u)'
    BY <1>s, <2>1 DEF UnsharedIsValid, Fine, Alone, Valid, Alive, Current, OnItsWay
  <2>4. QED BY <2>2, <2>3 DEF Behaves
<1>5. QED BY <1>1, <1>2, <1>3, <1>4 DEF TabsNext

\* A tab that shares its session with no other, has not signed out and whose
\* session has not expired is not signed out by a refused refresh: for every
\* number of tabs, requests and sessions of the web app, and for the mobile app
\* while no answer is lost.
THEOREM BehavedTabsStaySignedIn ==
    ASSUME ~(Mobile /\ Loses)
    PROVE  TabsSpec => []NeverThrownOut
<1>1. BehavedInv => NeverThrownOut
  BY DEF BehavedInv
<1>2. QED BY <1>1, BehavedInitInv, BehavedNextInv, PTL DEF TabsSpec
=============================================================================
