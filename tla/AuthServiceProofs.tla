------------------------- MODULE AuthServiceProofs -------------------------
(***************************************************************************)
(* AuthService for every number of requests, tokens and names, every       *)
(* lifetime and every clock.  IInv is inductive; it adds to the properties *)
(* the one fact they do not state, that a live session has been issued.    *)
(***************************************************************************)
EXTENDS AuthService, TLAPS

LiveIssued == \A t \in Tokens : Live(t) => t \in issued

IInv == TypeOK /\ LiveIssued /\ SingleAdmin /\ OldSessionsExplained

-----------------------------------------------------------------------------
\* DateTime truncation goes back, and less than a second.
LEMMA TruncatedBounds ==
  ASSUME NEW t \in Int
  PROVE  Truncated(t) \in Int /\ Truncated(t) <= t
BY AuthAssumption DEF Truncated

\* It does not go back before the epoch.
LEMMA TruncatedTime ==
  ASSUME NEW t \in Time
  PROVE  Truncated(t) \in Time
BY AuthAssumption, SMTT(30) DEF Truncated, Time

-----------------------------------------------------------------------------
\* A free slot is a request record.
LEMMA IdleIsRequest == Idle \in Request
BY AuthAssumption DEF Idle, Request, Places, Time, Version

\* The invariant holds of the empty database.
LEMMA InitIInv == Init => IInv
<1> SUFFICES ASSUME Init PROVE IInv
  OBVIOUS
<1> USE AuthAssumption DEF Init
<1>1. TypeOK
  <2>1. Idle \in Request
    BY IdleIsRequest
  <2>2. 0 \in Version /\ 0 \in Time
    BY DEF Version, Time
  <2> QED
    BY <2>1, <2>2 DEF TypeOK
<1>2. LiveIssued /\ OldSessionsExplained
  BY DEF LiveIssued, OldSessionsExplained, Live
<1>3. SingleAdmin
  BY DEF SingleAdmin, Admins
<1> QED
  BY <1>1, <1>2, <1>3 DEF IInv

-----------------------------------------------------------------------------
\* Every step keeps the types: what is written to a row is a truncated clock
\* and two password versions.
LEMMA TypeStep == TypeOK /\ [Next]_vars => TypeOK'
<1> SUFFICES ASSUME TypeOK, [Next]_vars PROVE TypeOK'
  OBVIOUS
<1> USE DEF TypeOK
<1>1. CASE UNCHANGED vars
  BY <1>1 DEF vars, database
<1>2. ASSUME NEW n \in Names, Setup(n) PROVE TypeOK'
  BY <1>2 DEF Setup, CreateUserIfEmpty
<1>3. ASSUME NEW t \in Tokens, Logout(t) PROVE TypeOK'
  BY <1>3 DEF Logout
<1>4. CASE Restart
  <2>1. req' \in [Requests -> Request]
    BY <1>4, AuthAssumption DEF Restart, Request, Idle, Places, Time, Version
  <2>2. sessions' \in [Tokens -> Session \cup {NoSession}]
    BY <1>4 DEF Restart
  <2>3. cut' \in BOOLEAN
    BY <1>4 DEF Restart
  <2> QED
    BY <1>4, <2>1, <2>2, <2>3 DEF Restart
<1>5. CASE Tick
  BY <1>5, AuthAssumption DEF Tick, database, Time
<1>6. ASSUME NEW w \in Requests, Handler(w) PROVE TypeOK'
  <2> Truncated(now) \in Time
    BY TruncatedTime
  <2> Idle \in Request
    BY IdleIsRequest
  <2>1. CASE LoginVerifies(w)
    <3>1. PICK m \in Admins :
            req' = [req EXCEPT ![w].at = "insert", ![w].by = users[m], ![w].stamp = now]
      BY <2>1 DEF LoginVerifies
    <3>2. users[m] \in Version
      BY <3>1 DEF Admins
    <3> QED
      BY <2>1, <3>1, <3>2 DEF LoginVerifies, database, Request, Places
  <2>2. CASE CreateSession(w)
    <3>1. req[w].by \in Version
      BY DEF Request
    <3>2. \A s \in req[w].stamp .. now : Truncated(s) \in Time
      BY TruncatedTime, AuthAssumption DEF Request, Time
    <3> QED
      BY <2>2, <3>1, <3>2 DEF CreateSession, End, Session
  <2>3. ASSUME NEW t \in Tokens, ReadSession(w, t) PROVE TypeOK'
    BY <2>3 DEF ReadSession, database, Request, Places
  <2>4. CASE DeleteExpired(w)
    BY <2>4 DEF DeleteExpired, End
  <2>5. CASE Renew(w)
    <3>1. sessions' \in [Tokens -> Session \cup {NoSession}]
      BY <2>5 DEF Renew, Live, Session, Request
    <3>2. req' \in [Requests -> Request]
      BY <2>5 DEF Renew, Request, Idle, Places
    <3> QED
      BY <2>5, <3>1, <3>2 DEF Renew
  <2>6. CASE ServeOther(w)
    BY <2>6 DEF ServeOther, End, database
  <2>7. CASE ChangeVerifies(w)
    <3>1. PICK m \in Admins : req' = [req EXCEPT ![w].at = "update", ![w].by = users[m]]
      BY <2>7 DEF ChangeVerifies
    <3>2. users[m] \in Version
      BY <3>1 DEF Admins
    <3> QED
      BY <2>7, <3>1, <3>2 DEF ChangeVerifies, database, Request, Places
  <2>8. CASE UpdatePassword(w)
    <3>1. changes' \in Version /\ changes + 1 \in Version
      BY <2>8, AuthAssumption DEF UpdatePassword, Version
    <3>2. req' \in [Requests -> Request]
      BY <2>8 DEF UpdatePassword, Goto, Request, Places
    <3> QED
      BY <2>8, <3>1, <3>2 DEF UpdatePassword, Admins
  <2>9. CASE RevokeAll(w)
    BY <2>9 DEF RevokeAll, Goto, Request, Places
  <2>10. CASE SkipChange(w)
    BY <2>10 DEF SkipChange, Goto, database, Request, Places
  <2>11. CASE SetSetting(w)
    BY <2>11 DEF SetSetting, End
  <2>12. CASE Abandon(w)
    BY <2>12 DEF Abandon, End, database, At
  <2> QED
    BY <1>6, <2>1, <2>2, <2>3, <2>4, <2>5, <2>6, <2>7, <2>8, <2>9, <2>10, <2>11,
       <2>12 DEF Handler
<1> QED
  BY <1>1, <1>2, <1>3, <1>4, <1>5, <1>6 DEF Next
-----------------------------------------------------------------------------
\* Only create_session makes a session live, and it issues its token.
LEMMA LiveIssuedStep == TypeOK /\ LiveIssued /\ [Next]_vars => LiveIssued'
<1> SUFFICES ASSUME TypeOK, LiveIssued, [Next]_vars PROVE LiveIssued'
  OBVIOUS
<1> USE DEF LiveIssued, Live
<1>1. CASE sessions' = sessions /\ issued' = issued
  BY <1>1
<1>2. ASSUME NEW w \in Requests, CreateSession(w) PROVE LiveIssued'
  BY <1>2 DEF CreateSession, TypeOK
<1>3. ASSUME NEW w \in Requests, Renew(w) PROVE LiveIssued'
  BY <1>3 DEF Renew, TypeOK
<1>4. ASSUME issued' = issued,
             \A t \in Tokens : sessions'[t] \in {sessions[t], NoSession}
      PROVE  LiveIssued'
  BY <1>4
<1>5. ASSUME NEW t \in Tokens, Logout(t) PROVE LiveIssued'
  BY <1>4, <1>5 DEF Logout, TypeOK
<1>6. ASSUME NEW w \in Requests, DeleteExpired(w) \/ RevokeAll(w) PROVE LiveIssued'
  BY <1>4, <1>6 DEF DeleteExpired, RevokeAll, TypeOK
<1>7. CASE Restart
  BY <1>4, <1>7 DEF Restart
<1> QED
  BY <1>1, <1>2, <1>3, <1>5, <1>6, <1>7
  DEF Next, Handler, vars, database, Setup, LoginVerifies, ReadSession, ServeOther,
      ChangeVerifies, UpdatePassword, SkipChange, SetSetting, Abandon, Tick

-----------------------------------------------------------------------------
\* The table of administrators changes only by the guarded INSERT and by an
\* UPDATE of the name that is there.
LEMMA SingleAdminStep == TypeOK /\ SingleAdmin /\ [Next]_vars => SingleAdmin'
<1> SUFFICES ASSUME TypeOK, SingleAdmin, [Next]_vars PROVE SingleAdmin'
  OBVIOUS
<1> USE DEF SingleAdmin, Admins
<1>1. CASE users' = users /\ changes' = changes
  BY <1>1
<1>2. ASSUME NEW n \in Names, Setup(n) PROVE SingleAdmin'
  BY <1>2 DEF Setup, CreateUserIfEmpty, TypeOK
<1>3. ASSUME NEW w \in Requests, UpdatePassword(w) PROVE SingleAdmin'
  BY <1>3 DEF UpdatePassword, TypeOK
<1> QED
  BY <1>1, <1>2, <1>3
  DEF Next, Handler, vars, database, LoginVerifies, CreateSession, Logout, ReadSession,
      DeleteExpired, Renew, ServeOther, ChangeVerifies, RevokeAll, SkipChange,
      SetSetting, Abandon, Restart, Tick
-----------------------------------------------------------------------------
\* The argument for OldSessionsExplained: update_password makes sessions old
\* and puts its request at "revoke" in the same step, and a request leaves
\* "revoke" only by ending all sessions or by leaving `cut` behind.
Revoking == \E w \in Requests : At(w, "revoke")

\* What every other step does to the three facts the invariant relates.
Keeps ==
  /\ changes' = changes
  /\ \A t \in Tokens : Live(t)' =>
       Live(t) /\ sessions[t].by = sessions'[t].by /\ sessions[t].made = sessions'[t].made
  /\ Revoking => Revoking'
  /\ cut' = cut

\* A step that adds no row, changes no password and loses no revocation keeps
\* the old sessions explained.
LEMMA KeepsOldSessions == OldSessionsExplained /\ Keeps => OldSessionsExplained'
BY DEF OldSessionsExplained, Keeps, Revoking

\* So does every other step: a login records both passwords, and a change is
\* followed by its delete_all_sessions or recorded as cut.
LEMMA OldSessionsStep ==
  TypeOK /\ OldSessionsExplained /\ [Next]_vars => OldSessionsExplained'
<1> SUFFICES ASSUME TypeOK, OldSessionsExplained, [Next]_vars
             PROVE  OldSessionsExplained'
  OBVIOUS
<1>1. CASE UNCHANGED <<sessions, changes, req, cut>>
  BY <1>1 DEF OldSessionsExplained, Live, At
<1>2. ASSUME NEW t \in Tokens, Logout(t) PROVE Keeps
  BY <1>2 DEF Logout, Keeps, Revoking, At, Live, TypeOK
<1>3. CASE Restart
  <2>1. (~\E w \in Requests : At(w, "revoke")) \/ cut'
    BY <1>3 DEF Restart
  <2>2. \A t \in Tokens : sessions'[t] \in {sessions[t], NoSession}
    BY <1>3 DEF Restart
  <2>3. changes' = changes /\ (cut => cut')
    BY <1>3 DEF Restart
  <2> QED
    BY <2>1, <2>2, <2>3 DEF OldSessionsExplained, Live
<1>4. ASSUME NEW w \in Requests, Handler(w) PROVE OldSessionsExplained'
  <2>1. CASE LoginVerifies(w)
    BY <2>1, KeepsOldSessions
    DEF LoginVerifies, Keeps, Revoking, At, Live, TypeOK, database
  <2>2. CASE CreateSession(w)
    <3>1. PICK u \in Tokens, s \in req[w].stamp .. now :
            sessions' = [sessions EXCEPT ![u] =
              [last |-> Truncated(s), by |-> req[w].by, made |-> changes]]
      BY <2>2 DEF CreateSession
    <3>2. changes' = changes /\ cut' = cut
      BY <2>2 DEF CreateSession
    <3>3. Revoking => Revoking'
      BY <2>2 DEF CreateSession, Revoking, At, End, TypeOK
    <3>4. \A t \in Tokens \ {u} : sessions'[t] = sessions[t]
      BY <3>1 DEF TypeOK
    <3>5. sessions'[u].made = changes
      BY <3>1 DEF TypeOK
    <3> QED
      BY <3>2, <3>3, <3>4, <3>5 DEF OldSessionsExplained, Revoking, Live
  <2>3. ASSUME NEW t \in Tokens, ReadSession(w, t) PROVE OldSessionsExplained'
    BY <2>3, KeepsOldSessions DEF ReadSession, Keeps, Revoking, At, Live, TypeOK, database
  <2>4. CASE DeleteExpired(w)
    BY <2>4, KeepsOldSessions DEF DeleteExpired, Keeps, Revoking, At, Live, TypeOK, End
  <2>5. CASE Renew(w)
    <3>1. Revoking => Revoking'
      BY <2>5 DEF Renew, Revoking, At, TypeOK
    <3>2. \A t \in Tokens : Live(t)' =>
            Live(t) /\ sessions[t].by = sessions'[t].by /\ sessions[t].made = sessions'[t].made
      BY <2>5 DEF Renew, Live, TypeOK, Session
    <3> QED
      BY <2>5, <3>1, <3>2, KeepsOldSessions DEF Renew, Keeps
  <2>6. CASE ServeOther(w) \/ SkipChange(w) \/ SetSetting(w) \/ ChangeVerifies(w)
    <3>1. Revoking => Revoking'
      BY <2>6
      DEF ServeOther, SkipChange, SetSetting, ChangeVerifies, Revoking, At, End, Goto, TypeOK
    <3> QED
      BY <2>6, <3>1, KeepsOldSessions
      DEF ServeOther, SkipChange, SetSetting, ChangeVerifies, Keeps, Live, database
  <2>7. CASE UpdatePassword(w)
    <3>1. At(w, "revoke")'
      BY <2>7 DEF UpdatePassword, At, Goto, TypeOK
    <3> QED
      BY <3>1 DEF OldSessionsExplained
  <2>8. CASE RevokeAll(w)
    BY <2>8 DEF RevokeAll, OldSessionsExplained, Live
  <2>9. CASE Abandon(w)
    <3>1. sessions' = sessions /\ changes' = changes
      BY <2>9 DEF Abandon, database
    <3>2. CASE At(w, "revoke") \/ cut
      BY <2>9, <3>2 DEF Abandon, OldSessionsExplained
    <3>3. CASE ~At(w, "revoke") /\ ~cut
      <4>1. Revoking => Revoking'
        BY <2>9, <3>3 DEF Abandon, Revoking, At, End, TypeOK
      <4> QED
        BY <3>1, <3>3, <4>1 DEF OldSessionsExplained, Revoking, Live
    <3> QED
      BY <3>2, <3>3
  <2> QED
    BY <1>4, <2>1, <2>2, <2>3, <2>4, <2>5, <2>6, <2>7, <2>8, <2>9 DEF Handler
<1> QED
  BY <1>1, <1>2, <1>3, <1>4, KeepsOldSessions DEF Next, Setup, Tick, vars, database

-----------------------------------------------------------------------------
\* The state invariants of AuthService hold of every behaviour.
THEOREM Invariant == Spec => []IInv
<1>1. IInv /\ [Next]_vars => IInv'
  BY TypeStep, LiveIssuedStep, SingleAdminStep, OldSessionsStep DEF IInv
<1> QED
  BY InitIInv, <1>1, PTL DEF Spec

\* Every row, request and counter keeps its type (AuthService!TypeOK).
THEOREM TypeCorrect == Spec => []TypeOK
<1>1. IInv => TypeOK
  BY DEF IInv
<1> QED
  BY <1>1, Invariant, PTL

\* However many setups race, one administrator exists and has the password of
\* the last change (db.rs create_user_if_empty, update_password).
THEOREM OneAdmin == Spec => []SingleAdmin
<1>1. IInv => SingleAdmin
  BY DEF IInv
<1> QED
  BY <1>1, Invariant, PTL

\* A session outlives a password change only by the login race or a change
\* that was cut short (routes/config.rs update_config).
THEOREM OldSessionsAreExplained == Spec => []OldSessionsExplained
<1>1. IInv => OldSessionsExplained
  BY DEF IInv
<1> QED
  BY <1>1, Invariant, PTL

-----------------------------------------------------------------------------
\* A step of the server is a step of SessionLifecycle or leaves it alone: the
\* insert issues one unissued token, and every other change of the table only
\* ends sessions.
LEMMA EndsSome ==
  ASSUME issued' = issued,
         LiveIssued,
         \A t \in Tokens : Live(t)' => Live(t)
  PROVE  Lifecycle!Next \/ UNCHANGED Life
<1> DEFINE T == {t \in Tokens : Live(t) /\ ~Live(t)'}
<1>1. Lifecycle!End(T)
  BY DEF Lifecycle!End, Life, LiveIssued
<1> QED
  BY <1>1 DEF Lifecycle!Next

\* Every step of AuthService is one of SessionLifecycle or a stutter.
LEMMA LifecycleStep == TypeOK /\ LiveIssued /\ [Next]_vars => [Lifecycle!Next]_Life
<1> SUFFICES ASSUME TypeOK, LiveIssued, [Next]_vars
             PROVE  Lifecycle!Next \/ UNCHANGED Life
  OBVIOUS
<1>1. CASE sessions' = sessions /\ issued' = issued
  BY <1>1 DEF Life, Live
<1>2. ASSUME NEW w \in Requests, CreateSession(w) PROVE Lifecycle!Next
  <2>1. PICK t \in Tokens \ issued, s \in req[w].stamp .. now :
          /\ sessions' = [sessions EXCEPT ![t] =
               [last |-> Truncated(s), by |-> req[w].by, made |-> changes]]
          /\ issued' = issued \cup {t}
    BY <1>2 DEF CreateSession
  <2>2. Truncated(s) # -1
    <3>1. s \in Time
      BY AuthAssumption DEF TypeOK, Request, Time
    <3> QED
      BY <3>1, TruncatedTime DEF Time
  <2>3. Live(t)' /\ \A u \in Tokens \ {t} : Live(u)' <=> Live(u)
    BY <2>1, <2>2 DEF Live, NoSession, TypeOK
  <2>4. Life[t] = "unissued"
    BY <2>1 DEF Life, LiveIssued
  <2>5. Life' = [Life EXCEPT ![t] = "live"]
    BY <2>1, <2>3 DEF Life
  <2> QED
    BY <2>1, <2>4, <2>5 DEF Lifecycle!Next, Lifecycle!Issue
<1>3. ASSUME NEW w \in Requests, Renew(w) PROVE \A t \in Tokens : Live(t)' => Live(t)
  BY <1>3 DEF Renew, Live, TypeOK
<1>4. ASSUME NEW w \in Requests, DeleteExpired(w) \/ RevokeAll(w)
      PROVE  \A t \in Tokens : Live(t)' => Live(t)
  BY <1>4 DEF DeleteExpired, RevokeAll, Live, TypeOK
<1>5. ASSUME NEW t \in Tokens, Logout(t) PROVE \A u \in Tokens : Live(u)' => Live(u)
  BY <1>5 DEF Logout, Live, TypeOK
<1>6. CASE Restart
  <2>1. \A t \in Tokens : Live(t)' => Live(t)
    BY <1>6 DEF Restart, Live
  <2> QED
    BY <1>6, <2>1, EndsSome DEF Restart
<1> QED
  BY <1>1, <1>2, <1>3, <1>4, <1>5, <1>6, EndsSome
  DEF Next, Handler, vars, database, Setup, Logout, LoginVerifies, ReadSession, ServeOther,
      ChangeVerifies, UpdatePassword, SkipChange, SetSetting, Abandon, Tick, DeleteExpired,
      RevokeAll, Renew

\* AuthService implements SessionLifecycle: no interleaving of renewals,
\* logouts, expiries, changes and restarts brings a session back.
THEOREM EndedSessionsStayEnded == Spec => SessionsEndOnce
<1>1. Init => Lifecycle!Init
  BY DEF Init, Lifecycle!Init, Life, Live
<1>2. IInv /\ [Next]_vars => [Lifecycle!Next]_Life
  BY LifecycleStep DEF IInv
<1> QED
  BY <1>1, <1>2, Invariant, PTL DEF Spec, SessionsEndOnce, Lifecycle!Spec

-----------------------------------------------------------------------------
\* db.rs delete_expired_sessions compares whole seconds, validate_session does
\* not; rounding down the cutoff can only spare a session.
LEMMA CleanupStep == TypeOK /\ Restart =>
  \A t \in Tokens : Live(t) /\ ~Live(t)' => Expired(sessions[t].last)
<1> SUFFICES ASSUME TypeOK, Restart, NEW t \in Tokens, Live(t), ~Live(t)'
             PROVE  Expired(sessions[t].last)
  OBVIOUS
<1> DEFINE last == sessions[t].last
<1>1. last \in Nat /\ now \in Nat
  BY DEF TypeOK, Live, Session, Time
<1>2. ~StartupKeeps(last)
  BY DEF Restart, Live
<1>3. TTL > 0 /\ ~(last >= Truncated(now - TTL))
  BY <1>2 DEF StartupKeeps
<1>4. Truncated(now - TTL) \in Int /\ Truncated(now - TTL) <= now - TTL
  BY <1>1, AuthAssumption, TruncatedBounds
<1>5. last < now - TTL
  BY <1>1, <1>3, <1>4, AuthAssumption
<1> QED
  BY <1>1, <1>3, <1>5, AuthAssumption DEF Expired

\* AuthService!StartupSparesValid: delete_expired_sessions never removes a
\* session that validate_session would accept.
THEOREM CleanupSparesValid == Spec => StartupSparesValid
<1>1. IInv /\ [Next]_vars =>
        [Restart => \A t \in Tokens : Live(t) /\ ~Live(t)' => Expired(sessions[t].last)]_vars
  BY CleanupStep DEF IInv
<1> QED
  BY <1>1, Invariant, PTL DEF Spec, StartupSparesValid
=============================================================================
