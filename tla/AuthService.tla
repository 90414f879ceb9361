----------------------------- MODULE AuthService -----------------------------
(***************************************************************************)
(* Administrator, sessions and the requests that use them:                 *)
(* crates/server/src/db.rs, auth.rs, routes/auth.rs and routes/config.rs.  *)
(* Every database call is one step, because every one of them is an await  *)
(* at which other requests run; what a handler computes between two awaits *)
(* belongs to the step before.  No handler here uses a transaction.        *)
(*                                                                         *)
(* Time is counted in ticks, Sec of them to the second: the database keeps *)
(* last_used_at in whole seconds and the clock does not.                   *)
(*                                                                         *)
(* A password is the number of changes that led to it, so a password never *)
(* comes back; the code compares hashes and never looks at the history.    *)
(***************************************************************************)
EXTENDS Integers, FiniteSets

CONSTANTS
  Requests,    \* concurrent request slots
  Tokens,      \* tokens gen_token may produce; it never produces one twice
  Names,       \* user names offered to /admin/setup
  TTL,         \* session_ttl_days, in ticks; 0 disables expiry
  Sec,         \* ticks in a second
  MaxTime,     \* bound: the last tick explored
  MaxChanges   \* bound: password changes explored

ASSUME AuthAssumption ==
  /\ TTL \in Nat
  /\ Sec \in Nat \ {0}
  /\ TTL % Sec = 0
  /\ MaxTime \in Nat
  /\ MaxChanges \in Nat

VARIABLES
  users,      \* table users: the password of each name, or NoUser
  sessions,   \* table sessions: the row of each token, or NoSession
  issued,     \* tokens produced so far
  v2rayB64,   \* settings row v2ray_base64 (an absent row means on)
  now,        \* the clock
  changes,    \* password changes so far
  req,        \* the handler in each request slot
  cut         \* history: a change never got to its delete_all_sessions

database == <<users, sessions, issued, v2rayB64>>
vars == <<database, now, changes, req, cut>>

NoUser == -1
NoSession == [last |-> -1, by |-> -1, made |-> -1]
NoToken == "none"
Time == 0 .. MaxTime
Version == 0 .. MaxChanges

\* last: last_used_at.  History: by, the password its login checked, and made,
\* the password in force when the row was inserted.
Session == [last : Time, by : Version, made : Version]

\* A handler's locals: the bearer token, validate_session's truncated `now` or
\* the time when verify_user was done, and the password that it compared with.
Places == {"idle", "insert", "expire", "renew", "admitted", "update", "revoke", "setting"}
Request == [at : Places, tok : Tokens \cup {NoToken}, stamp : Time, by : Version]
Idle == [at |-> "idle", tok |-> NoToken, stamp |-> 0, by |-> 0]

-----------------------------------------------------------------------------
Live(t) == sessions[t] # NoSession
Admins == {n \in Names : users[n] # NoUser}

Truncated(t) == t - (t % Sec)

\* validate_session: last + ttl < Utc::now().
Expired(last) == TTL > 0 /\ last + TTL < now

At(w, place) == req[w].at = place
Goto(w, place) == req' = [req EXCEPT ![w].at = place]
End(w) == req' = [req EXCEPT ![w] = Idle]

-----------------------------------------------------------------------------
Init ==
  /\ users = [n \in Names |-> NoUser]
  /\ sessions = [t \in Tokens |-> NoSession]
  /\ issued = {}
  /\ v2rayB64 = TRUE
  /\ now = 0
  /\ changes = 0
  /\ req = [w \in Requests |-> Idle]
  /\ cut = FALSE

\* Mutant: db::create_user, which only the UNIQUE constraint holds back.
CreateUser(n) ==
  IF users[n] = NoUser THEN users' = [users EXCEPT ![n] = changes] ELSE UNCHANGED users

\* INSERT ... SELECT ... WHERE NOT EXISTS (SELECT 1 FROM users): one statement.
CreateUserIfEmpty(n) ==
  IF Admins = {} THEN users' = [users EXCEPT ![n] = changes] ELSE UNCHANGED users

\* POST /admin/setup with a valid body; 409 when it changes nothing.
Setup(n) ==
  /\ CreateUserIfEmpty(n)
  /\ UNCHANGED <<sessions, issued, v2rayB64, now, changes, req, cut>>

-----------------------------------------------------------------------------
\* POST /admin/login: verify_user reads the hash and compares.  (A wrong
\* password changes nothing: 401.)
LoginVerifies(w) ==
  /\ At(w, "idle")
  /\ \E n \in Admins :
       req' = [req EXCEPT ![w].at = "insert", ![w].by = users[n], ![w].stamp = now]
  /\ UNCHANGED <<database, now, changes, cut>>

\* create_session: it read the clock after the password was checked, and before
\* the INSERT is awaited.
CreateSession(w) ==
  /\ At(w, "insert")
  /\ \E t \in Tokens \ issued, s \in req[w].stamp .. now :
       /\ sessions' = [sessions EXCEPT ![t] =
            [last |-> Truncated(s), by |-> req[w].by, made |-> changes]]
       /\ issued' = issued \cup {t}
  /\ End(w)
  /\ UNCHANGED <<users, v2rayB64, now, changes, cut>>

\* POST /admin/logout: 204 whether or not the row was there.
Logout(t) ==
  /\ sessions' = [sessions EXCEPT ![t] = NoSession]
  /\ UNCHANGED <<users, issued, v2rayB64, now, changes, req, cut>>

-----------------------------------------------------------------------------
\* validate_session's SELECT, and the verdict on the row it read.  (No row:
\* 401 and nothing changes.)
ReadSession(w, t) ==
  /\ At(w, "idle")
  /\ Live(t)
  /\ req' = [req EXCEPT ![w].at = IF Expired(sessions[t].last) THEN "expire" ELSE "renew",
                         ![w].tok = t,
                         ![w].stamp = Truncated(now)]
  /\ UNCHANGED <<database, now, changes, cut>>

\* DELETE ... WHERE token_hash = ?, then 401.
DeleteExpired(w) ==
  /\ At(w, "expire")
  /\ sessions' = [sessions EXCEPT ![req[w].tok] = NoSession]
  /\ End(w)
  /\ UNCHANGED <<users, issued, v2rayB64, now, changes, cut>>

\* Mutant: the renewal as an upsert.
RenewUpserts(w) ==
  /\ At(w, "renew")
  /\ sessions' = [sessions EXCEPT ![req[w].tok] =
       [last |-> req[w].stamp, by |-> changes, made |-> changes]]
  /\ req' = [req EXCEPT ![w] = [Idle EXCEPT !.at = "admitted"]]
  /\ UNCHANGED <<users, issued, v2rayB64, now, changes, cut>>

\* Mutant: the renewal writes the column without looking for the row.
RenewBlindly(w) ==
  /\ At(w, "renew")
  /\ sessions' = [sessions EXCEPT ![req[w].tok].last = req[w].stamp]
  /\ req' = [req EXCEPT ![w] = [Idle EXCEPT !.at = "admitted"]]
  /\ UNCHANGED <<users, issued, v2rayB64, now, changes, cut>>

\* UPDATE ... WHERE token_hash = ?: no row, no effect, and the request is
\* admitted all the same.
Renew(w) ==
  /\ At(w, "renew")
  /\ sessions' = IF Live(req[w].tok)
                 THEN [sessions EXCEPT ![req[w].tok].last = req[w].stamp]
                 ELSE sessions
  /\ req' = [req EXCEPT ![w] = [Idle EXCEPT !.at = "admitted"]]
  /\ UNCHANGED <<users, issued, v2rayB64, now, changes, cut>>

\* The body of any other admin handler leaves these tables alone.
ServeOther(w) ==
  /\ At(w, "admitted")
  /\ End(w)
  /\ UNCHANGED <<database, now, changes, cut>>

-----------------------------------------------------------------------------
\* PUT /admin/config with change_password: get_username and verify_user (the
\* name of the one administrator never changes, so the two reads are one
\* step).  A wrong old password or a short new one ends the request with 400.
ChangeVerifies(w) ==
  /\ At(w, "admitted")
  /\ \E n \in Admins : req' = [req EXCEPT ![w].at = "update", ![w].by = users[n]]
  /\ UNCHANGED <<database, now, changes, cut>>

\* Mutant: the change ends without delete_all_sessions.
UpdatePasswordOnly(w) ==
  /\ At(w, "update")
  /\ changes < MaxChanges
  /\ changes' = changes + 1
  /\ \E n \in Admins : users' = [users EXCEPT ![n] = changes + 1]
  /\ Goto(w, "setting")
  /\ UNCHANGED <<sessions, issued, v2rayB64, now, cut>>

\* update_password: by user name, whatever hash is there by now.
UpdatePassword(w) ==
  /\ At(w, "update")
  /\ changes < MaxChanges
  /\ changes' = changes + 1
  /\ \E n \in Admins : users' = [users EXCEPT ![n] = changes + 1]
  /\ Goto(w, "revoke")
  /\ UNCHANGED <<sessions, issued, v2rayB64, now, cut>>

\* delete_all_sessions.
RevokeAll(w) ==
  /\ At(w, "revoke")
  /\ sessions' = [t \in Tokens |-> NoSession]
  /\ Goto(w, "setting")
  /\ UNCHANGED <<users, issued, v2rayB64, now, changes, cut>>

\* PUT /admin/config without change_password goes straight to the setting.
SkipChange(w) ==
  /\ At(w, "admitted")
  /\ Goto(w, "setting")
  /\ UNCHANGED <<database, now, changes, cut>>

\* set_setting if the body carries v2ray_base64, then config_dto (reads only).
SetSetting(w) ==
  /\ At(w, "setting")
  /\ v2rayB64' \in BOOLEAN
  /\ End(w)
  /\ UNCHANGED <<users, sessions, issued, now, changes, cut>>

-----------------------------------------------------------------------------
\* A request ends at an await: its database call fails (500), or its client
\* is gone and the handler future is dropped.  What it has done stays done.
Abandon(w) ==
  /\ ~At(w, "idle")
  /\ End(w)
  /\ cut' = (cut \/ At(w, "revoke"))
  /\ UNCHANGED <<database, now, changes>>

\* Mutant: <= for < in the cleanup.
StartupKeepsLater(last) == TTL > 0 => last > Truncated(now - TTL)

\* delete_expired_sessions: cutoff = truncated (now - ttl), rows before it go.
StartupKeeps(last) == TTL > 0 => last >= Truncated(now - TTL)

\* The process dies and starts again: every request is lost, and before the
\* first new one expired sessions are cleaned up.
Restart ==
  /\ req' = [w \in Requests |-> Idle]
  /\ cut' = (cut \/ \E w \in Requests : At(w, "revoke"))
  /\ sessions' = [t \in Tokens |->
       IF Live(t) /\ StartupKeeps(sessions[t].last) THEN sessions[t] ELSE NoSession]
  /\ UNCHANGED <<users, issued, v2rayB64, now, changes>>

Tick ==
  /\ now < MaxTime
  /\ now' = now + 1
  /\ UNCHANGED <<database, changes, req, cut>>

-----------------------------------------------------------------------------
Handler(w) ==
  \/ LoginVerifies(w) \/ CreateSession(w)
  \/ \E t \in Tokens : ReadSession(w, t)
  \/ DeleteExpired(w) \/ Renew(w) \/ ServeOther(w)
  \/ ChangeVerifies(w) \/ UpdatePassword(w) \/ RevokeAll(w)
  \/ SkipChange(w) \/ SetSetting(w)
  \/ Abandon(w)

Next ==
  \/ \E n \in Names : Setup(n)
  \/ \E t \in Tokens : Logout(t)
  \/ \E w \in Requests : Handler(w)
  \/ Restart
  \/ Tick

Spec == Init /\ [][Next]_vars

-----------------------------------------------------------------------------
TypeOK ==
  /\ users \in [Names -> Version \cup {NoUser}]
  /\ sessions \in [Tokens -> Session \cup {NoSession}]
  /\ issued \subseteq Tokens
  /\ v2rayB64 \in BOOLEAN
  /\ now \in Time
  /\ changes \in Version
  /\ req \in [Requests -> Request]
  /\ cut \in BOOLEAN

\* Concurrent setups cannot make two administrators (routes/auth.rs:76), and
\* the one there is always has the password of the last change.
SingleAdmin ==
  /\ \A m, n \in Admins : m = n
  /\ \A n \in Admins : users[n] = changes

\* A session opened with a password that is no longer in force exists only if
\* its login straddled the change, or the change has not reached (or never
\* reached) its delete_all_sessions.  The order of the two statements in
\* update_config is what keeps every other session out.
OldSessionsExplained ==
  \A t \in Tokens : Live(t) /\ sessions[t].by # changes =>
    \/ sessions[t].by # sessions[t].made
    \/ \E w \in Requests : At(w, "revoke")
    \/ cut

\* routes/config.rs:78 "after a password change all sessions are invalid at
\* once": when no change is under way, and none failed half way, every session
\* was opened with the password in force.
ChangeRevokesSessions ==
  ~cut /\ (\A w \in Requests : ~At(w, "revoke")) =>
    \A t \in Tokens : Live(t) => sessions[t].by = changes

\* The life of every token, as SessionLifecycle specifies it: no interleaving
\* of renewals, logouts, expiries and changes brings a session back.
Life == [t \in Tokens |->
  IF Live(t) THEN "live" ELSE IF t \in issued THEN "ended" ELSE "unissued"]
Lifecycle == INSTANCE SessionLifecycle WITH life <- Life
SessionsEndOnce == Lifecycle!Spec

\* The cleanup at startup removes no session that validate_session would
\* still accept, although one compares strings of whole seconds.
StartupSparesValid ==
  [][Restart => \A t \in Tokens : Live(t) /\ ~Live(t)' => Expired(sessions[t].last)]_vars
=============================================================================
