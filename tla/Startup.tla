------------------------------- MODULE Startup -------------------------------
(***************************************************************************)
(* From process start to the first request: crates/server/src/main.rs and  *)
(* db.rs (init_db, delete_expired_sessions), over any database an earlier  *)
(* version, or an earlier start that did not get to its end, left behind.  *)
(*                                                                         *)
(* init_db runs its statements one after the other, outside a transaction: *)
(* each is committed by itself, and the process may die between any two,   *)
(* or end because one failed.  compose.yaml starts it again.               *)
(*                                                                         *)
(* A schema is the set of the tables and columns that the migrations tell  *)
(* apart.  Time is counted in ticks, Sec of them to the second.  A value   *)
(* of last_used_at is a moment, the empty string (Blank), or not there at  *)
(* all (NoColumn).  Only a value with a fraction matches LIKE '%.%'.  The  *)
(* cleanup compares strings: cutoffs are whole seconds, '' is less than    *)
(* any date, and of two values in one second none is less than a cutoff    *)
(* ending in "+00:00", because '+' sorts before '.' and 'Z'.  That makes   *)
(* the order of the strings the order of the moments.                      *)
(***************************************************************************)
EXTENDS Integers, FiniteSets, Sequences

CONSTANTS
  Tokens,      \* session tokens
  TTLs,        \* lifetimes the operator may configure, in ticks; 0: no expiry
  Sec,         \* ticks in a second
  MinDate,     \* chrono's first and last moment, and the longest TimeDelta
  MaxDate,
  MaxDelta,
  MaxTime,     \* bound: the last tick explored
  MaxCrashes   \* bound: crashes and failed statements explored

ASSUME StartupAssumption ==
  /\ TTLs \subseteq Nat
  /\ Sec \in Nat \ {0}
  /\ MinDate \in Int /\ MinDate <= 0
  /\ MaxTime \in Nat \ {0} /\ MaxDate \in Nat /\ MaxTime <= MaxDate
  /\ MaxDelta \in Nat
  /\ MaxCrashes \in Nat

VARIABLES
  at,        \* Down, the number of the statement to run next, or Serving
  schema,    \* tables and columns there are
  rows,      \* table sessions: last_used_at of each token
  ttl,       \* session_ttl_days of the running process
  now,       \* the clock
  crashes    \* crashes and failed statements so far

vars == <<at, schema, rows, ttl, now, crashes>>

Down == 0
Cleanup == 12
Serving == 13

Complete == {"sources", "kind", "settings", "combined_subs", "combined_sources",
             "users", "sessions", "last_used_at"}

\* What the versions before this one added, oldest first.
Eras == <<{"sources", "settings"}, {"kind"}, {"combined_subs", "combined_sources"},
          {"users", "sessions"}, {"last_used_at"}>>

Historic ==
  {UNION {Eras[i] : i \in 1 .. n} : n \in 0 .. Len(Eras)}

Databases == Historic \cup {S \cup {"enabled"} : S \in Historic \ {{}}}

NoRow == -1
NoColumn == -2
Blank == -3
Time == 0 .. MaxTime
Has(t) == rows[t] # NoRow

Truncated(t) == t - (t % Sec)

-----------------------------------------------------------------------------
\* ttl_days == 0, or more than a TimeDelta holds (i64 or try_days refuses).
NeverExpires == ttl = 0 \/ ttl > MaxDelta

\* `now - ttl` leaves chrono's range and panics; so does `last + ttl`.
CutoffPanics == ~NeverExpires /\ now - ttl < MinDate
DeadlinePanics(last) == ~NeverExpires /\ last \in Time /\ last + ttl > MaxDate

\* validate_session: a value that does not parse counts as expired.
Expired(last) == ~NeverExpires /\ (last \notin Time \/ last + ttl < now)

-----------------------------------------------------------------------------
\* An existing database holds sessions of its own era: whole seconds, or
\* fractions of one written before the precision was lowered.
Init ==
  /\ at = Down
  /\ schema \in Databases
  /\ rows \in [Tokens -> CASE "last_used_at" \in schema -> {NoRow, 0, 1}
                           [] "sessions" \in schema /\ "last_used_at" \notin schema
                                -> {NoRow, NoColumn}
                           [] OTHER -> {NoRow}]
  /\ ttl = 0
  /\ now = 1
  /\ crashes = 0

\* AppConfig::from_env, and the pool.
Start ==
  /\ at = Down
  /\ at' = 1
  /\ ttl' \in TTLs
  /\ UNCHANGED <<schema, rows, now, crashes>>

\* One statement succeeds, or fails with the one error that is ignored.
Statement(n) == at = n /\ at' = n + 1 /\ UNCHANGED <<ttl, now, crashes>>

\* CREATE TABLE IF NOT EXISTS.
Create(table, columns) ==
  /\ schema' = IF table \in schema THEN schema ELSE schema \cup {table} \cup columns
  /\ UNCHANGED rows

CreateSources == Statement(1) /\ Create("sources", {"kind"})

\* ALTER TABLE sources ADD COLUMN kind: "duplicate column name" is ignored.
AddKind == Statement(2) /\ schema' = schema \cup {"kind"} /\ UNCHANGED rows

\* ALTER TABLE sources DROP COLUMN enabled: "no such column" is ignored.
DropEnabled == Statement(3) /\ schema' = schema \ {"enabled"} /\ UNCHANGED rows

CreateSettings == Statement(4) /\ Create("settings", {})
CreateCombinedSubs == Statement(5) /\ Create("combined_subs", {})
CreateCombinedSources == Statement(6) /\ Create("combined_sources", {})
CreateUsers == Statement(7) /\ Create("users", {})
CreateSessions == Statement(8) /\ Create("sessions", {"last_used_at"})

\* Mutant: "duplicate column name" is an error like any other.
AddLastUsedOnce ==
  /\ at = 9
  /\ at' = IF "last_used_at" \in schema THEN Down ELSE 10
  /\ schema' = schema \cup {"last_used_at"}
  /\ rows' = [t \in Tokens |-> IF rows[t] = NoColumn THEN Blank ELSE rows[t]]
  /\ UNCHANGED <<ttl, now, crashes>>

\* Mutant: the values are filled in only when the column has just been added
\* (the `migrated` branch that the comment at db.rs:119 says is gone).
AddLastUsedAndBranch ==
  /\ at = 9
  /\ at' = IF "last_used_at" \in schema THEN 11 ELSE 10
  /\ schema' = schema \cup {"last_used_at"}
  /\ rows' = [t \in Tokens |-> IF rows[t] = NoColumn THEN Blank ELSE rows[t]]
  /\ UNCHANGED <<ttl, now, crashes>>

\* ALTER TABLE sessions ADD COLUMN last_used_at DEFAULT ''.
AddLastUsed ==
  /\ Statement(9)
  /\ schema' = schema \cup {"last_used_at"}
  /\ rows' = [t \in Tokens |-> IF rows[t] = NoColumn THEN Blank ELSE rows[t]]

\* UPDATE ... SET last_used_at = strftime(now) WHERE last_used_at = ''.
Backfill ==
  /\ Statement(10)
  /\ rows' = [t \in Tokens |-> IF rows[t] = Blank THEN Truncated(now) ELSE rows[t]]
  /\ UNCHANGED schema

\* UPDATE ... SET last_used_at = substr(last_used_at, 1, 19) || 'Z' WHERE
\* last_used_at LIKE '%.%'.
Normalise ==
  /\ Statement(11)
  /\ rows' = [t \in Tokens |-> IF rows[t] \in Time THEN Truncated(rows[t]) ELSE rows[t]]
  /\ UNCHANGED schema

\* Mutant: the cutoff is rounded up to the next second.
CleanedUpLater ==
  [t \in Tokens |->
    IF ~NeverExpires /\ Has(t) /\ (rows[t] = Blank \/ rows[t] < Truncated(now - ttl) + Sec)
    THEN NoRow
    ELSE rows[t]]

\* DELETE FROM sessions WHERE last_used_at < cutoff.
CleanedUp ==
  [t \in Tokens |->
    IF ~NeverExpires /\ Has(t) /\ (rows[t] = Blank \/ rows[t] < Truncated(now - ttl))
    THEN NoRow
    ELSE rows[t]]

\* delete_expired_sessions; then the router is built and the port is bound.
DeleteExpiredSessions ==
  /\ ~CutoffPanics
  /\ Statement(Cleanup)
  /\ rows' = CleanedUp
  /\ UNCHANGED schema

\* The subtraction panics in main: the process ends, before the statement.
CleanupPanics ==
  /\ at = Cleanup
  /\ CutoffPanics
  /\ at' = Down
  /\ UNCHANGED <<schema, rows, ttl, now, crashes>>

-----------------------------------------------------------------------------
\* create_session.
Login(t) ==
  /\ at = Serving
  /\ ~Has(t)
  /\ rows' = [rows EXCEPT ![t] = Truncated(now)]
  /\ UNCHANGED <<at, schema, ttl, now, crashes>>

\* validate_session (its interleavings are AuthService's): renewed or
\* deleted.  A panic takes the request with it and changes nothing.
Use(t) ==
  /\ at = Serving
  /\ Has(t)
  /\ ~DeadlinePanics(rows[t])
  /\ rows' = [rows EXCEPT ![t] = IF Expired(rows[t]) THEN NoRow ELSE Truncated(now)]
  /\ UNCHANGED <<at, schema, ttl, now, crashes>>

\* The process dies, a statement fails (disk, lock), or the port is taken.
Crash ==
  /\ at # Down
  /\ crashes < MaxCrashes
  /\ at' = Down
  /\ crashes' = crashes + 1
  /\ UNCHANGED <<schema, rows, ttl, now>>

Tick ==
  /\ now < MaxTime
  /\ now' = now + 1
  /\ UNCHANGED <<at, schema, rows, ttl, crashes>>

-----------------------------------------------------------------------------
Migrate ==
  \/ CreateSources \/ AddKind \/ DropEnabled \/ CreateSettings
  \/ CreateCombinedSubs \/ CreateCombinedSources \/ CreateUsers \/ CreateSessions
  \/ AddLastUsed \/ Backfill \/ Normalise

Boot == Start \/ Migrate \/ DeleteExpiredSessions \/ CleanupPanics

Next ==
  \/ Boot
  \/ \E t \in Tokens : Login(t) \/ Use(t)
  \/ Crash
  \/ Tick

Spec == Init /\ [][Next]_vars

\* compose.yaml says `restart: unless-stopped`, and nothing in the sequence
\* waits for anything but the disk.
FairSpec == Spec /\ WF_vars(Boot)

-----------------------------------------------------------------------------
TypeOK ==
  /\ at \in Down .. Serving
  /\ schema \subseteq Complete \cup {"enabled"}
  /\ rows \in [Tokens -> Time \cup {NoRow, NoColumn, Blank}]
  /\ ttl \in TTLs \cup {0}
  /\ now \in Time
  /\ crashes \in 0 .. MaxCrashes

\* Whatever the database was and wherever earlier starts stopped, a process
\* that serves has the schema its queries are written for, and every session
\* has a time of last use, in whole seconds (db.rs:113-127).
ServedUpgraded ==
  at = Serving =>
    /\ schema = Complete
    /\ \A t \in Tokens : Has(t) => rows[t] \in Time /\ rows[t] % Sec = 0

\* A session goes only because it is known to be older than the lifetime of
\* the process that deletes it: an unknown time of last use, which the
\* migration makes, never costs a session (db.rs:117, api_test.rs:1248).
SessionsKept ==
  [][\A t \in Tokens : Has(t) /\ ~Has(t)' =>
       /\ rows[t] \in Time
       /\ ~NeverExpires
       /\ rows[t] + ttl < now]_vars

\* Every start after a crash at any statement gets to the end, unless the
\* lifetime is one that takes `now - ttl` out of chrono's range: then the
\* process panics, and is started again, for ever.
EventuallyServes == <>[]~CutoffPanics => <>[](at = Serving)
=============================================================================
