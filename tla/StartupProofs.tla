---------------------------- MODULE StartupProofs ----------------------------
(***************************************************************************)
(* Startup for any clock, any lifetimes and any number of crashes.  What a *)
(* crashed start leaves behind is described by how far it got: each        *)
(* statement leaves something that no later one undoes, so the next start, *)
(* which runs them all again, can only be better off.                      *)
(***************************************************************************)
EXTENDS Startup, TLAPS

\* The columns of sessions and their values belong together, at any moment.
Coherent ==
  /\ "last_used_at" \in schema => "sessions" \in schema
  /\ "last_used_at" \in schema => \A t \in Tokens : rows[t] # NoColumn
  /\ "sessions" \notin schema => \A t \in Tokens : rows[t] = NoRow

\* What the statements before the next one have made of the database.
Progress ==
  /\ at > 1 => "sources" \in schema
  /\ at > 2 => "kind" \in schema
  /\ at > 3 => "enabled" \notin schema
  /\ at > 4 => "settings" \in schema
  /\ at > 5 => "combined_subs" \in schema
  /\ at > 6 => "combined_sources" \in schema
  /\ at > 7 => "users" \in schema
  /\ at > 8 => "sessions" \in schema
  /\ at > 9 => "last_used_at" \in schema
  /\ at > 10 => \A t \in Tokens : rows[t] # Blank
  /\ at > 11 => \A t \in Tokens : rows[t] \in Time => rows[t] % Sec = 0

IInv == TypeOK /\ Coherent /\ Progress

-----------------------------------------------------------------------------
\* Truncation to seconds goes back in time, and to a whole second.
LEMMA TruncatedEarlier == \A t \in Int : Truncated(t) \in Int /\ Truncated(t) <= t
BY StartupAssumption, SMT DEF Truncated

\* What is truncated is a whole number of seconds.
LEMMA TruncatedWhole == \A t \in Int : Truncated(t) % Sec = 0
<1>1. Sec \in Nat \ {0}
  BY StartupAssumption
<1>2. QED
  BY <1>1, SMT DEF Truncated

\* Truncating a moment that the clock can show gives another.
LEMMA TruncatedTime == \A t \in Time : Truncated(t) \in Time /\ Truncated(t) % Sec = 0
<1>1. \A t \in Nat : Truncated(t) >= 0
  BY StartupAssumption, SMT DEF Truncated
<1>2. QED
  BY <1>1, TruncatedEarlier, TruncatedWhole, StartupAssumption, SMT DEF Time

\* Every database that an earlier version can have left.
LEMMA HistoricSchemas ==
  \A S \in Databases :
    /\ S \subseteq Complete \cup {"enabled"}
    /\ "last_used_at" \in S => "sessions" \in S
<1>1. ASSUME NEW n \in 0 .. 5, NEW S, S = UNION {Eras[i] : i \in 1 .. n}
      PROVE  /\ S \subseteq Complete
             /\ "last_used_at" \in S => "sessions" \in S
  <2>1. ASSUME NEW i \in 1 .. 5
        PROVE  /\ Eras[i] \subseteq Complete
               /\ "last_used_at" \in Eras[i] <=> i = 5
    BY <2>1, SMT DEF Eras, Complete
  <2>2. "sessions" \in Eras[4]
    BY SMT DEF Eras
  <2>3. S \subseteq Complete
    BY <1>1, <2>1, SMT
  <2>4. ASSUME "last_used_at" \in S PROVE "sessions" \in S
    <3>1. PICK i \in 1 .. n : "last_used_at" \in Eras[i]
      BY <1>1, <2>4
    <3>2. i = 5 /\ n = 5
      BY <2>1, <3>1, SMT
    <3>3. 4 \in 1 .. n
      BY <3>2, SMT
    <3>4. QED
      BY <1>1, <2>2, <3>3
  <2>5. QED
    BY <2>3, <2>4
<1>2. Len(Eras) = 5
  BY SMT DEF Eras
<1>3. QED
  BY <1>1, <1>2 DEF Databases, Historic

\* Every database an earlier version may have left satisfies the invariant.
LEMMA InitIInv == Init => IInv
<1> SUFFICES ASSUME Init PROVE IInv
  OBVIOUS
<1> USE StartupAssumption
<1>1. schema \subseteq Complete \cup {"enabled"} /\ ("last_used_at" \in schema => "sessions" \in schema)
  BY HistoricSchemas DEF Init
<1>2. 0 \in Time /\ 1 \in Time
  BY SMT DEF Time
<1>3. rows \in [Tokens -> Time \cup {NoRow, NoColumn, Blank}]
  BY <1>2 DEF Init
<1>4. NoRow # NoColumn /\ 0 # NoColumn /\ 1 # NoColumn
  BY SMT DEF NoRow, NoColumn
<1>5. Coherent
  BY <1>1, <1>4 DEF Init, Coherent
<1>6. TypeOK
  BY <1>1, <1>2, <1>3, SMT DEF Init, TypeOK, Down, Serving
<1>7. Progress
  BY SMT DEF Init, Progress, Down
<1>8. QED
  BY <1>5, <1>6, <1>7 DEF IInv

-----------------------------------------------------------------------------
\* The statements that add or drop a table or a column, sessions apart.
LEMMA SchemaSteps ==
  ASSUME IInv,
         \/ CreateSources \/ AddKind \/ DropEnabled \/ CreateSettings
         \/ CreateCombinedSubs \/ CreateCombinedSources \/ CreateUsers
  PROVE  IInv'
<1> USE DEF Create, Statement
<1>1. /\ rows' = rows /\ ttl' = ttl /\ now' = now /\ crashes' = crashes
      /\ at \in 1 .. 7 /\ at' = at + 1
  BY SMT DEF CreateSources, AddKind, DropEnabled, CreateSettings, CreateCombinedSubs,
    CreateCombinedSources, CreateUsers
<1>2. \/ schema' = schema \ {"enabled"}
      \/ \E S \in {{}, {"sources", "kind"}, {"kind"}, {"settings"}, {"combined_subs"},
                   {"combined_sources"}, {"users"}} : schema' = schema \cup S
  BY DEF CreateSources, AddKind, DropEnabled, CreateSettings, CreateCombinedSubs,
    CreateCombinedSources, CreateUsers
<1>3. TypeOK'
  <2>1. schema' \subseteq Complete \cup {"enabled"}
    BY <1>2 DEF IInv, TypeOK, Complete
  <2>2. QED
    BY <1>1, <2>1, SMT DEF IInv, TypeOK, Down, Serving
<1>4. Coherent'
  <2>1. /\ "sessions" \in schema' <=> "sessions" \in schema
        /\ "last_used_at" \in schema' <=> "last_used_at" \in schema
    BY <1>2, SMT
  <2>2. QED
    BY <1>1, <2>1 DEF IInv, Coherent
<1>5. Progress'
  <2>1. CASE CreateSources
    BY <1>1, <2>1, SMT DEF IInv, Progress, CreateSources
  <2>2. CASE AddKind
    BY <1>1, <2>2, SMT DEF IInv, Progress, AddKind
  <2>3. CASE DropEnabled
    BY <1>1, <2>3, SMT DEF IInv, Progress, DropEnabled
  <2>4. CASE CreateSettings
    BY <1>1, <2>4, SMT DEF IInv, Progress, CreateSettings
  <2>5. CASE CreateCombinedSubs
    BY <1>1, <2>5, SMT DEF IInv, Progress, CreateCombinedSubs
  <2>6. CASE CreateCombinedSources
    BY <1>1, <2>6, SMT DEF IInv, Progress, CreateCombinedSources
  <2>7. CASE CreateUsers
    BY <1>1, <2>7, SMT DEF IInv, Progress, CreateUsers
  <2>8. QED
    BY <2>1, <2>2, <2>3, <2>4, <2>5, <2>6, <2>7
<1>6. QED
  BY <1>3, <1>4, <1>5 DEF IInv

\* CREATE TABLE sessions: with the column when it is new, and then empty.
LEMMA CreateSessionsStep == ASSUME IInv, CreateSessions PROVE IInv'
<1>1. /\ rows' = rows /\ ttl' = ttl /\ now' = now /\ crashes' = crashes /\ at = 8 /\ at' = 9
      /\ schema' = IF "sessions" \in schema THEN schema
                   ELSE schema \cup {"sessions"} \cup {"last_used_at"}
  BY SMT DEF CreateSessions, Create, Statement
<1>2. TypeOK'
  BY <1>1, SMT DEF IInv, TypeOK, Complete, Down, Serving
<1>3. Coherent'
  BY <1>1, SMT DEF IInv, Coherent, NoRow, NoColumn
<1>4. Progress'
  BY <1>1, SMT DEF IInv, Progress
<1>5. QED
  BY <1>2, <1>3, <1>4 DEF IInv

\* The three statements that write the values of last_used_at.
LEMMA ColumnSteps ==
  ASSUME IInv, AddLastUsed \/ Backfill \/ Normalise
  PROVE  IInv'
<1>1. /\ TypeOK /\ Coherent /\ Progress
      /\ ttl' = ttl /\ now' = now /\ crashes' = crashes /\ at \in 9 .. 11 /\ at' = at + 1
  BY SMT DEF IInv, AddLastUsed, Backfill, Normalise, Statement
<1>2. Blank \notin Time /\ NoColumn \notin Time /\ Blank # NoColumn /\ Blank # NoRow
  BY StartupAssumption, SMT DEF Blank, NoColumn, NoRow, Time
<1>3. "sessions" \in schema
  BY <1>1, SMT DEF Progress
<1>4. CASE AddLastUsed
  <2>1. /\ at = 9 /\ at' = 10 /\ schema' = schema \cup {"last_used_at"}
        /\ rows' = [t \in Tokens |-> IF rows[t] = NoColumn THEN Blank ELSE rows[t]]
    BY <1>4, SMT DEF AddLastUsed, Statement
  <2>2. TypeOK'
    BY <1>1, <2>1, SMT DEF TypeOK, Complete, Down, Serving
  <2>3. Coherent'
    BY <1>2, <1>3, <2>1 DEF Coherent
  <2>4. Progress'
    BY <1>1, <2>1, SMT DEF Progress
  <2>5. QED
    BY <2>2, <2>3, <2>4 DEF IInv
<1>5. CASE Backfill
  <2>1. /\ at = 10 /\ at' = 11 /\ schema' = schema
        /\ rows' = [t \in Tokens |-> IF rows[t] = Blank THEN Truncated(now) ELSE rows[t]]
    BY <1>5, SMT DEF Backfill, Statement
  <2>2. Truncated(now) \in Time
    BY <1>1, TruncatedTime DEF TypeOK
  <2>3. TypeOK'
    BY <1>1, <2>1, <2>2, SMT DEF TypeOK, Down, Serving
  <2>4. "last_used_at" \in schema
    BY <1>1, <2>1, SMT DEF Progress
  <2>5. \A t \in Tokens : rows'[t] # NoColumn /\ rows'[t] # Blank
    BY <1>1, <1>2, <2>1, <2>2, <2>4 DEF Coherent
  <2>6. Coherent'
    BY <1>3, <2>1, <2>5 DEF Coherent
  <2>7. Progress'
    BY <1>1, <2>1, <2>5, SMT DEF Progress
  <2>8. QED
    BY <2>3, <2>6, <2>7 DEF IInv
<1>6. CASE Normalise
  <2>1. /\ at = 11 /\ at' = 12 /\ schema' = schema
        /\ rows' = [t \in Tokens |-> IF rows[t] \in Time THEN Truncated(rows[t]) ELSE rows[t]]
    BY <1>6, SMT DEF Normalise, Statement
  <2>2. \A t \in Tokens : rows[t] \in Time =>
          Truncated(rows[t]) \in Time /\ Truncated(rows[t]) % Sec = 0
    BY TruncatedTime
  <2>3. TypeOK'
    BY <1>1, <2>1, <2>2, SMT DEF TypeOK, Down, Serving
  <2>4. "last_used_at" \in schema /\ \A t \in Tokens : rows[t] # Blank
    BY <1>1, <2>1, SMT DEF Progress
  <2>5. \A t \in Tokens :
          /\ rows'[t] # NoColumn /\ rows'[t] # Blank
          /\ rows'[t] \in Time => rows'[t] % Sec = 0
    BY <1>1, <1>2, <2>1, <2>2, <2>4 DEF Coherent
  <2>6. Coherent'
    BY <1>3, <2>1, <2>5 DEF Coherent
  <2>7. Progress'
    BY <1>1, <2>1, <2>5, SMT DEF Progress
  <2>8. QED
    BY <2>3, <2>6, <2>7 DEF IInv
<1>7. QED
  BY <1>4, <1>5, <1>6

\* The cleanup and the requests, which delete rows or write the clock.
LEMMA RowSteps ==
  ASSUME IInv, DeleteExpiredSessions \/ \E t \in Tokens : Login(t) \/ Use(t)
  PROVE  IInv'
<1>1. /\ TypeOK /\ Coherent /\ Progress
      /\ schema' = schema /\ ttl' = ttl /\ now' = now /\ crashes' = crashes
      /\ at \in {12, 13} /\ at' = 13
  BY SMT DEF IInv, DeleteExpiredSessions, Statement, Cleanup, Serving, Login, Use
<1>2. Blank \notin Time /\ NoColumn \notin Time /\ NoRow \notin {Blank, NoColumn}
      /\ NoRow \notin Time
  BY StartupAssumption, SMT DEF Blank, NoColumn, NoRow, Time
<1>3. Truncated(now) \in Time /\ Truncated(now) % Sec = 0
  BY <1>1, TruncatedTime DEF TypeOK
<1>4. /\ rows' \in [Tokens -> Time \cup {NoRow, NoColumn, Blank}]
      /\ \A t \in Tokens : rows'[t] \in {rows[t], NoRow, Truncated(now)}
  BY <1>1, <1>3 DEF TypeOK, DeleteExpiredSessions, CleanedUp, Login, Use
<1>5. /\ "sessions" \in schema /\ "last_used_at" \in schema
      /\ \A t \in Tokens : /\ rows[t] # Blank /\ rows[t] # NoColumn
                           /\ rows[t] \in Time => rows[t] % Sec = 0
  BY <1>1, SMT DEF Coherent, Progress
<1>6. \A t \in Tokens : /\ rows'[t] # Blank /\ rows'[t] # NoColumn
                        /\ rows'[t] \in Time => rows'[t] % Sec = 0
  BY <1>2, <1>3, <1>4, <1>5
<1>7. TypeOK'
  BY <1>1, <1>4, SMT DEF TypeOK, Down, Serving
<1>8. Coherent'
  BY <1>1, <1>5, <1>6 DEF Coherent
<1>9. Progress'
  BY <1>1, <1>6, SMT DEF Progress
<1>10. QED
  BY <1>7, <1>8, <1>9 DEF IInv

\* No step of any start breaks the invariant.
LEMMA NextIInv == IInv /\ [Next]_vars => IInv'
<1> SUFFICES ASSUME IInv, [Next]_vars PROVE IInv'
  OBVIOUS
<1>1. CASE Start
  BY <1>1, SMT DEF Start, IInv, TypeOK, Coherent, Progress, Down, Serving
<1>2. CASE Migrate
  BY <1>2, SchemaSteps, CreateSessionsStep, ColumnSteps DEF Migrate
<1>3. CASE CleanupPanics
  BY <1>3, SMT DEF CleanupPanics, IInv, TypeOK, Coherent, Progress, Down, Serving
<1>4. CASE DeleteExpiredSessions \/ \E t \in Tokens : Login(t) \/ Use(t)
  BY <1>4, RowSteps
<1>5. CASE Crash
  BY <1>5, StartupAssumption, SMT DEF Crash, IInv, TypeOK, Coherent, Progress, Down, Serving
<1>6. CASE Tick
  BY <1>6, StartupAssumption, SMT DEF Tick, IInv, TypeOK, Coherent, Progress, Time
<1>7. CASE UNCHANGED vars
  BY <1>7 DEF vars, IInv, TypeOK, Coherent, Progress
<1>8. QED
  BY <1>1, <1>2, <1>3, <1>4, <1>5, <1>6, <1>7 DEF Next, Boot

\* The invariant holds of every behaviour.
LEMMA SpecIInv == Spec => []IInv
BY InitIInv, NextIInv, PTL DEF Spec

-----------------------------------------------------------------------------
\* The variables keep their types.
THEOREM StartupTypeOK == Spec => []TypeOK
<1>1. IInv => TypeOK
  BY DEF IInv
<1>2. QED
  BY <1>1, SpecIInv, PTL

\* A process that serves has the whole schema and times of last use in whole
\* seconds, after any number of crashes between any statements (db.rs:113).
THEOREM ServesUpgraded == Spec => []ServedUpgraded
<1>1. ASSUME IInv PROVE ServedUpgraded
  <2>1. SUFFICES ASSUME at = 13 PROVE /\ schema = Complete
                                      /\ \A t \in Tokens : Has(t) =>
                                           rows[t] \in Time /\ rows[t] % Sec = 0
    BY DEF ServedUpgraded, Serving
  <2>2. Complete \subseteq schema /\ "enabled" \notin schema
    BY <1>1, <2>1, SMT DEF IInv, Progress, Complete
  <2>3. schema = Complete
    BY <1>1, <2>2 DEF IInv, TypeOK
  <2>4. \A t \in Tokens : rows[t] # Blank /\ (rows[t] \in Time => rows[t] % Sec = 0)
    BY <1>1, <2>1, SMT DEF IInv, Progress
  <2>5. \A t \in Tokens : rows[t] # NoColumn
    BY <1>1, <2>2 DEF IInv, Coherent, Complete
  <2>6. QED
    BY <1>1, <2>3, <2>4, <2>5 DEF IInv, TypeOK, Has
<1>2. QED
  BY <1>1, SpecIInv, PTL

\* No session is deleted before its lifetime is over: not by the migration,
\* not by the cleanup, whatever the lifetime was before (db.rs:117).
THEOREM SessionsAreKept == Spec => SessionsKept
<1>1. ASSUME IInv, [Next]_vars, NEW t \in Tokens, Has(t), ~Has(t)'
      PROVE  rows[t] \in Time /\ ~NeverExpires /\ rows[t] + ttl < now
  <2>1. TypeOK /\ Coherent /\ Progress
    BY <1>1 DEF IInv
  <2>2. rows[t] # NoRow /\ rows'[t] = NoRow
    BY <1>1 DEF Has
  <2>3. NoRow # Blank /\ NoRow \notin Time
    BY StartupAssumption, SMT DEF NoRow, Blank, Time
  <2>4. now \in Time /\ ttl \in Int /\ now \in Int /\ rows[t] \in Int
    BY <2>1, StartupAssumption, SMT DEF TypeOK, Time, NoRow, NoColumn, Blank
  <2>5. Truncated(now) \in Time
    BY <2>4, TruncatedTime
  <2>6. at > 11 => rows[t] \in Time
    <3>1. SUFFICES ASSUME at > 11 PROVE rows[t] \in Time
      OBVIOUS
    <3>2. rows[t] # Blank /\ "last_used_at" \in schema
      BY <2>1, <3>1, SMT DEF TypeOK, Progress, Down, Serving
    <3>3. QED
      BY <2>1, <2>2, <3>2 DEF TypeOK, Coherent
  <2>7. CASE DeleteExpiredSessions
    <3>1. at = 12 /\ rows' = CleanedUp
      BY <2>7 DEF DeleteExpiredSessions, Statement, Cleanup
    <3>2. rows[t] \in Time
      BY <2>6, <3>1, SMT
    <3>3. rows[t] # Blank
      BY <3>2, StartupAssumption, SMT DEF Blank, Time
    <3>4. ~NeverExpires /\ rows[t] < Truncated(now - ttl)
      BY <2>2, <3>1, <3>3 DEF CleanedUp
    <3>5. now - ttl \in Int
      BY <2>4, SMT
    <3>6. Truncated(now - ttl) \in Int /\ Truncated(now - ttl) <= now - ttl
      BY <3>5, TruncatedEarlier
    <3>7. rows[t] + ttl < now
      BY <2>4, <3>4, <3>6, SMT
    <3>8. QED
      BY <3>2, <3>4, <3>7
  <2>8. CASE \E u \in Tokens : Login(u) \/ Use(u)
    <3>1. PICK u \in Tokens : Login(u) \/ Use(u)
      BY <2>8
    <3>2. Use(u) /\ u = t /\ Expired(rows[t])
      BY <2>1, <2>2, <2>3, <2>5, <3>1 DEF Login, Use, TypeOK
    <3>3. rows[t] \in Time
      BY <2>6, <3>2, SMT DEF Use, Serving
    <3>4. QED
      BY <3>2, <3>3 DEF Expired
  <2>9. CASE AddLastUsed \/ Backfill \/ Normalise
    <3>1. \A x \in Time : Truncated(x) \in Time
      BY TruncatedTime
    <3>2. QED
      BY <2>2, <2>3, <2>4, <2>9, <3>1 DEF AddLastUsed, Backfill, Normalise
  <2>10. CASE rows' = rows
    BY <2>2, <2>10
  <2>11. QED
    BY <1>1, <2>7, <2>8, <2>9, <2>10 DEF Next, Boot, Migrate, Start, Create, CreateSources,
      AddKind, DropEnabled, CreateSettings, CreateCombinedSubs, CreateCombinedSources,
      CreateUsers, CreateSessions, CleanupPanics, Crash, Tick, vars
<1>2. IInv /\ [Next]_vars =>
        [\A t \in Tokens : Has(t) /\ ~Has(t)' =>
           /\ rows[t] \in Time
           /\ ~NeverExpires
           /\ rows[t] + ttl < now]_vars
  BY <1>1
<1>3. QED
  BY <1>2, SpecIInv, PTL DEF Spec, SessionsKept
=============================================================================
