------------------------------- MODULE Catalog -------------------------------
(***************************************************************************)
(* Sources and combined subscriptions: the tables sources, combined_subs   *)
(* and combined_sources of crates/server/src/db.rs, the admin handlers of  *)
(* routes/sources.rs and routes/combineds.rs that write them, and the      *)
(* reads of routes/subscribe.rs (routes/preview.rs reads the same way).    *)
(*                                                                         *)
(* Every statement is an await and one step.  The database is SQLite in    *)
(* WAL mode behind a pool: readers see the last commit, one connection at  *)
(* a time may write, and one that finds the write lock taken waits for it  *)
(* with its connection in hand until busy_timeout makes it fail.  pool's   *)
(* begin() is a deferred BEGIN: the first write takes the lock.            *)
(*                                                                         *)
(* Of a source only its existence is kept: its columns decide nothing      *)
(* here.  Bodies are chosen where they are used.                           *)
(***************************************************************************)
EXTENDS Integers, FiniteSets

CONSTANTS
  Requests,        \* concurrent request slots
  Names,           \* names of combined subscriptions
  MaxSources,      \* bound: rows ever inserted into sources
  MaxCombineds,    \* bound: rows ever committed into combined_subs
  MaxConnections   \* max_connections of the pool

\* writer when nobody has the lock; the name of no row.
Nobody == "nobody"
NoName == ""

ASSUME CatalogAssumption ==
  /\ Nobody \notin Requests
  /\ NoName \notin Names
  /\ MaxSources \in Nat
  /\ MaxCombineds \in Nat
  /\ MaxConnections \in Nat \ {0}

VARIABLES
  db,      \* the committed tables
  tx,      \* the tables as the transaction that holds the write lock sees them
  writer,  \* the request that holds the write lock, or Nobody
  req      \* the handler in each request slot

vars == <<db, tx, writer, req>>

SourceIds == 1 .. MaxSources
CombinedIds == 1 .. MaxCombineds
NoId == 0
Unfilled == {NoId}

\* source and combined are the rows, by id; the sequences are those of
\* AUTOINCREMENT.  asked is history: the ids that the last insert_members of a
\* combined subscription inserted.
Tables ==
  [source : SUBSET SourceIds,
   sourceSeq : 0 .. MaxSources,
   combined : [CombinedIds -> Names \cup {NoName}],
   combinedSeq : 0 .. MaxCombineds,
   member : [CombinedIds -> SUBSET SourceIds],
   asked : [CombinedIds -> (SUBSET SourceIds) \cup {Unfilled}]]

\* Where a handler is.  In Writing it holds a connection; in Locked it holds
\* the write lock as well.
Waiting == {"sourceRead", "combinedRead", "renamed"}
Locked == {"insertMembers", "commit", "rollback"}
Writing == Locked \cup {"insertSource", "updateSource", "deleteSource", "rename",
                        "deleteCombined", "insertCombined", "clearMembers"}
Reading == {"readBack", "named", "members", "served"}
Places == {"idle"} \cup Waiting \cup Writing \cup Reading

\* A handler's locals: the id it works on, and the ids it has read.
Request == [at : Places, id : CombinedIds \cup SourceIds \cup {NoId}, ids : SUBSET SourceIds]
Idle == [at |-> "idle", id |-> NoId, ids |-> {}]

-----------------------------------------------------------------------------
At(w, place) == req[w].at = place
Goto(w, place) == req' = [req EXCEPT ![w].at = place]
End(w) == req' = [req EXCEPT ![w] = Idle]

Combineds(d) == {c \in CombinedIds : d.combined[c] # NoName}
Taken(d, n) == \E c \in Combineds(d) : d.combined[c] = n

\* A connection of the pool is free.
Free == Cardinality({w \in Requests : req[w].at \in Writing}) < MaxConnections

\* An autocommit write: the lock is free, and nobody else sees it half done.
Write(d) ==
  /\ writer = Nobody
  /\ db' = d
  /\ tx' = d
  /\ UNCHANGED writer

\* The first write of a transaction takes the lock.
Lock(w, d) ==
  /\ writer = Nobody
  /\ writer' = w
  /\ tx' = d
  /\ UNCHANGED db

Init ==
  /\ db = [source |-> {}, sourceSeq |-> 0,
           combined |-> [c \in CombinedIds |-> NoName], combinedSeq |-> 0,
           member |-> [c \in CombinedIds |-> {}], asked |-> [c \in CombinedIds |-> Unfilled]]
  /\ tx = db
  /\ writer = Nobody
  /\ req = [w \in Requests |-> Idle]

-----------------------------------------------------------------------------
\* A write takes a connection before it takes the lock: a handler's first
\* statement, or one that follows a read or the rename.
Acquires ==
  {<<"idle", p>> : p \in {"insertSource", "deleteSource", "insertCombined", "deleteCombined"}}
    \cup {<<"sourceRead", "updateSource">>, <<"combinedRead", "rename">>,
          <<"combinedRead", "clearMembers">>, <<"renamed", "clearMembers">>}

Acquire(w) ==
  /\ Free
  /\ \E a \in Acquires : At(w, a[1]) /\ Goto(w, a[2])
  /\ UNCHANGED <<db, tx, writer>>

\* INTEGER PRIMARY KEY AUTOINCREMENT: one more than the largest ever used.
NextSourceId(d) == d.sourceSeq + 1

\* create_source.
InsertSource(w) ==
  /\ At(w, "insertSource")
  /\ db.sourceSeq < MaxSources
  /\ Write([db EXCEPT !.source = @ \cup {NextSourceId(db)}, !.sourceSeq = @ + 1])
  /\ End(w)

\* update_source: the row must exist when it is read ...
SelectSource(w) ==
  /\ At(w, "idle")
  /\ Free
  /\ \E s \in db.source : req' = [req EXCEPT ![w].at = "sourceRead", ![w].id = s]
  /\ UNCHANGED <<db, tx, writer>>

\* ... and may be gone when it is written: no row, no effect, and still 200.
UpdateSource(w) ==
  /\ At(w, "updateSource")
  /\ Write(db)
  /\ End(w)

\* Mutant: foreign_keys off, so nothing cascades.
DropSourceOnly(d, s) == [d EXCEPT !.source = @ \ {s}]

\* Mutant: ON DELETE SET NULL.
DropSourceSetNull(d, s) ==
  [d EXCEPT !.source = @ \ {s},
            !.member = [c \in CombinedIds |->
              IF s \in @[c] THEN (@[c] \ {s}) \cup {NoId} ELSE @[c]]]

\* ON DELETE CASCADE.
DropSource(d, s) ==
  [d EXCEPT !.source = @ \ {s}, !.member = [c \in CombinedIds |-> @[c] \ {s}]]

\* delete_source; an id that is not there changes nothing (404).
DeleteSource(w) ==
  /\ At(w, "deleteSource")
  /\ (\E s \in db.source : Write(DropSource(db, s))) \/ Write(db)
  /\ End(w)

-----------------------------------------------------------------------------
\* create_combined's INSERT: UNIQUE makes a name in use a 400, and the
\* transaction rolls back.
InsertCombined(w) ==
  /\ At(w, "insertCombined")
  /\ \E n \in Names :
       \/ /\ ~Taken(db, n)
          /\ db.combinedSeq < MaxCombineds
          /\ LET c == db.combinedSeq + 1 IN
             /\ Lock(w, [db EXCEPT !.combined[c] = n, !.combinedSeq = c])
             /\ req' = [req EXCEPT ![w].at = "insertMembers", ![w].id = c]
       \/ /\ Taken(db, n)
          /\ Lock(w, db)
          /\ Goto(w, "rollback")

\* update_combined reads the row: 404 when it is not there.
SelectCombined(w) ==
  /\ At(w, "idle")
  /\ Free
  /\ \E c \in Combineds(db) : req' = [req EXCEPT ![w].at = "combinedRead", ![w].id = c]
  /\ UNCHANGED <<db, tx, writer>>

\* Mutant: without the UNIQUE constraint on the name.
RenameUnchecked(w) ==
  /\ At(w, "rename")
  /\ \E n \in Names :
       /\ Write(IF req[w].id \in Combineds(db)
                THEN [db EXCEPT !.combined[req[w].id] = n] ELSE db)
       /\ Goto(w, "renamed")

\* UPDATE ... SET name, outside the transaction: 400 when another row has the
\* name, no effect when this one has gone.
Rename(w) ==
  LET c == req[w].id IN
  /\ At(w, "rename")
  /\ \E n \in Names :
       \/ /\ c \in Combineds(db)
          /\ \A o \in Combineds(db) \ {c} : db.combined[o] # n
          /\ Write([db EXCEPT !.combined[c] = n])
          /\ Goto(w, "renamed")
       \/ /\ c \notin Combineds(db)
          /\ Write(db)
          /\ Goto(w, "renamed")
       \/ /\ \E o \in Combineds(db) \ {c} : db.combined[o] = n
          /\ c \in Combineds(db)
          /\ Write(db)
          /\ End(w)

\* Mutant: the DELETE outside the transaction, visible at once.
ClearMembersNow(w) ==
  /\ At(w, "clearMembers")
  /\ writer = Nobody
  /\ writer' = w
  /\ db' = [db EXCEPT !.member[req[w].id] = {}]
  /\ tx' = db'
  /\ Goto(w, "insertMembers")

\* DELETE FROM combined_sources WHERE combined_id = ?.
ClearMembers(w) ==
  /\ At(w, "clearMembers")
  /\ Lock(w, [db EXCEPT !.member[req[w].id] = {}])
  /\ Goto(w, "insertMembers")

\* insert_members_sql: ids that name no source are skipped; a member of a
\* combined subscription that has gone breaks the foreign key (OR IGNORE does
\* not cover it) and ends the transaction.
InsertMembers(w) ==
  LET c == req[w].id IN
  /\ At(w, "insertMembers")
  /\ \E ids \in SUBSET SourceIds :
       LET found == ids \cap tx.source IN
       IF c \in Combineds(tx)
       THEN /\ tx' = [tx EXCEPT !.member[c] = @ \cup found, !.asked[c] = found]
            /\ Goto(w, "commit")
       ELSE /\ UNCHANGED tx
            /\ Goto(w, IF found = {} THEN "commit" ELSE "rollback")
  /\ UNCHANGED <<db, writer>>

\* Mutant: member_ids before the commit, on a second connection.
CommitAfterReadBack(w) ==
  /\ At(w, "commit")
  /\ Free
  /\ db' = tx
  /\ writer' = Nobody
  /\ End(w)
  /\ UNCHANGED tx

Commit(w) ==
  /\ At(w, "commit")
  /\ db' = tx
  /\ writer' = Nobody
  /\ Goto(w, "readBack")
  /\ UNCHANGED tx

\* member_ids for the response; an update without source_ids comes here
\* straight from its reads.
ReadBack(w) ==
  /\ req[w].at \in {"combinedRead", "renamed", "readBack"}
  /\ Free
  /\ End(w)
  /\ UNCHANGED <<db, tx, writer>>

\* delete_combined; an id that is not there changes nothing (404).
DeleteCombined(w) ==
  /\ At(w, "deleteCombined")
  /\ \/ \E c \in Combineds(db) :
          Write([db EXCEPT !.combined[c] = NoName, !.member[c] = {}, !.asked[c] = Unfilled])
     \/ Write(db)
  /\ End(w)

-----------------------------------------------------------------------------
\* GET /subscribe/{name}: the row of that name (404 when there is none), ...
LookUp(w) ==
  /\ At(w, "idle")
  /\ Free
  /\ \E c \in Combineds(db) :
       req' = [req EXCEPT ![w].at = "named", ![w].id = c]
  /\ UNCHANGED <<db, tx, writer>>

\* ... its member ids, by the row's id, ...
ReadMembers(w) ==
  /\ At(w, "named")
  /\ Free
  /\ req' = [req EXCEPT ![w].at = "members", ![w].ids = db.member[req[w].id]]
  /\ UNCHANGED <<db, tx, writer>>

\* Mutant: no ids taken for "all sources".
ReadRowsOrAll(w) ==
  /\ At(w, "members")
  /\ Free
  /\ req' = [req EXCEPT ![w].at = "served",
                         ![w].ids = IF @ = {} THEN db.source ELSE @ \cap db.source]
  /\ UNCHANGED <<db, tx, writer>>

\* ... and fetch_and_merge's SELECT of those ids: some may have gone.  With
\* no ids there is no statement.
ReadRows(w) ==
  /\ At(w, "members")
  /\ Free \/ req[w].ids = {}
  /\ req' = [req EXCEPT ![w].at = "served", ![w].ids = @ \cap db.source]
  /\ UNCHANGED <<db, tx, writer>>

\* When that SELECT fails the request goes on with no rows and one error.
RowsFail(w) ==
  /\ At(w, "members")
  /\ req[w].ids # {}
  /\ req' = [req EXCEPT ![w].at = "served", ![w].ids = {}]
  /\ UNCHANGED <<db, tx, writer>>

\* format=clash reads the template in their place, one settings row.
ReadTemplate(w) ==
  /\ At(w, "members")
  /\ Free
  /\ Goto(w, "served")
  /\ UNCHANGED <<db, tx, writer>>

Serve(w) ==
  /\ At(w, "served")
  /\ End(w)
  /\ UNCHANGED <<db, tx, writer>>

-----------------------------------------------------------------------------
\* Mutant: the connection returns to the pool in its transaction.
AbandonOpen(w) ==
  /\ req[w].at \notin {"idle", "rollback"}
  /\ End(w)
  /\ UNCHANGED <<db, tx, writer>>

\* A statement fails (busy_timeout, the pool's timeout, I/O: 500), or the
\* client is gone and the future is dropped, or the body does not pass its
\* validation (400).  A transaction is rolled back before its connection
\* returns to the pool.
Abandon(w) ==
  /\ req[w].at \notin {"idle", "rollback"}
  /\ IF req[w].at \in Locked THEN Goto(w, "rollback") ELSE End(w)
  /\ UNCHANGED <<db, tx, writer>>

Rollback(w) ==
  /\ At(w, "rollback")
  /\ tx' = db
  /\ writer' = Nobody
  /\ End(w)
  /\ UNCHANGED db

\* The process dies: what is not committed is gone.
Crash ==
  /\ tx' = db
  /\ writer' = Nobody
  /\ req' = [w \in Requests |-> Idle]
  /\ UNCHANGED db

-----------------------------------------------------------------------------
Transact(w) == InsertMembers(w) \/ Commit(w) \/ Rollback(w)

Handler(w) ==
  \/ Acquire(w)
  \/ InsertSource(w) \/ SelectSource(w) \/ UpdateSource(w) \/ DeleteSource(w)
  \/ InsertCombined(w) \/ SelectCombined(w) \/ Rename(w) \/ ClearMembers(w)
  \/ Transact(w) \/ ReadBack(w) \/ DeleteCombined(w)
  \/ LookUp(w) \/ ReadMembers(w) \/ ReadRows(w) \/ RowsFail(w)
  \/ ReadTemplate(w) \/ Serve(w) \/ Abandon(w)

Next == (\E w \in Requests : Handler(w)) \/ Crash

Spec == Init /\ [][Next]_vars

\* The runtime polls a handler whose statement has finished, and drives the
\* rollback of a dropped transaction.  Nothing is owed to one that waits.
FairSpec == Spec /\ \A w \in Requests : WF_vars(Transact(w))

-----------------------------------------------------------------------------
TypeOK ==
  /\ db \in Tables
  /\ tx \in Tables
  /\ writer \in Requests \cup {Nobody}
  /\ req \in [Requests -> Request]

\* The write lock is held by the request that is inside a transaction and by
\* no other, and outside a transaction nothing uncommitted is left.
LockHeldInTransaction ==
  /\ \A w \in Requests : req[w].at \in Locked <=> writer = w
  /\ writer = Nobody => tx = db

\* Members are sources that exist, of combined subscriptions that exist.
MembersExist ==
  \A c \in CombinedIds :
    /\ db.member[c] \subseteq db.source
    /\ c \notin Combineds(db) => db.member[c] = {}

\* A name finds one combined subscription, although a rename checks nothing
\* that it has read before.
NamesUnique ==
  \A c, d \in Combineds(db) : db.combined[c] = db.combined[d] => c = d

\* combineds.rs:132 and :202 "no orphan row", "no intermediate state": at every
\* moment a reader sees exactly the members that the last create or update
\* put in, less the sources deleted since.
MembersAsAsked ==
  \A c \in Combineds(db) :
    /\ db.asked[c] # Unfilled
    /\ db.member[c] = db.asked[c] \cap db.source

\* A transaction ends without anybody else's help: it never waits for a
\* connection that those who wait for its lock hold.
LockReleased == \A w \in Requests : writer = w ~> writer # w
=============================================================================
