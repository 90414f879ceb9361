---------------------------- MODULE CatalogProofs ----------------------------
(***************************************************************************)
(* The safety of Catalog for any number of requests, rows, names and       *)
(* connections.  The invariant speaks of tables, committed or not: Sound   *)
(* is what every statement keeps, and Filled what only a transaction may   *)
(* break, for the one combined subscription it is filling.  Each statement *)
(* has a lemma about the tables it makes; the handlers then only decide    *)
(* which tables become visible, and when.                                  *)
(***************************************************************************)
EXTENDS Catalog, TLAPS

\* Members and names of the tables d are in order, and no id that has ever been
\* used, or asked for, is ahead of its sequence.
Sound(d) ==
  /\ d \in Tables
  /\ \A c \in CombinedIds :
       /\ d.member[c] \subseteq d.source
       /\ d.combined[c] = NoName => d.member[c] = {}
       /\ d.asked[c] \subseteq 0 .. d.sourceSeq
       /\ c > d.combinedSeq => d.combined[c] = NoName
  /\ d.source \subseteq 1 .. d.sourceSeq
  /\ \A c, e \in CombinedIds :
       d.combined[c] = d.combined[e] /\ d.combined[c] # NoName => c = e

\* Every combined subscription, those in S apart, has the members asked for.
Filled(d, S) ==
  \A c \in CombinedIds \ S : d.combined[c] # NoName =>
    /\ d.asked[c] # Unfilled
    /\ d.member[c] = d.asked[c] \cap d.source

-----------------------------------------------------------------------------
\* The statements, as functions on tables.

\* create_source's INSERT: the new id is one that nobody has asked for yet.
LEMMA AddSource ==
  ASSUME NEW d, Sound(d), Filled(d, {}), d.sourceSeq < MaxSources
  PROVE  LET e == [d EXCEPT !.source = @ \cup {NextSourceId(d)}, !.sourceSeq = @ + 1]
         IN  Sound(e) /\ Filled(e, {})
<1> DEFINE e == [d EXCEPT !.source = @ \cup {NextSourceId(d)}, !.sourceSeq = @ + 1]
<1> USE CatalogAssumption
<1>1. /\ d.sourceSeq \in 0 .. MaxSources /\ d.source \subseteq 1 .. d.sourceSeq
      /\ d.member \in [CombinedIds -> SUBSET SourceIds]
      /\ d.asked \in [CombinedIds -> (SUBSET SourceIds) \cup {Unfilled}]
  BY DEF Sound, Tables
<1>2. /\ e.source = d.source \cup {d.sourceSeq + 1} /\ e.sourceSeq = d.sourceSeq + 1
      /\ e.combined = d.combined /\ e.combinedSeq = d.combinedSeq
      /\ e.member = d.member /\ e.asked = d.asked
  BY DEF Sound, Tables, NextSourceId
<1>3. e \in Tables
  <2>1. e.sourceSeq \in 0 .. MaxSources /\ e.source \subseteq SourceIds
    BY <1>1, <1>2, SMT DEF SourceIds
  <2>2. QED
    BY <1>2, <2>1 DEF Sound, Tables
<1>4. Sound(e)
  BY <1>1, <1>2, <1>3, SMT DEF Sound
<1>5. Filled(e, {})
  BY <1>1, <1>2, SMT DEF Sound, Filled
<1>6. QED
  BY <1>4, <1>5

\* delete_source's DELETE, with its cascade.
LEMMA RemoveSource ==
  ASSUME NEW d, Sound(d), Filled(d, {}), NEW s \in SourceIds
  PROVE  Sound(DropSource(d, s)) /\ Filled(DropSource(d, s), {})
<1> DEFINE e == DropSource(d, s)
<1>1. /\ e.source = d.source \ {s} /\ e.sourceSeq = d.sourceSeq
      /\ e.combined = d.combined /\ e.combinedSeq = d.combinedSeq
      /\ e.member = [c \in CombinedIds |-> d.member[c] \ {s}] /\ e.asked = d.asked
  BY DEF Sound, Tables, DropSource
<1>2. e \in Tables
  BY <1>1 DEF Sound, Tables, DropSource
<1>3. Sound(e)
  BY <1>1, <1>2, SMT DEF Sound
<1>4. Filled(e, {})
  BY <1>1, SMT DEF Sound, Filled
<1>5. QED
  BY <1>3, <1>4

\* create_combined's INSERT: a row without members yet.
LEMMA AddCombined ==
  ASSUME NEW d, Sound(d), Filled(d, {}), d.combinedSeq < MaxCombineds,
         NEW n \in Names, ~Taken(d, n)
  PROVE  LET c == d.combinedSeq + 1
             e == [d EXCEPT !.combined[c] = n, !.combinedSeq = c]
         IN  c \in CombinedIds /\ Sound(e) /\ Filled(e, {c}) /\ e.member[c] = {}
<1> DEFINE c == d.combinedSeq + 1
           e == [d EXCEPT !.combined[c] = n, !.combinedSeq = c]
<1> USE CatalogAssumption
<1>1. c \in CombinedIds
  BY SMT DEF Sound, Tables, CombinedIds
<1>2. /\ e.source = d.source /\ e.sourceSeq = d.sourceSeq
      /\ e.combined = [d.combined EXCEPT ![c] = n] /\ e.combinedSeq = c
      /\ e.member = d.member /\ e.asked = d.asked
  BY DEF Sound, Tables
<1>3. d.combined \in [CombinedIds -> Names \cup {NoName}]
  BY DEF Sound, Tables
<1>4. \A o \in CombinedIds : d.combined[o] # n
  BY <1>3 DEF Taken, Combineds
<1>5. e \in Tables
  <2>1. e.combinedSeq \in 0 .. MaxCombineds
    BY <1>1, <1>2, SMT DEF CombinedIds
  <2>2. e.combined \in [CombinedIds -> Names \cup {NoName}]
    BY <1>2, <1>3
  <2>3. QED
    BY <1>2, <2>1, <2>2 DEF Sound, Tables
<1>6. d.combined[c] = NoName
  BY <1>1, SMT DEF Sound, Tables, CombinedIds
<1>7. e.member[c] = {}
  BY <1>1, <1>2, <1>6 DEF Sound
<1>8. \A o \in CombinedIds : e.combined[o] = IF o = c THEN n ELSE d.combined[o]
  BY <1>1, <1>2, <1>3
<1>9. \A o \in CombinedIds : o > c => o > d.combinedSeq /\ o # c
  BY SMT DEF Sound, Tables, CombinedIds
<1>10. Sound(e)
  <2>1. ASSUME NEW o \in CombinedIds
        PROVE  /\ e.member[o] \subseteq e.source
               /\ e.combined[o] = NoName => e.member[o] = {}
               /\ e.asked[o] \subseteq 0 .. e.sourceSeq
               /\ o > e.combinedSeq => e.combined[o] = NoName
    BY <1>2, <1>7, <1>8, <1>9 DEF Sound
  <2>2. ASSUME NEW o \in CombinedIds, NEW p \in CombinedIds,
               e.combined[o] = e.combined[p], e.combined[o] # NoName
        PROVE  o = p
    BY <1>4, <1>8, <2>2 DEF Sound
  <2>3. e.source \subseteq 1 .. e.sourceSeq
    BY <1>2 DEF Sound
  <2>4. QED
    BY <1>5, <2>1, <2>2, <2>3 DEF Sound
<1>11. Filled(e, {c})
  BY <1>2, <1>8 DEF Filled
<1>12. QED
  BY <1>1, <1>7, <1>10, <1>11

\* update_combined's UPDATE of the name, with UNIQUE in its way.
LEMMA RenameRow ==
  ASSUME NEW d, Sound(d), Filled(d, {}), NEW c \in Combineds(d), NEW n \in Names,
         \A o \in Combineds(d) \ {c} : d.combined[o] # n
  PROVE  LET e == [d EXCEPT !.combined[c] = n] IN Sound(e) /\ Filled(e, {})
<1> DEFINE e == [d EXCEPT !.combined[c] = n]
<1> USE CatalogAssumption
<1>1. c \in CombinedIds /\ d.combined[c] # NoName
  BY DEF Combineds
<1>2. /\ e.source = d.source /\ e.sourceSeq = d.sourceSeq
      /\ e.combined = [d.combined EXCEPT ![c] = n] /\ e.combinedSeq = d.combinedSeq
      /\ e.member = d.member /\ e.asked = d.asked
  BY DEF Sound, Tables
<1>3. d.combined \in [CombinedIds -> Names \cup {NoName}]
  BY DEF Sound, Tables
<1>4. \A o \in CombinedIds : o # c => d.combined[o] # n
  BY <1>3 DEF Combineds
<1>5. e \in Tables
  <2>1. e.combined \in [CombinedIds -> Names \cup {NoName}]
    BY <1>2, <1>3
  <2>2. QED
    BY <1>2, <2>1 DEF Sound, Tables
<1>6. \A o \in CombinedIds : e.combined[o] = IF o = c THEN n ELSE d.combined[o]
  BY <1>1, <1>2, <1>3
<1>7. Sound(e)
  <2>1. ASSUME NEW o \in CombinedIds
        PROVE  /\ e.member[o] \subseteq e.source
               /\ e.combined[o] = NoName => e.member[o] = {}
               /\ e.asked[o] \subseteq 0 .. e.sourceSeq
               /\ o > e.combinedSeq => e.combined[o] = NoName
    BY <1>1, <1>2, <1>6 DEF Sound
  <2>2. ASSUME NEW o \in CombinedIds, NEW p \in CombinedIds,
               e.combined[o] = e.combined[p], e.combined[o] # NoName
        PROVE  o = p
    BY <1>4, <1>6, <2>2 DEF Sound
  <2>3. e.source \subseteq 1 .. e.sourceSeq
    BY <1>2 DEF Sound
  <2>4. QED
    BY <1>5, <2>1, <2>2, <2>3 DEF Sound
<1>8. Filled(e, {})
  BY <1>1, <1>2, <1>6 DEF Filled
<1>9. QED
  BY <1>7, <1>8

\* The DELETE of all members of one combined subscription.
LEMMA EmptyMembers ==
  ASSUME NEW d, Sound(d), Filled(d, {}), NEW c \in CombinedIds
  PROVE  LET e == [d EXCEPT !.member[c] = {}]
         IN  Sound(e) /\ Filled(e, {c}) /\ e.member[c] = {}
<1> DEFINE e == [d EXCEPT !.member[c] = {}]
<1>1. /\ e.source = d.source /\ e.sourceSeq = d.sourceSeq
      /\ e.combined = d.combined /\ e.combinedSeq = d.combinedSeq
      /\ e.member = [d.member EXCEPT ![c] = {}] /\ e.asked = d.asked
  BY DEF Sound, Tables
<1>2. \A o \in CombinedIds : e.member[o] = IF o = c THEN {} ELSE d.member[o]
  BY <1>1 DEF Sound, Tables
<1>3. e \in Tables
  BY <1>1 DEF Sound, Tables
<1>4. Sound(e)
  BY <1>1, <1>2, <1>3 DEF Sound
<1>5. QED
  BY <1>1, <1>2, <1>4 DEF Filled

\* insert_members_sql, for a combined subscription that has none.
LEMMA FillMembers ==
  ASSUME NEW d, NEW c \in Combineds(d), Sound(d), Filled(d, {c}), d.member[c] = {},
         NEW ids \in SUBSET SourceIds
  PROVE  LET found == ids \cap d.source
             e == [d EXCEPT !.member[c] = @ \cup found, !.asked[c] = found]
         IN  Sound(e) /\ Filled(e, {})
<1> DEFINE found == ids \cap d.source
           e == [d EXCEPT !.member[c] = @ \cup found, !.asked[c] = found]
<1> USE CatalogAssumption
<1>1. c \in CombinedIds /\ d.combined[c] # NoName
  BY DEF Combineds
<1>2. /\ e.source = d.source /\ e.sourceSeq = d.sourceSeq
      /\ e.combined = d.combined /\ e.combinedSeq = d.combinedSeq
      /\ e.member = [d.member EXCEPT ![c] = found] /\ e.asked = [d.asked EXCEPT ![c] = found]
  BY <1>1 DEF Sound, Tables
<1>3. /\ d.member \in [CombinedIds -> SUBSET SourceIds]
      /\ d.asked \in [CombinedIds -> (SUBSET SourceIds) \cup {Unfilled}]
      /\ d.sourceSeq \in 0 .. MaxSources
  BY DEF Sound, Tables
<1>4. /\ \A o \in CombinedIds : e.member[o] = IF o = c THEN found ELSE d.member[o]
      /\ \A o \in CombinedIds : e.asked[o] = IF o = c THEN found ELSE d.asked[o]
  BY <1>1, <1>2, <1>3
<1>5. found \subseteq 0 .. d.sourceSeq /\ NoId \notin found
  BY <1>3, SMT DEF Sound, NoId
<1>6. e \in Tables
  <2> found \in SUBSET SourceIds
    OBVIOUS
  <2> HIDE DEF found
  <2>1. [d.member EXCEPT ![c] = found] \in [CombinedIds -> SUBSET SourceIds]
    BY <1>3
  <2>2. [d.asked EXCEPT ![c] = found] \in [CombinedIds -> (SUBSET SourceIds) \cup {Unfilled}]
    BY <1>3
  <2>3. QED
    BY <1>2, <2>1, <2>2 DEF Sound, Tables
<1>7. Sound(e)
  BY <1>1, <1>2, <1>4, <1>5, <1>6 DEF Sound
<1>8. Filled(e, {})
  BY <1>2, <1>4, <1>5 DEF Filled, Unfilled
<1>9. QED
  BY <1>7, <1>8

\* delete_combined's DELETE, with its cascade.
LEMMA RemoveCombined ==
  ASSUME NEW d, Sound(d), Filled(d, {}), NEW c \in CombinedIds
  PROVE  LET e == [d EXCEPT !.combined[c] = NoName, !.member[c] = {}, !.asked[c] = Unfilled]
         IN  Sound(e) /\ Filled(e, {})
<1> DEFINE e == [d EXCEPT !.combined[c] = NoName, !.member[c] = {}, !.asked[c] = Unfilled]
<1> USE CatalogAssumption
<1>1. /\ e.source = d.source /\ e.sourceSeq = d.sourceSeq
      /\ e.combined = [d.combined EXCEPT ![c] = NoName] /\ e.combinedSeq = d.combinedSeq
      /\ e.member = [d.member EXCEPT ![c] = {}] /\ e.asked = [d.asked EXCEPT ![c] = Unfilled]
  BY DEF Sound, Tables
<1>2. /\ d.combined \in [CombinedIds -> Names \cup {NoName}]
      /\ d.member \in [CombinedIds -> SUBSET SourceIds]
      /\ d.asked \in [CombinedIds -> (SUBSET SourceIds) \cup {Unfilled}]
      /\ d.sourceSeq \in 0 .. MaxSources
  BY DEF Sound, Tables
<1>3. /\ \A o \in CombinedIds : e.combined[o] = IF o = c THEN NoName ELSE d.combined[o]
      /\ \A o \in CombinedIds : e.member[o] = IF o = c THEN {} ELSE d.member[o]
      /\ \A o \in CombinedIds : e.asked[o] = IF o = c THEN Unfilled ELSE d.asked[o]
  BY <1>1, <1>2
<1>4. Unfilled \subseteq 0 .. d.sourceSeq
  BY <1>2, SMT DEF Unfilled, NoId
<1>5. e \in Tables
  <2>1. e.combined \in [CombinedIds -> Names \cup {NoName}]
    BY <1>1, <1>2
  <2>2. e.member \in [CombinedIds -> SUBSET SourceIds]
    BY <1>1, <1>2
  <2>3. e.asked \in [CombinedIds -> (SUBSET SourceIds) \cup {Unfilled}]
    BY <1>1, <1>2
  <2>4. QED
    BY <1>1, <2>1, <2>2, <2>3 DEF Sound, Tables
<1>6. Sound(e)
  BY <1>1, <1>3, <1>4, <1>5 DEF Sound
<1>7. Filled(e, {})
  BY <1>1, <1>3 DEF Filled
<1>8. QED
  BY <1>6, <1>7

-----------------------------------------------------------------------------
\* The handlers that work on a combined subscription have its id.
KnowsId(r) ==
  r.at \in {"combinedRead", "rename", "renamed", "clearMembers", "insertMembers", "named"} =>
    r.id \in CombinedIds

\* What is about to be committed is filled, or will be by the next statement.
Uncommitted(w) ==
  /\ At(w, "insertMembers") => Filled(tx, {req[w].id}) /\ tx.member[req[w].id] = {}
  /\ At(w, "commit") => Filled(tx, {})

IInv ==
  /\ writer \in Requests \cup {Nobody}
  /\ req \in [Requests -> Request]
  /\ LockHeldInTransaction
  /\ Sound(db) /\ Filled(db, {})
  /\ Sound(tx)
  /\ \A w \in Requests : KnowsId(req[w]) /\ Uncommitted(w)

\* Handlers move by changing one slot.
LEMMA GotoMoves ==
  ASSUME req \in [Requests -> Request], NEW w \in Requests, NEW p \in Places, Goto(w, p)
  PROVE  \E r \in Request : /\ r.at = p /\ r.id = req[w].id
                            /\ req' = [req EXCEPT ![w] = r]
<1> DEFINE r == [req[w] EXCEPT !.at = p]
<1>1. r \in Request /\ r.at = p /\ r.id = req[w].id
  BY DEF Request
<1>2. req' = [req EXCEPT ![w] = r]
  BY DEF Goto
<1>3. QED
  BY <1>1, <1>2

\* End takes a handler to its idle record, which is a Request.
LEMMA EndMoves ==
  ASSUME NEW w \in Requests, End(w)
  PROVE  \E r \in Request : r.at = "idle" /\ req' = [req EXCEPT ![w] = r]
<1>1. Idle \in Request /\ Idle.at = "idle"
  BY SMT DEF Idle, Request, Places, NoId
<1>2. QED
  BY <1>1 DEF End

\* A step of a handler outside its transaction that writes nothing.
LEMMA Quiet ==
  ASSUME IInv, NEW w \in Requests, NEW r \in Request, req' = [req EXCEPT ![w] = r],
         req[w].at \notin Locked, r.at \notin Locked, KnowsId(r),
         UNCHANGED <<db, tx, writer>>
  PROVE  IInv'
<1>1. /\ req' \in [Requests -> Request] /\ req'[w] = r
      /\ \A v \in Requests : v # w => req'[v] = req[v]
  BY DEF IInv
<1>2. LockHeldInTransaction'
  BY <1>1 DEF IInv, LockHeldInTransaction
<1>3. \A v \in Requests : KnowsId(req'[v]) /\ Uncommitted(v)'
  <2>1. ASSUME NEW v \in Requests, v # w PROVE KnowsId(req'[v]) /\ Uncommitted(v)'
    BY <1>1, <2>1 DEF IInv, Uncommitted, At
  <2>2. Uncommitted(w)'
    BY <1>1 DEF Uncommitted, At, Locked
  <2>3. QED
    BY <1>1, <2>1, <2>2
<1>4. QED
  BY <1>1, <1>2, <1>3 DEF IInv

\* An autocommit write of tables that are in order.
LEMMA Autocommits ==
  ASSUME IInv, NEW w \in Requests, NEW r \in Request, req' = [req EXCEPT ![w] = r],
         r.at \notin Locked, KnowsId(r), NEW d, Write(d), Sound(d), Filled(d, {})
  PROVE  IInv'
<1>1. /\ req' \in [Requests -> Request] /\ req'[w] = r
      /\ \A v \in Requests : v # w => req'[v] = req[v]
  BY DEF IInv
<1>2. \A v \in Requests : req[v].at \notin Locked
  BY CatalogAssumption DEF IInv, LockHeldInTransaction, Write
<1>3. \A v \in Requests : req'[v].at \notin Locked
  BY <1>1, <1>2
<1>4. LockHeldInTransaction'
  BY <1>3, CatalogAssumption DEF Write, LockHeldInTransaction
<1>5. \A v \in Requests : KnowsId(req'[v]) /\ Uncommitted(v)'
  BY <1>1, <1>3 DEF IInv, Uncommitted, At, Locked
<1>6. QED
  BY <1>1, <1>4, <1>5 DEF IInv, Write

\* The first write of a transaction.
LEMMA Begins ==
  ASSUME IInv, NEW w \in Requests, NEW r \in Request, req' = [req EXCEPT ![w] = r],
         r.at \in {"insertMembers", "rollback"}, KnowsId(r), NEW d, Lock(w, d), Sound(d),
         r.at = "insertMembers" => Filled(d, {r.id}) /\ d.member[r.id] = {}
  PROVE  IInv'
<1>1. /\ req' \in [Requests -> Request] /\ req'[w] = r
      /\ \A v \in Requests : v # w => req'[v] = req[v]
  BY DEF IInv
<1>2. \A v \in Requests : req[v].at \notin Locked
  BY CatalogAssumption DEF IInv, LockHeldInTransaction, Lock
<1>3. LockHeldInTransaction'
  BY <1>1, <1>2, CatalogAssumption DEF Lock, LockHeldInTransaction, Locked
<1>4. \A v \in Requests : KnowsId(req'[v]) /\ Uncommitted(v)'
  <2>1. ASSUME NEW v \in Requests, v # w PROVE KnowsId(req'[v]) /\ Uncommitted(v)'
    BY <1>1, <1>2, <2>1 DEF IInv, Uncommitted, At, Locked
  <2>2. Uncommitted(w)'
    BY <1>1 DEF Uncommitted, At, Lock
  <2>3. QED
    BY <1>1, <2>1, <2>2
<1>5. QED
  BY <1>1, <1>3, <1>4 DEF IInv, Lock

-----------------------------------------------------------------------------
\* The initial state satisfies the invariant.
LEMMA InitIInv == Init => IInv
<1> SUFFICES ASSUME Init PROVE IInv
  OBVIOUS
<1> USE CatalogAssumption
<1>1. /\ db.source = {} /\ db.sourceSeq = 0 /\ db.combinedSeq = 0
      /\ db.combined = [c \in CombinedIds |-> NoName]
      /\ db.member = [c \in CombinedIds |-> {}] /\ db.asked = [c \in CombinedIds |-> Unfilled]
  BY DEF Init
<1>2. db \in Tables
  <2>1. 0 \in 0 .. MaxSources /\ 0 \in 0 .. MaxCombineds
    BY SMT
  <2>2. QED
    BY <2>1 DEF Init, Tables
<1>3. Sound(db)
  <2>1. Unfilled \subseteq 0 .. db.sourceSeq
    BY <1>1, SMT DEF Unfilled, NoId
  <2>2. QED
    BY <1>1, <1>2, <2>1 DEF Sound
<1>4. Filled(db, {})
  BY <1>1 DEF Filled
<1>5. Idle \in Request
  BY SMT DEF Idle, Request, Places, NoId
<1>6. LockHeldInTransaction
  BY DEF Init, LockHeldInTransaction, Idle, Locked
<1>7. QED
  BY <1>3, <1>4, <1>5, <1>6 DEF Init, IInv, KnowsId, Uncommitted, At, Idle

\* Taking a connection, and the reads.
LEMMA ReadSteps ==
  ASSUME IInv, NEW w \in Requests,
         \/ Acquire(w) \/ SelectSource(w) \/ SelectCombined(w) \/ ReadBack(w)
         \/ LookUp(w) \/ ReadMembers(w) \/ ReadRows(w) \/ RowsFail(w)
         \/ ReadTemplate(w) \/ Serve(w)
  PROVE  IInv'
<1> USE DEF At
<1>1. req \in [Requests -> Request] /\ KnowsId(req[w])
  BY DEF IInv
<1>2. CASE Acquire(w)
  <2>1. PICK a \in Acquires : req[w].at = a[1] /\ Goto(w, a[2])
    BY <1>2 DEF Acquire
  <2>2. /\ a[1] \notin Locked /\ a[2] \in Places \ Locked
        /\ a[2] \in {"rename", "clearMembers"} => a[1] \in {"combinedRead", "renamed"}
        /\ a[2] \notin {"combinedRead", "renamed", "insertMembers", "named"}
    BY <2>1, SMT DEF Acquires, Locked, Places, Writing
  <2>3. PICK r \in Request : r.at = a[2] /\ r.id = req[w].id /\ req' = [req EXCEPT ![w] = r]
    BY <1>1, <2>1, <2>2, GotoMoves
  <2>4. KnowsId(r)
    BY <1>1, <2>1, <2>2, <2>3 DEF KnowsId
  <2>5. QED
    BY <1>2, <2>1, <2>2, <2>3, <2>4, Quiet DEF Acquire
<1>3. CASE SelectSource(w)
  <2>1. PICK s \in db.source : req' = [req EXCEPT ![w].at = "sourceRead", ![w].id = s]
    BY <1>3 DEF SelectSource
  <2> DEFINE r == [req[w] EXCEPT !.at = "sourceRead", !.id = s]
  <2>2. s \in SourceIds
    BY DEF IInv, Sound, Tables
  <2>3. r \in Request /\ r.at = "sourceRead" /\ req' = [req EXCEPT ![w] = r]
    BY <1>1, <2>1, <2>2 DEF Request, Places, Waiting
  <2>4. QED
    BY <1>3, <2>3, Quiet DEF SelectSource, KnowsId, Locked
<1>4. CASE SelectCombined(w)
  <2>1. PICK c \in Combineds(db) : req' = [req EXCEPT ![w].at = "combinedRead", ![w].id = c]
    BY <1>4 DEF SelectCombined
  <2> DEFINE r == [req[w] EXCEPT !.at = "combinedRead", !.id = c]
  <2>2. r \in Request /\ r.at = "combinedRead" /\ r.id = c /\ req' = [req EXCEPT ![w] = r]
    BY <1>1, <2>1 DEF Request, Places, Waiting, Combineds
  <2>3. QED
    BY <1>4, <2>2, Quiet DEF SelectCombined, KnowsId, Locked, Combineds
<1>5. CASE ReadBack(w) \/ Serve(w)
  <2>1. PICK r \in Request : r.at = "idle" /\ req' = [req EXCEPT ![w] = r]
    BY <1>5, EndMoves DEF ReadBack, Serve
  <2>2. QED
    BY <1>5, <2>1, Quiet DEF ReadBack, Serve, KnowsId, Locked
<1>6. CASE LookUp(w)
  <2>1. PICK c \in Combineds(db) : req' = [req EXCEPT ![w].at = "named", ![w].id = c]
    BY <1>6 DEF LookUp
  <2> DEFINE r == [req[w] EXCEPT !.at = "named", !.id = c]
  <2>2. r \in Request /\ r.at = "named" /\ r.id = c /\ req' = [req EXCEPT ![w] = r]
    BY <1>1, <2>1 DEF Request, Places, Reading, Combineds
  <2>3. QED
    BY <1>6, <2>2, Quiet DEF LookUp, KnowsId, Locked, Combineds
<1>7. CASE ReadMembers(w)
  <2> DEFINE r == [req[w] EXCEPT !.at = "members", !.ids = db.member[req[w].id]]
  <2>1. db.member[req[w].id] \in SUBSET SourceIds
    BY <1>1, <1>7 DEF ReadMembers, KnowsId, IInv, Sound, Tables
  <2>2. r \in Request /\ r.at = "members" /\ req' = [req EXCEPT ![w] = r]
    BY <1>1, <1>7, <2>1 DEF ReadMembers, Request, Places, Reading
  <2>3. QED
    BY <1>7, <2>2, Quiet DEF ReadMembers, KnowsId, Locked
<1>8. CASE ReadRows(w) \/ RowsFail(w)
  <2> DEFINE r(ids) == [req[w] EXCEPT !.at = "served", !.ids = ids]
  <2>1. PICK ids \in SUBSET SourceIds : req' = [req EXCEPT ![w] = r(ids)]
    <3>1. req[w].ids \cap db.source \in SUBSET SourceIds /\ {} \in SUBSET SourceIds
      BY <1>1 DEF Request
    <3>2. \/ req' = [req EXCEPT ![w] = r(req[w].ids \cap db.source)]
          \/ req' = [req EXCEPT ![w] = r({})]
      BY <1>8 DEF ReadRows, RowsFail
    <3>3. QED
      BY <3>1, <3>2
  <2>2. r(ids) \in Request /\ r(ids).at = "served"
    BY <1>1, <2>1 DEF Request, Places, Reading
  <2>3. QED
    BY <1>8, <2>1, <2>2, Quiet DEF ReadRows, RowsFail, KnowsId, Locked
<1>9. CASE ReadTemplate(w)
  <2>1. "served" \in Places \ Locked
    BY DEF Places, Reading, Locked
  <2>2. PICK r \in Request : r.at = "served" /\ req' = [req EXCEPT ![w] = r]
    BY <1>1, <1>9, <2>1, GotoMoves DEF ReadTemplate
  <2>3. QED
    BY <1>9, <2>2, Quiet DEF ReadTemplate, KnowsId, Locked
<1>10. QED
  BY <1>2, <1>3, <1>4, <1>5, <1>6, <1>7, <1>8, <1>9

\* The autocommit writes.
LEMMA WriteSteps ==
  ASSUME IInv, NEW w \in Requests,
         InsertSource(w) \/ UpdateSource(w) \/ DeleteSource(w) \/ DeleteCombined(w)
  PROVE  IInv'
<1> USE DEF At
<1>1. PICK r \in Request : r.at = "idle" /\ req' = [req EXCEPT ![w] = r]
  BY EndMoves DEF InsertSource, UpdateSource, DeleteSource, DeleteCombined
<1>2. r.at \notin Locked /\ KnowsId(r)
  BY <1>1 DEF Locked, KnowsId
<1>3. Sound(db) /\ Filled(db, {})
  BY DEF IInv
<1>4. PICK d : Write(d) /\ Sound(d) /\ Filled(d, {})
  <2>1. CASE InsertSource(w)
    BY <1>3, <2>1, AddSource DEF InsertSource
  <2>2. CASE UpdateSource(w)
    BY <1>3, <2>2 DEF UpdateSource
  <2>3. CASE DeleteSource(w)
    <3>1. db.source \subseteq SourceIds
      BY <1>3 DEF Sound, Tables
    <3>2. QED
      BY <1>3, <2>3, <3>1, RemoveSource DEF DeleteSource
  <2>4. CASE DeleteCombined(w)
    <3>1. Combineds(db) \subseteq CombinedIds
      BY DEF Combineds
    <3>2. QED
      BY <1>3, <2>4, <3>1, RemoveCombined DEF DeleteCombined
  <2>5. QED
    BY <2>1, <2>2, <2>3, <2>4
<1>5. QED
  BY <1>1, <1>2, <1>4, Autocommits

\* The rename, outside the transaction.
LEMMA RenameStep == ASSUME IInv, NEW w \in Requests, Rename(w) PROVE IInv'
<1> USE DEF At
<1>1. Sound(db) /\ Filled(db, {}) /\ req \in [Requests -> Request] /\ KnowsId(req[w])
  BY DEF IInv
<1>2. req[w].id \in CombinedIds
  BY <1>1 DEF Rename, KnowsId
<1>3. PICK d : Write(d) /\ Sound(d) /\ Filled(d, {})
  BY <1>1, RenameRow DEF Rename
<1>4. Goto(w, "renamed") \/ End(w)
  BY DEF Rename
<1>5. PICK r \in Request :
        /\ r.at \in {"renamed", "idle"}
        /\ r.at = "renamed" => r.id = req[w].id
        /\ req' = [req EXCEPT ![w] = r]
  <2>1. "renamed" \in Places
    BY DEF Places, Waiting
  <2>2. QED
    BY <1>1, <1>4, <2>1, GotoMoves, EndMoves
<1>6. r.at \notin Locked /\ KnowsId(r)
  BY <1>2, <1>5 DEF Locked, KnowsId
<1>7. QED
  BY <1>3, <1>5, <1>6, Autocommits

\* The first write of create_combined's transaction, and of update_combined's.
LEMMA BeginSteps ==
  ASSUME IInv, NEW w \in Requests, InsertCombined(w) \/ ClearMembers(w)
  PROVE  IInv'
<1> USE DEF At
<1>1. Sound(db) /\ Filled(db, {}) /\ req \in [Requests -> Request] /\ KnowsId(req[w])
  BY DEF IInv
<1>2. CASE InsertCombined(w)
  <2>1. PICK n \in Names :
          \/ /\ ~Taken(db, n)
             /\ db.combinedSeq < MaxCombineds
             /\ LET c == db.combinedSeq + 1 IN
                /\ Lock(w, [db EXCEPT !.combined[c] = n, !.combinedSeq = c])
                /\ req' = [req EXCEPT ![w].at = "insertMembers", ![w].id = c]
          \/ Lock(w, db) /\ Goto(w, "rollback")
    BY <1>2 DEF InsertCombined
  <2>2. CASE Lock(w, db) /\ Goto(w, "rollback")
    <3>1. "rollback" \in Places
      BY DEF Places, Writing, Locked
    <3>2. PICK r \in Request : r.at = "rollback" /\ req' = [req EXCEPT ![w] = r]
      BY <1>1, <2>2, <3>1, GotoMoves
    <3>3. QED
      BY <1>1, <2>2, <3>2, Begins DEF KnowsId
  <2>3. ASSUME ~(Lock(w, db) /\ Goto(w, "rollback")) PROVE IInv'
    <3> DEFINE c == db.combinedSeq + 1
               d == [db EXCEPT !.combined[c] = n, !.combinedSeq = c]
               r == [req[w] EXCEPT !.at = "insertMembers", !.id = c]
    <3>1. /\ ~Taken(db, n) /\ db.combinedSeq < MaxCombineds
          /\ Lock(w, d) /\ req' = [req EXCEPT ![w] = r]
      BY <1>1, <2>1, <2>3
    <3>2. c \in CombinedIds /\ Sound(d) /\ Filled(d, {c}) /\ d.member[c] = {}
      BY <1>1, <3>1, AddCombined
    <3>3. r \in Request /\ r.at = "insertMembers" /\ r.id = c
      BY <1>1, <3>2 DEF Request, Places, Writing, Locked
    <3>4. KnowsId(r)
      BY <3>2, <3>3 DEF KnowsId
    <3> HIDE DEF c, d, r
    <3>5. QED
      BY <3>1, <3>2, <3>3, <3>4, Begins
  <2>4. QED
    BY <2>2, <2>3
<1>3. CASE ClearMembers(w)
  <2> DEFINE c == req[w].id
             d == [db EXCEPT !.member[c] = {}]
  <2>1. c \in CombinedIds
    BY <1>1, <1>3 DEF ClearMembers, KnowsId
  <2>2. Sound(d) /\ Filled(d, {c}) /\ d.member[c] = {}
    BY <1>1, <2>1, EmptyMembers
  <2>3. "insertMembers" \in Places
    BY DEF Places, Writing, Locked
  <2>4. PICK r \in Request : /\ r.at = "insertMembers" /\ r.id = c
                             /\ req' = [req EXCEPT ![w] = r]
    BY <1>1, <1>3, <2>3, GotoMoves DEF ClearMembers
  <2>5. Lock(w, d) /\ KnowsId(r)
    BY <1>3, <2>1, <2>4 DEF ClearMembers, KnowsId
  <2> HIDE DEF d
  <2>6. QED
    BY <2>2, <2>4, <2>5, Begins
<1>4. QED
  BY <1>2, <1>3

\* Inside a transaction only its owner is.
LEMMA OwnerIsAlone ==
  ASSUME IInv, NEW w \in Requests, req[w].at \in Locked
  PROVE  writer = w /\ \A v \in Requests : v # w => req[v].at \notin Locked
BY DEF IInv, LockHeldInTransaction

\* insert_members_sql.
LEMMA InsertMembersStep == ASSUME IInv, NEW w \in Requests, InsertMembers(w) PROVE IInv'
<1> USE DEF At
<1> DEFINE c == req[w].id
<1>1. /\ Sound(tx) /\ Filled(tx, {c}) /\ tx.member[c] = {} /\ c \in CombinedIds
      /\ req \in [Requests -> Request]
  BY DEF IInv, InsertMembers, KnowsId, Uncommitted
<1>2. PICK p \in {"commit", "rollback"} :
        Goto(w, p) /\ Sound(tx') /\ (p = "commit" => Filled(tx', {}))
  <2>1. PICK ids \in SUBSET SourceIds :
          LET found == ids \cap tx.source IN
          IF c \in Combineds(tx)
          THEN /\ tx' = [tx EXCEPT !.member[c] = @ \cup found, !.asked[c] = found]
               /\ Goto(w, "commit")
          ELSE /\ UNCHANGED tx
               /\ Goto(w, IF found = {} THEN "commit" ELSE "rollback")
    BY DEF InsertMembers
  <2>2. CASE c \in Combineds(tx)
    <3> DEFINE found == ids \cap tx.source
               e == [tx EXCEPT !.member[c] = @ \cup found, !.asked[c] = found]
    <3>1. Sound(e) /\ Filled(e, {})
      BY <1>1, <2>2, FillMembers
    <3>2. tx' = e /\ Goto(w, "commit")
      BY <2>1, <2>2
    <3> HIDE DEF e
    <3>3. QED
      BY <3>1, <3>2
  <2>3. CASE c \notin Combineds(tx)
    <3>1. Filled(tx, {})
      BY <1>1, <2>3 DEF Filled, Combineds
    <3>2. QED
      BY <1>1, <2>1, <2>3, <3>1
  <2>4. QED
    BY <2>2, <2>3
<1>3. p \in Places
  BY <1>2 DEF Places, Writing, Locked
<1>4. PICK r \in Request : r.at = p /\ req' = [req EXCEPT ![w] = r]
  BY <1>1, <1>2, <1>3, GotoMoves
<1>5. /\ req' \in [Requests -> Request] /\ req'[w] = r
      /\ \A v \in Requests : v # w => req'[v] = req[v]
  BY <1>1, <1>4
<1>6. writer = w /\ (\A v \in Requests : v # w => req[v].at \notin Locked)
  BY OwnerIsAlone DEF InsertMembers, Locked
<1>7. LockHeldInTransaction'
  BY <1>2, <1>4, <1>5, <1>6, CatalogAssumption DEF LockHeldInTransaction, InsertMembers, Locked
<1>8. \A v \in Requests : KnowsId(req'[v]) /\ Uncommitted(v)'
  <2>1. ASSUME NEW v \in Requests, v # w PROVE KnowsId(req'[v]) /\ Uncommitted(v)'
    BY <1>5, <1>6, <2>1 DEF IInv, Uncommitted, Locked
  <2>2. KnowsId(req'[w]) /\ Uncommitted(w)'
    BY <1>2, <1>4, <1>5 DEF KnowsId, Uncommitted
  <2>3. QED
    BY <2>1, <2>2
<1>9. QED
  BY <1>2, <1>5, <1>7, <1>8 DEF IInv, InsertMembers

\* The end of a transaction: what it has filled becomes visible, or nothing of it.
LEMMA EndSteps == ASSUME IInv, NEW w \in Requests, Commit(w) \/ Rollback(w) PROVE IInv'
<1> USE DEF At
<1>1. /\ Sound(tx) /\ Sound(db) /\ Filled(db, {})
      /\ At(w, "commit") => Filled(tx, {})
      /\ req \in [Requests -> Request]
  BY DEF IInv, Uncommitted
<1>2. db' = tx' /\ writer' = Nobody /\ Sound(db') /\ Filled(db', {})
  BY <1>1 DEF Commit, Rollback
<1>3. PICK r \in Request : r.at \in {"readBack", "idle"} /\ req' = [req EXCEPT ![w] = r]
  <2>1. "readBack" \in Places
    BY DEF Places, Reading
  <2>2. QED
    BY <1>1, <2>1, GotoMoves, EndMoves DEF Commit, Rollback
<1>4. /\ req' \in [Requests -> Request] /\ req'[w] = r
      /\ \A v \in Requests : v # w => req'[v] = req[v]
  BY <1>1, <1>3
<1>5. \A v \in Requests : req'[v].at \notin Locked
  <2>1. \A v \in Requests : v # w => req[v].at \notin Locked
    BY OwnerIsAlone DEF Commit, Rollback, Locked
  <2>2. r.at \notin Locked
    BY <1>3 DEF Locked
  <2>3. QED
    BY <1>4, <2>1, <2>2
<1>6. LockHeldInTransaction'
  BY <1>2, <1>5, CatalogAssumption DEF LockHeldInTransaction
<1>7. \A v \in Requests : KnowsId(req'[v]) /\ Uncommitted(v)'
  <2>1. KnowsId(r)
    BY <1>3 DEF KnowsId
  <2>2. QED
    BY <1>4, <1>5, <2>1 DEF IInv, KnowsId, Uncommitted, Locked
<1>8. QED
  BY <1>2, <1>4, <1>6, <1>7 DEF IInv

\* A handler that fails or is dropped, inside a transaction or outside.
LEMMA AbandonStep == ASSUME IInv, NEW w \in Requests, Abandon(w) PROVE IInv'
<1>1. req \in [Requests -> Request]
  BY DEF IInv
<1>2. CASE req[w].at \notin Locked
  <2>1. PICK r \in Request : r.at = "idle" /\ req' = [req EXCEPT ![w] = r]
    BY <1>2, EndMoves DEF Abandon
  <2>2. QED
    BY <1>2, <2>1, Quiet DEF Abandon, KnowsId, Locked
<1>3. CASE req[w].at \in Locked
  <2>1. "rollback" \in Places
    BY DEF Places, Writing, Locked
  <2>2. PICK r \in Request : r.at = "rollback" /\ req' = [req EXCEPT ![w] = r]
    BY <1>1, <1>3, <2>1, GotoMoves DEF Abandon
  <2>3. /\ req' \in [Requests -> Request] /\ req'[w] = r
        /\ \A v \in Requests : v # w => req'[v] = req[v]
    BY <1>1, <2>2
  <2>4. writer = w /\ (\A v \in Requests : v # w => req[v].at \notin Locked)
    BY <1>3, OwnerIsAlone
  <2>5. LockHeldInTransaction'
    BY <2>2, <2>3, <2>4, CatalogAssumption DEF LockHeldInTransaction, Abandon, Locked
  <2>6. \A v \in Requests : KnowsId(req'[v]) /\ Uncommitted(v)'
    <3>1. ASSUME NEW v \in Requests, v # w PROVE KnowsId(req'[v]) /\ Uncommitted(v)'
      BY <2>3, <2>4, <3>1 DEF IInv, Abandon, Uncommitted, At, Locked
    <3>2. KnowsId(req'[w]) /\ Uncommitted(w)'
      BY <2>2, <2>3 DEF KnowsId, Uncommitted, At
    <3>3. QED
      BY <3>1, <3>2
  <2>7. QED
    BY <2>3, <2>5, <2>6 DEF IInv, Abandon
<1>4. QED
  BY <1>2, <1>3

\* The death of the process in any state.
LEMMA CrashStep == ASSUME IInv, Crash PROVE IInv'
<1>1. Idle \in Request
  BY SMT DEF Idle, Request, Places, NoId
<1>2. \A w \in Requests : req'[w].at = "idle"
  BY DEF Crash, Idle
<1>3. LockHeldInTransaction'
  BY <1>2, CatalogAssumption DEF Crash, LockHeldInTransaction, Locked
<1>4. \A w \in Requests : KnowsId(req'[w]) /\ Uncommitted(w)'
  BY <1>2 DEF KnowsId, Uncommitted, At
<1>5. QED
  BY <1>1, <1>3, <1>4 DEF IInv, Crash

\* No step breaks the invariant.
LEMMA NextIInv == IInv /\ [Next]_vars => IInv'
<1> SUFFICES ASSUME IInv, [Next]_vars PROVE IInv'
  OBVIOUS
<1>1. ASSUME NEW w \in Requests, Handler(w) PROVE IInv'
  BY <1>1, ReadSteps, WriteSteps, RenameStep, BeginSteps, InsertMembersStep, EndSteps,
    AbandonStep DEF Handler, Transact
<1>2. CASE Crash
  BY <1>2, CrashStep
<1>3. CASE UNCHANGED vars
  BY <1>3 DEF vars, IInv, LockHeldInTransaction, Uncommitted, At
<1>4. QED
  BY <1>1, <1>2, <1>3 DEF Next

\* The invariant holds of every behaviour.
LEMMA SpecIInv == Spec => []IInv
BY InitIInv, NextIInv, PTL DEF Spec

-----------------------------------------------------------------------------
\* The tables, the lock and the handlers' locals keep their types.
THEOREM CatalogTypeOK == Spec => []TypeOK
<1>1. IInv => TypeOK
  BY DEF IInv, TypeOK, Sound
<1>2. QED
  BY <1>1, SpecIInv, PTL

\* The write lock belongs to the one request inside a transaction, and what is
\* not committed is gone with it, through every failure, dropped request and
\* crash (combineds.rs create_combined and update_combined).
THEOREM LockIsHeldInTransaction == Spec => []LockHeldInTransaction
<1>1. IInv => LockHeldInTransaction
  BY DEF IInv
<1>2. QED
  BY <1>1, SpecIInv, PTL

\* No member list names a source, or belongs to a combined subscription, that
\* has been deleted (the cascades of db.rs:81).
THEOREM MembersAlwaysExist == Spec => []MembersExist
<1>1. IInv => MembersExist
  BY DEF IInv, Sound, MembersExist, Combineds
<1>2. QED
  BY <1>1, SpecIInv, PTL

\* GET /subscribe/{name} never has two combined subscriptions to choose from.
THEOREM NamesAlwaysUnique == Spec => []NamesUnique
<1>1. IInv => NamesUnique
  BY DEF IInv, Sound, NamesUnique, Combineds
<1>2. QED
  BY <1>1, SpecIInv, PTL

\* Readers never see a member list half replaced, or another one than asked
\* for (combineds.rs:132 and :202).
THEOREM MembersAlwaysAsAsked == Spec => []MembersAsAsked
<1>1. IInv => MembersAsAsked
  BY DEF IInv, Filled, MembersAsAsked, Combineds
<1>2. QED
  BY <1>1, SpecIInv, PTL
=============================================================================
