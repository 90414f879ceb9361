--------------------------- MODULE SubscribeProofs ---------------------------
(***************************************************************************)
(* Subscribe for any number of subscribers, administrators and rows.  Its  *)
(* two parts are Catalog and FetchPool as they are, so what is proved of   *)
(* them holds of it; the invariant here only says how the two keep step,   *)
(* and what a reader in the middle of its reads knows of the members.      *)
(***************************************************************************)
EXTENDS Subscribe, TLAPS

CP == INSTANCE CatalogProofs WITH Requests <- Readers \cup Writers

FP == INSTANCE FetchPoolProofs WITH
       Reqs <- Readers, Previews <- {}, Refreshers <- {}, Sources <- C!SourceIds,
       Selects <- [r \in Readers |-> SUBSET C!SourceIds]

Slots == Readers \cup Writers

-----------------------------------------------------------------------------
(* The modules with the proofs, CP and FP, instantiate the modules that    *)
(* Subscribe is made of, C and F, with the same parameters.                *)

\* The handlers that F names and those that FP names are the same.
LEMMA SameHandlers ==
  ASSUME NEW r \in Readers
  PROVE  /\ F!QueryRows(r) <=> FP!QueryRows(r)
         /\ F!QueryFails(r) <=> FP!QueryFails(r)
         /\ F!AcquireAndSpawn(r) <=> FP!AcquireAndSpawn(r)
         /\ F!AcquireWaits(r) <=> FP!AcquireWaits(r)
         /\ F!SpawnGranted(r) <=> FP!SpawnGranted(r)
         /\ F!SpawnLoopEnds(r) <=> FP!SpawnLoopEnds(r)
         /\ F!JoinNext(r) <=> FP!JoinNext(r)
         /\ F!Answer(r) <=> FP!Answer(r)
         /\ F!Close(r) <=> FP!Close(r)
         /\ F!SlotFree(r) <=> FP!SlotFree(r)
<1> USE DEF F!slots, FP!slots, F!Todo, FP!Todo, F!SpawnTask, FP!SpawnTask,
            F!Outcomes, FP!Outcomes, F!Answers, FP!Answers
<1>1. /\ F!QueryRows(r) <=> FP!QueryRows(r)
      /\ F!QueryFails(r) <=> FP!QueryFails(r)
  BY DEF F!QueryRows, FP!QueryRows, F!QueryFails, FP!QueryFails
<1>2. /\ F!AcquireAndSpawn(r) <=> FP!AcquireAndSpawn(r)
      /\ F!AcquireWaits(r) <=> FP!AcquireWaits(r)
      /\ F!SpawnGranted(r) <=> FP!SpawnGranted(r)
      /\ F!SpawnLoopEnds(r) <=> FP!SpawnLoopEnds(r)
  BY DEF F!AcquireAndSpawn, FP!AcquireAndSpawn, F!AcquireWaits, FP!AcquireWaits,
    F!SpawnGranted, FP!SpawnGranted, F!SpawnLoopEnds, FP!SpawnLoopEnds
<1>3. F!JoinNext(r) <=> FP!JoinNext(r)
  BY DEF F!JoinNext, FP!JoinNext, F!Yields, FP!Yields
<1>4. F!Answer(r) <=> FP!Answer(r)
  BY DEF F!Answer, FP!Answer, F!Verdicts, FP!Verdicts, F!Truncated, FP!Truncated
<1>5. /\ F!Close(r) <=> FP!Close(r)
      /\ F!SlotFree(r) <=> FP!SlotFree(r)
  BY DEF F!Close, FP!Close, F!Forget, FP!Forget, F!SlotFree, FP!SlotFree
<1> QED
  BY <1>1, <1>2, <1>3, <1>4, <1>5

\* So are a hang-up and the steps of a task.
LEMMA SameDrops ==
  ASSUME NEW r \in Readers
  PROVE  /\ F!Disconnect(r) <=> FP!Disconnect(r)
         /\ \A s \in C!SourceIds : F!TaskStep(r, s) <=> FP!TaskStep(r, s)
<1> USE DEF F!slots, FP!slots, F!GiveBack, FP!GiveBack
<1>1. F!LeaveSemaphore(r) <=> FP!LeaveSemaphore(r)
  <2>1. F!SelectInSeq(queue, LAMBDA v : v = r) = FP!SelectInSeq(queue, LAMBDA v : v = r)
    BY DEF F!SelectInSeq, FP!SelectInSeq, F!Min, FP!Min
  <2>2. F!RemoveFirst(queue, r) = FP!RemoveFirst(queue, r)
    BY <2>1 DEF F!RemoveFirst, FP!RemoveFirst, F!RemoveAt, FP!RemoveAt
  <2> QED
    BY <2>2 DEF F!LeaveSemaphore, FP!LeaveSemaphore
<1>2. F!Disconnect(r) <=> FP!Disconnect(r)
  BY <1>1 DEF F!Disconnect, FP!Disconnect, F!AbortAll, FP!AbortAll, F!Forget, FP!Forget
<1>3. ASSUME NEW s \in C!SourceIds
      PROVE  F!TaskStep(r, s) <=> FP!TaskStep(r, s)
  BY DEF F!TaskStep, FP!TaskStep, F!TaskEnds, FP!TaskEnds, F!Results, FP!Results,
    F!Outcomes, FP!Outcomes, F!AbortedTaskDropped, FP!AbortedTaskDropped
<1> QED
  BY <1>2, <1>3

\* So FetchPool, reached either way, is one specification.
LEMMA SamePool ==
  /\ F!Init <=> FP!Init
  /\ [F!Next]_fetching <=> [FP!Next]_FP!vars
<1>1. F!Init <=> FP!Init
  BY DEF F!Init, FP!Init, F!Permits, FP!Permits
<1>2. ASSUME NEW r \in Readers PROVE F!Handler(r) <=> FP!Handler(r)
  BY SameHandlers, SameDrops DEF F!Handler, FP!Handler
<1>3. F!Next <=> FP!Next
  BY <1>2, SameDrops DEF F!Next, FP!Next
<1> QED
  BY <1>1, <1>3 DEF FP!vars, fetching

\* The pool of connections is the same, reached through C or CP.
LEMMA SameFree == C!Free <=> CP!Free
<1> DEFINE writing == {w \in Slots : req[w].at \in C!Writing}
<1>1. \A S : C!Cardinality(S) = CP!Cardinality(S)
  BY DEF C!Cardinality, CP!Cardinality
<1>2. C!Cardinality(writing) = CP!Cardinality(writing)
  BY <1>1
<1>3. writing = {w \in Readers \cup Writers : req[w].at \in CP!Writing}
  BY DEF Slots, C!Writing, CP!Writing, C!Locked, CP!Locked
<1> HIDE DEF writing
<1> QED
  BY <1>2, <1>3 DEF writing, C!Free, CP!Free, Slots

\* So are the reads of a subscriber ...
LEMMA SameReads ==
  ASSUME NEW w \in Slots
  PROVE  /\ C!LookUp(w) <=> CP!LookUp(w)
         /\ C!ReadMembers(w) <=> CP!ReadMembers(w)
         /\ C!ReadRows(w) <=> CP!ReadRows(w)
         /\ C!RowsFail(w) <=> CP!RowsFail(w)
         /\ C!ReadTemplate(w) <=> CP!ReadTemplate(w)
         /\ C!Serve(w) <=> CP!Serve(w)
         /\ C!Abandon(w) <=> CP!Abandon(w)
<1> USE SameFree DEF C!At, CP!At, C!Goto, CP!Goto, C!End, CP!End, C!Idle, CP!Idle, C!NoId, CP!NoId,
            C!Locked, CP!Locked,
            C!Combineds, CP!Combineds, C!CombinedIds, CP!CombinedIds, C!NoName, CP!NoName
<1>1. /\ C!LookUp(w) <=> CP!LookUp(w)
      /\ C!ReadMembers(w) <=> CP!ReadMembers(w)
  BY DEF C!LookUp, CP!LookUp, C!ReadMembers, CP!ReadMembers
<1>2. /\ C!ReadRows(w) <=> CP!ReadRows(w)
      /\ C!RowsFail(w) <=> CP!RowsFail(w)
  BY DEF C!ReadRows, CP!ReadRows, C!RowsFail, CP!RowsFail
<1>3. /\ C!ReadTemplate(w) <=> CP!ReadTemplate(w)
      /\ C!Serve(w) <=> CP!Serve(w)
      /\ C!Abandon(w) <=> CP!Abandon(w)
  BY DEF C!ReadTemplate, CP!ReadTemplate, C!Serve, CP!Serve, C!Abandon, CP!Abandon
<1> QED
  BY <1>1, <1>2, <1>3

\* ... and the statements of the administrators.
LEMMA SameWrites ==
  ASSUME NEW w \in Slots
  PROVE  /\ C!Acquire(w) <=> CP!Acquire(w)
         /\ C!InsertSource(w) <=> CP!InsertSource(w)
         /\ C!DeleteSource(w) <=> CP!DeleteSource(w)
         /\ C!InsertCombined(w) <=> CP!InsertCombined(w)
         /\ C!SelectCombined(w) <=> CP!SelectCombined(w)
         /\ C!Rename(w) <=> CP!Rename(w)
         /\ C!ClearMembers(w) <=> CP!ClearMembers(w)
         /\ C!InsertMembers(w) <=> CP!InsertMembers(w)
         /\ C!Commit(w) <=> CP!Commit(w)
         /\ C!ReadBack(w) <=> CP!ReadBack(w)
         /\ C!DeleteCombined(w) <=> CP!DeleteCombined(w)
         /\ C!Rollback(w) <=> CP!Rollback(w)
<1> USE SameFree DEF C!At, CP!At, C!Goto, CP!Goto, C!End, CP!End, C!Idle, CP!Idle, C!NoId, CP!NoId,
            C!Locked, CP!Locked, C!Write, CP!Write,
            C!Lock, CP!Lock, C!Nobody, CP!Nobody, C!NoName, CP!NoName,
            C!Combineds, CP!Combineds, C!CombinedIds, CP!CombinedIds,
            C!SourceIds, CP!SourceIds, C!Taken, CP!Taken
<1>1. /\ C!Acquire(w) <=> CP!Acquire(w)
      /\ C!SelectCombined(w) <=> CP!SelectCombined(w)
      /\ C!ReadBack(w) <=> CP!ReadBack(w)
  BY DEF C!Acquire, CP!Acquire, C!Acquires, CP!Acquires, C!SelectCombined, CP!SelectCombined,
    C!ReadBack, CP!ReadBack
<1>2. /\ C!InsertSource(w) <=> CP!InsertSource(w)
      /\ C!DeleteSource(w) <=> CP!DeleteSource(w)
  BY DEF C!InsertSource, CP!InsertSource, C!NextSourceId, CP!NextSourceId,
    C!DeleteSource, CP!DeleteSource, C!DropSource, CP!DropSource
<1>3. C!InsertCombined(w) <=> CP!InsertCombined(w)
  BY DEF C!InsertCombined, CP!InsertCombined
<1>4. C!Rename(w) <=> CP!Rename(w)
  BY DEF C!Rename, CP!Rename
<1>5. /\ C!ClearMembers(w) <=> CP!ClearMembers(w)
      /\ C!InsertMembers(w) <=> CP!InsertMembers(w)
  BY DEF C!ClearMembers, CP!ClearMembers, C!InsertMembers, CP!InsertMembers
<1>6. /\ C!Commit(w) <=> CP!Commit(w)
      /\ C!Rollback(w) <=> CP!Rollback(w)
  BY DEF C!Commit, CP!Commit, C!Rollback, CP!Rollback
<1>7. C!DeleteCombined(w) <=> CP!DeleteCombined(w)
  BY DEF C!DeleteCombined, CP!DeleteCombined, C!Unfilled, CP!Unfilled
<1> QED
  BY <1>1, <1>2, <1>3, <1>4, <1>5, <1>6, <1>7

-----------------------------------------------------------------------------
\* Every step of Subscribe is a step of FetchPool or leaves it alone ...
LEMMA PoolStep == [Next]_vars => [FP!Next]_FP!vars
<1> SUFFICES ASSUME [Next]_vars PROVE [F!Next]_fetching
  BY SamePool
<1>1. ASSUME NEW r \in Readers, \/ Read(r) \/ SelectRows(r) \/ Fetch(r) \/ Close(r)
                                \/ AnswerClash(r) \/ CloseClash(r) \/ HangUp(r)
      PROVE  F!Handler(r) \/ UNCHANGED fetching
  BY <1>1 DEF Read, SelectRows, Fetch, Close, AnswerClash, CloseClash, HangUp, F!Handler
<1>2. ASSUME NEW r \in Readers, NEW s \in C!SourceIds, TaskStep(r, s)
      PROVE  F!TaskStep(r, s)
  BY <1>2 DEF TaskStep
<1>3. ASSUME NEW w \in Writers, Administer(w)
      PROVE  UNCHANGED fetching
  BY <1>3 DEF Administer
<1>4. CASE PutTemplate \/ UNCHANGED vars
  BY <1>4 DEF PutTemplate, vars
<1> QED
  BY <1>1, <1>2, <1>3, <1>4 DEF Next, Step, F!Next

\* ... and a step of Catalog or leaves that alone.
LEMMA TablesStep == [Next]_vars => [CP!Next]_CP!vars
<1> SUFFICES ASSUME [Next]_vars PROVE [CP!Next]_tables
  BY DEF CP!vars, tables
<1>1. ASSUME NEW r \in Readers, \/ Read(r) \/ SelectRows(r) \/ Fetch(r) \/ Close(r)
                                \/ AnswerClash(r) \/ CloseClash(r) \/ HangUp(r)
      PROVE  CP!Handler(r) \/ UNCHANGED tables
  BY <1>1, SameReads DEF Read, SelectRows, Fetch, Close, AnswerClash, CloseClash, HangUp,
    CP!Handler, Slots
<1>2. ASSUME NEW r \in Readers, NEW s \in C!SourceIds, TaskStep(r, s)
      PROVE  UNCHANGED tables
  BY <1>2 DEF TaskStep
<1>3. ASSUME NEW w \in Writers, Administer(w)
      PROVE  CP!Handler(w)
  BY <1>3, SameReads, SameWrites DEF Administer, CP!Handler, CP!Transact, Slots
<1>4. CASE PutTemplate \/ UNCHANGED vars
  BY <1>4 DEF PutTemplate, vars
<1> QED
  BY <1>1, <1>2, <1>3, <1>4 DEF Next, Step, CP!Next, Slots

\* The constants are such as FetchPool and Catalog assume.
LEMMA PoolAssumption ==
  /\ FP!IsFiniteSet(Readers) /\ FP!IsFiniteSet(C!SourceIds)
  /\ {} \subseteq Readers
  /\ Singles \subseteq C!SourceIds
  /\ QueryError \notin C!SourceIds
  /\ [r \in Readers |-> SUBSET C!SourceIds] \in [Readers -> SUBSET SUBSET C!SourceIds]
  /\ Concurrency \in Nat
  /\ MaxNodes \in Nat
<1>1. FP!IsFiniteSet(1 .. MaxSources)
  <2>1. MaxSources \in Nat
    BY SubscribeAssumption
  <2>2. 1 \in Int /\ MaxSources \in Int
    BY <2>1
  <2> QED
    BY <2>2, FP!FS_Interval, Zenon
<1>2. FP!IsFiniteSet(Readers)
  BY SubscribeAssumption DEF FP!IsFiniteSet, IsFiniteSet
<1> QED
  BY <1>1, <1>2, SubscribeAssumption DEF C!SourceIds

\* The merge of a subscription is the merge that FetchPool describes, fed by
\* the catalog and cut off by hang-ups.
THEOREM ImplementsFetchPool == Spec => F!Spec
<1>1. Init => F!Init
  BY DEF Init
<1>2. [Next]_vars => [F!Next]_fetching
  BY PoolStep, SamePool
<1> QED
  BY <1>1, <1>2, PTL DEF Spec, F!Spec, F!vars, fetching

\* The tables, transactions and locks are Catalog's.
THEOREM ImplementsCatalog == Spec => C!Spec
<1>1. Init => C!Init
  BY DEF Init
<1>2. [Next]_vars => [C!Next]_tables
  <2> SUFFICES ASSUME [Next]_vars PROVE [C!Next]_tables
    OBVIOUS
  <2>1. ASSUME NEW r \in Readers, \/ Read(r) \/ SelectRows(r) \/ Fetch(r) \/ Close(r)
                                  \/ AnswerClash(r) \/ CloseClash(r) \/ HangUp(r)
        PROVE  C!Handler(r) \/ UNCHANGED tables
    BY <2>1 DEF Read, SelectRows, Fetch, Close, AnswerClash, CloseClash, HangUp, C!Handler
  <2>2. ASSUME NEW r \in Readers, NEW s \in C!SourceIds, TaskStep(r, s)
        PROVE  UNCHANGED tables
    BY <2>2 DEF TaskStep
  <2>3. ASSUME NEW w \in Writers, Administer(w)
        PROVE  C!Handler(w)
    BY <2>3 DEF Administer, C!Handler, C!Transact
  <2>4. CASE PutTemplate \/ UNCHANGED vars
    BY <2>4 DEF PutTemplate, vars
  <2> QED
    BY <2>1, <2>2, <2>3, <2>4 DEF Next, Step, C!Next
<1> QED
  BY <1>1, <1>2, PTL DEF Spec, C!Spec, C!vars, tables

\* What is proved of the merge and of the tables holds here.
LEMMA PoolInvariant == Spec => []FP!MInv
<1>1. Init => FP!Init
  BY SamePool DEF Init
<1>2. Spec => FP!Spec
  BY <1>1, PoolStep, PTL DEF Spec, FP!Spec
<1>3. FP!Spec => []FP!MInv
  BY FP!SpecMInv, PoolAssumption, PTL
<1> QED
  BY <1>2, <1>3, PTL

\* Catalog's constants.
LEMMA TablesAssumption ==
  /\ CP!Nobody \notin Readers \cup Writers
  /\ CP!NoName \notin Names
  /\ MaxSources \in Nat
  /\ MaxCombineds \in Nat
  /\ MaxConnections \in Nat \ {0}
BY SubscribeAssumption DEF CP!Nobody, CP!NoName

\* The tables are in order at every moment.
LEMMA TablesInvariant == Spec => []CP!IInv
<1>1. Init => CP!Init
  BY DEF Init, C!Init, CP!Init, C!CombinedIds, CP!CombinedIds, C!NoName, CP!NoName,
    C!Unfilled, CP!Unfilled, C!Nobody, CP!Nobody, C!Idle, CP!Idle, C!NoId, CP!NoId
<1>2. Spec => CP!Spec
  BY <1>1, TablesStep, PTL DEF Spec, CP!Spec
<1>3. CP!Spec => []CP!IInv
  BY CP!SpecIInv, TablesAssumption, PTL
<1> QED
  BY <1>2, <1>3, PTL

-----------------------------------------------------------------------------
\* How a reader's two slots keep step.
InStep(r) ==
  /\ req[r].at \in {"idle", "named", "members", "served"}
  /\ req[r].at # "idle" => req[r].id \in C!CombinedIds
  /\ phase[r] = "dropped" => req[r].at = "idle"
  /\ phase[r] \notin {"idle", "dropped"} => req[r].at = "served"
  /\ clash[r] # NoAnswer => req[r].at = "served" /\ phase[r] = "idle"

\* What the reads so far have to do with the members: those that have been
\* members throughout are members now, and were when the ids were read.
Knows(r) ==
  /\ req[r].at # "idle" => steady[r] \subseteq Members(r) /\ Members(r) \subseteq ever[r]
  /\ req[r].at = "members" => steady[r] \subseteq req[r].ids /\ req[r].ids \subseteq ever[r]
  /\ phase[r] \notin {"idle", "dropped"} =>
       \/ errors[r] = {QueryError} /\ rows[r] = {}
       \/ steady[r] \subseteq rows[r] /\ rows[r] \subseteq ever[r]

\* What the sections of a Clash answer may be.
Served == (Sections \cup System \cup {"500"}) \X {"system", "template", "error"}

\* The inductive invariant, beside CP!IInv and FP!MInv.
SInv ==
  /\ template \in Texts /\ template.root = "mapping"
  /\ clash \in [Readers -> SUBSET Served]
  /\ ClashServed
  /\ \A r \in Readers : InStep(r) /\ Knows(r)

\* A step that is not about what r reads: r may at most fetch on.
Stays(r) ==
  /\ req'[r] = req[r] /\ clash'[r] = clash[r] /\ rows'[r] = rows[r]
  /\ \/ phase'[r] = phase[r]
     \/ phase[r] \notin {"idle", "dropped"} /\ phase'[r] \notin {"idle", "dropped"}
     \/ phase[r] = "dropped" /\ phase'[r] = "idle"
  /\ errors'[r] = errors[r] \/ rows[r] # {}

\* What Watch records of a reader that has found its row, and of one that
\* finds it now.
LEMMA Watching ==
  ASSUME Watch, NEW r \in Readers, req'[r].at # "idle"
  PROVE  /\ steady'[r] \subseteq Members(r)' /\ Members(r)' \subseteq ever'[r]
         /\ req[r].at # "idle" => steady'[r] \subseteq steady[r] /\ ever[r] \subseteq ever'[r]
BY DEF Watch

\* What a reader knows stays true while others move: a member that is taken
\* away is no longer steady.
LEMMA StaysRight ==
  ASSUME Watch, NEW r \in Readers, InStep(r), Knows(r), Stays(r)
  PROVE  InStep(r)' /\ Knows(r)'
<1>1. InStep(r)'
  BY DEF InStep, Stays
<1>2. Knows(r)'
  BY Watching DEF InStep, Knows, Stays
<1> QED
  BY <1>1, <1>2

\* The pool never touches another request than the one that moves, but for
\* the permit it hands on.
LEMMA OthersFetchOn ==
  ASSUME FP!MInv, NEW r \in Readers,
         FP!Handler(r) \/ \E s \in C!SourceIds : FP!TaskStep(r, s),
         NEW q \in Readers \ {r}, req'[q] = req[q], clash'[q] = clash[q]
  PROVE  Stays(q)
<1>1. FP!Untouched(q)
  BY PoolAssumption, FP!PhaseSteps, FP!SpawnStep, FP!JoinStep, FP!AnswerStep, FP!EmptyStep,
    FP!TaskMerged DEF FP!Handler
<1> QED
  BY <1>1 DEF Stays, FP!Untouched, FP!Undisturbed

\* Once its rows are there a request fetches on by itself.
LEMMA FetchesOn ==
  ASSUME FP!MInv, NEW r \in Readers, Fetch(r) \/ \E s \in C!SourceIds : TaskStep(r, s)
  PROVE  Stays(r)
<1>1. /\ phase \in [Readers -> FP!Phases]
      /\ errors \in [Readers -> SUBSET (C!SourceIds \cup {QueryError})]
      /\ joinset \in [Readers -> SUBSET C!SourceIds]
      /\ FP!Merged(r)
  BY DEF FP!MInv, FP!IInv, FP!TypeOK
<1>2. req'[r] = req[r] /\ clash'[r] = clash[r] /\ rows'[r] = rows[r]
  BY SameHandlers, SameDrops DEF Fetch, TaskStep, tables, own, FP!AcquireAndSpawn,
    FP!AcquireWaits, FP!SpawnGranted, FP!SpawnLoopEnds, FP!JoinNext, FP!Answer, FP!SlotFree,
    FP!TaskStep, FP!TaskEnds, FP!AbortedTaskDropped
<1>3. CASE FP!AcquireAndSpawn(r) \/ FP!AcquireWaits(r) \/ FP!SpawnGranted(r)
             \/ FP!SpawnLoopEnds(r)
  BY <1>1, <1>2, <1>3 DEF Stays, FP!AcquireAndSpawn, FP!AcquireWaits, FP!SpawnGranted,
    FP!SpawnLoopEnds, FP!SpawnTask
<1>4. CASE FP!JoinNext(r)
  BY <1>1, <1>2, <1>4 DEF Stays, FP!JoinNext, FP!Merged
<1>5. CASE FP!Answer(r) \/ FP!SlotFree(r)
  BY <1>1, <1>2, <1>5 DEF Stays, FP!Answer, FP!SlotFree, FP!Verdicts
<1>6. ASSUME NEW s \in C!SourceIds, FP!TaskStep(r, s)
      PROVE  Stays(r)
  <2>1. FP!GiveBack(phase) /\ UNCHANGED errors
    BY <1>6 DEF FP!TaskStep, FP!TaskEnds, FP!AbortedTaskDropped
  <2>2. FP!Undisturbed(r)
    BY <2>1, PoolAssumption, FP!GiveBackKeepsHandlers DEF FP!MInv, FP!IInv
  <2> QED
    BY <1>2, <2>1, <2>2 DEF Stays, FP!Undisturbed
<1> QED
  BY <1>3, <1>4, <1>5, <1>6, SameHandlers, SameDrops DEF Fetch, TaskStep

\* The statements of a reader write no table and move no other slot.
LEMMA ReadersOnlyRead ==
  ASSUME NEW r \in Readers, req \in [Slots -> CP!Request],
         \/ C!LookUp(r) \/ C!ReadMembers(r) \/ C!ReadRows(r) \/ C!RowsFail(r)
         \/ C!ReadTemplate(r) \/ C!Serve(r) \/ C!Abandon(r)
  PROVE  /\ db' = db
         /\ \A q \in Slots \ {r} : req'[q] = req[q]
BY DEF C!LookUp, C!ReadMembers, C!ReadRows, C!RowsFail, C!ReadTemplate, C!Serve, C!Abandon,
  C!Goto, C!End

\* A handler of an administrator moves no reader's slot.
LEMMA AdministratorsAlone ==
  ASSUME NEW w \in Writers, Administer(w), req \in [Slots -> CP!Request], NEW q \in Readers
  PROVE  req'[q] = req[q]
<1>1. q # w
  BY SubscribeAssumption
<1>2. CASE C!Acquire(w) \/ C!InsertSource(w) \/ C!DeleteSource(w) \/ C!InsertCombined(w)
             \/ C!SelectCombined(w) \/ C!Rename(w)
  BY <1>1, <1>2 DEF C!Acquire, C!InsertSource, C!DeleteSource, C!InsertCombined,
    C!SelectCombined, C!Rename, C!Goto, C!End, Slots
<1>3. CASE C!ClearMembers(w) \/ C!InsertMembers(w) \/ C!Commit(w) \/ C!ReadBack(w)
             \/ C!DeleteCombined(w) \/ C!Abandon(w) \/ C!Rollback(w)
  BY <1>1, <1>3 DEF C!ClearMembers, C!InsertMembers, C!Commit, C!ReadBack,
    C!DeleteCombined, C!Abandon, C!Rollback, C!Goto, C!End, Slots
<1> QED
  BY <1>2, <1>3 DEF Administer

\* No reader disturbs what another knows ...
LEMMA ReadersStay ==
  ASSUME FP!MInv, req \in [Slots -> CP!Request], clash \in [Readers -> SUBSET Served],
         NEW r \in Readers,
         \/ Read(r) \/ SelectRows(r) \/ Fetch(r) \/ Close(r)
         \/ AnswerClash(r) \/ CloseClash(r) \/ HangUp(r)
         \/ \E s \in C!SourceIds : TaskStep(r, s),
         NEW q \in Readers \ {r}
  PROVE  Stays(q)
<1>1. req'[q] = req[q]
  BY ReadersOnlyRead DEF Read, SelectRows, Fetch, Close, AnswerClash, CloseClash, HangUp,
    TaskStep, tables, Slots
<1>2. clash'[q] = clash[q]
  BY DEF Read, SelectRows, Fetch, Close, AnswerClash, CloseClash, HangUp, TaskStep, own
<1>3. \/ UNCHANGED fetching
      \/ FP!Handler(r)
      \/ \E s \in C!SourceIds : FP!TaskStep(r, s)
  BY SameHandlers, SameDrops DEF Read, SelectRows, Fetch, Close, AnswerClash, CloseClash,
    HangUp, TaskStep, FP!Handler
<1>4. CASE UNCHANGED fetching
  BY <1>1, <1>2, <1>4 DEF fetching, Stays
<1> QED
  BY <1>1, <1>2, <1>3, <1>4, OthersFetchOn

\* ... and no administrator anybody's: what changes under a reader are the
\* tables and the template.
LEMMA AdministratorsStay ==
  ASSUME req \in [Slots -> CP!Request], NEW q \in Readers,
         (\E w \in Writers : Administer(w)) \/ PutTemplate \/ UNCHANGED vars
  PROVE  Stays(q)
<1>1. req'[q] = req[q]
  BY AdministratorsAlone DEF PutTemplate, vars, tables
<1> QED
  BY <1>1 DEF Administer, PutTemplate, vars, fetching, own, Stays

-----------------------------------------------------------------------------
\* The reader's own steps.  Its first two reads: the row of the name, whose
\* members are watched from here on, and the ids that are members now.
LEMMA ReadStep ==
  ASSUME CP!IInv, FP!MInv, Watch, NEW r \in Readers, InStep(r), Knows(r), Read(r)
  PROVE  InStep(r)' /\ Knows(r)'
<1>1. /\ req \in [Slots -> CP!Request] /\ phase' = phase /\ clash' = clash
      /\ phase[r] \in {"idle", "dropped"} => phase'[r] \in {"idle", "dropped"}
  BY DEF CP!IInv, Slots, Read, fetching, own
<1>2. CASE C!LookUp(r) /\ phase[r] = "idle"
  <2>1. \E c \in C!CombinedIds : /\ req'[r].at = "named" /\ req'[r].id = c
    BY <1>1, <1>2 DEF C!LookUp, C!Combineds, Slots, CP!Request
  <2>2. req[r].at = "idle"
    BY <1>2 DEF C!LookUp, C!At
  <2> QED
    BY <1>1, <1>2, <2>1, <2>2, Watching DEF InStep, Knows
<1>3. CASE C!ReadMembers(r)
  <2>1. /\ req[r].at = "named" /\ req'[r].at = "members" /\ req'[r].id = req[r].id
        /\ req'[r].ids = Members(r) /\ db' = db
    BY <1>1, <1>3 DEF C!ReadMembers, C!At, Slots, CP!Request, Members
  <2>2. Members(r)' = Members(r)
    BY <2>1 DEF Members
  <2>3. phase[r] \in {"idle", "dropped"}
    BY <2>1 DEF InStep
  <2> QED
    BY <1>1, <2>1, <2>2, <2>3, Watching DEF InStep, Knows
<1> QED
  BY <1>2, <1>3 DEF Read

\* Its SELECT: ids that are no rows any more are none of those that have been
\* members throughout.
LEMMA SelectRowsStep ==
  ASSUME CP!IInv, FP!MInv, Watch, NEW r \in Readers, InStep(r), Knows(r), SelectRows(r)
  PROVE  InStep(r)' /\ Knows(r)'
<1>1. /\ req \in [Slots -> CP!Request] /\ clash' = clash
      /\ phase \in [Readers -> FP!Phases] /\ rows \in [Readers -> SUBSET C!SourceIds]
      /\ errors \in [Readers -> SUBSET (C!SourceIds \cup {QueryError})]
  BY DEF CP!IInv, FP!MInv, FP!IInv, FP!TypeOK, Slots, SelectRows, own
<1>2. /\ req[r].at = "members" /\ req'[r].at = "served" /\ req'[r].id = req[r].id
      /\ db' = db
  BY <1>1 DEF SelectRows, C!ReadRows, C!RowsFail, C!At, Slots, CP!Request
<1>3. /\ phase[r] = "idle" /\ phase'[r] = "spawning"
  BY <1>1 DEF SelectRows, F!QueryRows, F!QueryFails
<1>4. Members(r)' = Members(r) /\ Members(r) \subseteq db.source
  <2>1. req[r].id \in CP!CombinedIds
    BY <1>2 DEF InStep, C!CombinedIds, CP!CombinedIds
  <2> QED
    BY <1>2, <2>1 DEF Members, CP!IInv, CP!Sound
<1>5. steady'[r] \subseteq steady[r] /\ ever[r] \subseteq ever'[r]
  BY <1>2, Watching
<1>6. \/ errors'[r] = {QueryError} /\ rows'[r] = {}
      \/ steady'[r] \subseteq rows'[r] /\ rows'[r] \subseteq ever'[r]
  <2>1. CASE C!ReadRows(r) /\ rows'[r] = req'[r].ids
    <3>1. req'[r].ids = req[r].ids \cap db.source
      BY <1>1, <2>1 DEF C!ReadRows, Slots, CP!Request
    <3> QED
      BY <1>2, <1>4, <1>5, <2>1, <3>1 DEF Knows
  <2>2. CASE F!QueryFails(r)
    <3>1. rows[r] = {}
      BY <1>3 DEF FP!MInv, FP!Merged
    <3> QED
      BY <1>1, <2>2, <3>1 DEF F!QueryFails
  <2> QED
    BY <2>1, <2>2 DEF SelectRows
<1>7. InStep(r)'
  BY <1>1, <1>2, <1>3 DEF InStep
<1> QED
  BY <1>2, <1>3, <1>6, <1>7, Watching DEF Knows

\* Its last steps: the Clash answer, the end of either, and the hang-up.
LEMMA EndingSteps ==
  ASSUME CP!IInv, FP!MInv, Watch, NEW r \in Readers, InStep(r), Knows(r),
         clash \in [Readers -> SUBSET Served],
         AnswerClash(r) \/ Close(r) \/ CloseClash(r) \/ HangUp(r)
  PROVE  InStep(r)' /\ Knows(r)'
<1>1. /\ req \in [Slots -> CP!Request] /\ phase \in [Readers -> FP!Phases]
      /\ FP!TypeOK /\ FP!SlotsOK
  BY DEF CP!IInv, FP!MInv, FP!IInv, FP!TypeOK, FP!SlotsOK, Slots
<1>2. CASE AnswerClash(r)
  <2>1. /\ req[r].at = "members" /\ req'[r].at = "served" /\ req'[r].id = req[r].id
        /\ db' = db /\ phase' = phase
    BY <1>1, <1>2 DEF AnswerClash, C!ReadTemplate, C!At, C!Goto, Slots, CP!Request, fetching
  <2>2. phase[r] = "idle"
    BY <1>1, <2>1 DEF InStep
  <2> QED
    BY <2>1, <2>2, Watching DEF InStep, Knows
<1>3. ASSUME req'[r].at = "idle", phase'[r] \in {"idle", "dropped"}, clash'[r] = NoAnswer
      PROVE  InStep(r)' /\ Knows(r)'
  BY <1>3 DEF InStep, Knows
<1>4. CASE Close(r)
  <2>1. req'[r].at = "idle" /\ clash' = clash
    BY <1>1, <1>4 DEF Close, C!Serve, C!End, C!Idle, Slots, CP!Request, own
  <2>2. phase[r] \in FP!Answers /\ phase'[r] = "idle"
    BY <1>1, <1>4 DEF Close, F!Close, F!Answers, FP!Answers
  <2> QED
    BY <1>3, <2>1, <2>2 DEF InStep, FP!Answers
<1>5. CASE CloseClash(r)
  <2>1. req'[r].at = "idle" /\ clash'[r] = NoAnswer /\ phase' = phase
    BY <1>1, <1>5 DEF CloseClash, C!Serve, C!End, C!Idle, Slots, CP!Request, fetching
  <2>2. phase[r] = "idle"
    BY <1>5 DEF CloseClash, InStep
  <2> QED
    BY <1>3, <2>1, <2>2
<1>6. CASE HangUp(r)
  <2>1. req'[r].at = "idle" /\ clash'[r] = NoAnswer
    BY <1>1, <1>6 DEF HangUp, C!Abandon, C!End, C!Idle, C!Locked, Slots, CP!Request, own, InStep
  <2>2. phase'[r] \in {"idle", "dropped"}
    <3>1. CASE phase[r] = "idle"
      BY <1>6, <3>1 DEF HangUp, fetching
    <3>2. CASE FP!Disconnect(r)
      BY <1>1, <3>2, PoolAssumption, FP!LeavingHandlers DEF FP!Disconnect
    <3> QED
      BY <1>6, <3>1, <3>2, SameDrops DEF HangUp
  <2> QED
    BY <1>3, <2>1, <2>2
<1> QED
  BY <1>2, <1>4, <1>5, <1>6

-----------------------------------------------------------------------------
\* What is served of a template that PUT accepts: sections with an author,
\* the system's own each once.
LEMMA Serialized ==
  ASSUME template \in Texts, template.root = "mapping"
  PROVE  /\ SerializeClash(template) \subseteq Served
         /\ \A k \in System :
              {part \in SerializeClash(template) : part[1] = k} = {<<k, "system">>}
<1> DEFINE ours == System \X {"system"}
           theirs == (template.keys \ System) \X {"template"}
<1>1. SerializeClash(template) = ours \cup theirs
  BY DEF SerializeClash
<1>2. template.keys \subseteq Sections
  BY DEF Texts
<1>3. \A p \in ours : p[1] \in System /\ p = <<p[1], "system">>
  OBVIOUS
<1>4. \A p \in theirs : p[1] \in template.keys \ System /\ p = <<p[1], "template">>
  OBVIOUS
<1>5. ours \subseteq Served /\ theirs \subseteq Served
  BY <1>2 DEF Served
<1>6. \A k \in System : <<k, "system">> \in ours /\ <<k, "system">>[1] = k
  OBVIOUS
<1> HIDE DEF ours, theirs
<1> QED
  BY <1>1, <1>3, <1>4, <1>5, <1>6

\* The template that is stored has a mapping for its root, and every Clash
\* answer was made of such a one.
LEMMA TemplateStep ==
  ASSUME SInv, Next
  PROVE  /\ template' \in Texts /\ template'.root = "mapping"
         /\ clash' \in [Readers -> SUBSET Served]
         /\ ClashServed'
<1>1. CASE PutTemplate
  BY <1>1 DEF PutTemplate, Accepts, SInv, ClashServed
<1>2. ASSUME NEW r \in Readers, AnswerClash(r)
      PROVE  /\ template' \in Texts /\ template'.root = "mapping"
             /\ clash' \in [Readers -> SUBSET Served]
             /\ ClashServed'
  <2>1. /\ clash' = [clash EXCEPT ![r] = SerializeClash(template)] /\ template' = template
        /\ clash \in [Readers -> SUBSET Served]
    BY <1>2 DEF AnswerClash, SInv
  <2>2. /\ SerializeClash(template) \subseteq Served
        /\ \A k \in System :
             {part \in SerializeClash(template) : part[1] = k} = {<<k, "system">>}
    BY Serialized DEF SInv
  <2>3. clash' \in [Readers -> SUBSET Served]
    BY <2>1, <2>2
  <2>4. ClashServed'
    BY <2>1, <2>2 DEF SInv, ClashServed
  <2> QED
    BY <2>1, <2>3, <2>4 DEF SInv
<1>3. ASSUME NEW r \in Readers, CloseClash(r)
      PROVE  /\ template' \in Texts /\ template'.root = "mapping"
             /\ clash' \in [Readers -> SUBSET Served]
             /\ ClashServed'
  BY <1>3 DEF CloseClash, SInv, ClashServed, NoAnswer
<1>4. CASE UNCHANGED own
  BY <1>4 DEF own, SInv, ClashServed
<1> QED
  BY <1>1, <1>2, <1>3, <1>4 DEF Next, Step, Read, SelectRows, Fetch, Close, HangUp, TaskStep,
    Administer

\* The invariant holds before the first request ...
LEMMA InitSInv == Init => SInv
<1> SUFFICES ASSUME Init PROVE SInv
  OBVIOUS
<1>1. template \in Texts /\ template.root = "mapping"
  BY DEF Init, DefaultTemplate, Texts
<1>2. /\ clash \in [Readers -> SUBSET Served]
      /\ \A r \in Readers : clash[r] = NoAnswer
  BY DEF Init, NoAnswer
<1>3. ClashServed
  BY <1>2 DEF ClashServed
<1>4. ASSUME NEW r \in Readers PROVE req[r].at = "idle" /\ phase[r] = "idle"
  BY DEF Init, C!Init, C!Idle, F!Init
<1> QED
  BY <1>1, <1>2, <1>3, <1>4 DEF SInv, InStep, Knows

\* ... and every step keeps it, for the reader that moves and for the others.
LEMMA NextSInv == SInv /\ CP!IInv /\ FP!MInv /\ [Next]_vars => SInv'
<1> SUFFICES ASSUME SInv, CP!IInv, FP!MInv, [Next]_vars PROVE SInv'
  OBVIOUS
<1>1. CASE UNCHANGED vars
  BY <1>1 DEF vars, tables, fetching, own, SInv, InStep, Knows, ClashServed, Members
<1>2. CASE Next
  <2>1. /\ req \in [Slots -> CP!Request] /\ clash \in [Readers -> SUBSET Served] /\ Watch
        /\ \A q \in Readers : InStep(q) /\ Knows(q)
    BY <1>2 DEF CP!IInv, SInv, Next, Slots
  <2>2. ASSUME NEW q \in Readers, Stays(q) PROVE InStep(q)' /\ Knows(q)'
    BY <2>1, <2>2, StaysRight
  <2>3. ASSUME NEW r \in Readers,
               \/ Read(r) \/ SelectRows(r) \/ Fetch(r) \/ Close(r)
               \/ AnswerClash(r) \/ CloseClash(r) \/ HangUp(r)
               \/ \E s \in C!SourceIds : TaskStep(r, s)
        PROVE  \A q \in Readers : InStep(q)' /\ Knows(q)'
    <3>1. ASSUME NEW q \in Readers \ {r} PROVE InStep(q)' /\ Knows(q)'
      BY <2>1, <2>2, <2>3, ReadersStay
    <3>2. InStep(r)' /\ Knows(r)'
      <4>1. CASE Read(r)
        BY <2>1, <4>1, ReadStep
      <4>2. CASE SelectRows(r)
        BY <2>1, <4>2, SelectRowsStep
      <4>3. CASE Fetch(r) \/ \E s \in C!SourceIds : TaskStep(r, s)
        BY <2>2, <4>3, FetchesOn
      <4>4. CASE AnswerClash(r) \/ Close(r) \/ CloseClash(r) \/ HangUp(r)
        BY <2>1, <4>4, EndingSteps
      <4> QED
        BY <2>3, <4>1, <4>2, <4>3, <4>4
    <3> QED
      BY <3>1, <3>2
  <2>4. ASSUME (\E w \in Writers : Administer(w)) \/ PutTemplate
        PROVE  \A q \in Readers : InStep(q)' /\ Knows(q)'
    BY <2>1, <2>2, <2>4, AdministratorsStay
  <2>5. \A q \in Readers : InStep(q)' /\ Knows(q)'
    BY <1>2, <2>3, <2>4 DEF Next, Step
  <2> QED
    BY <1>2, <2>5, TemplateStep DEF SInv
<1> QED
  BY <1>1, <1>2

\* It needs what is proved of the tables and of the pool, so all three hold
\* together.
LEMMA SpecSInv == Spec => []SInv
<1>1. SInv /\ CP!IInv /\ FP!MInv /\ [Next]_vars => SInv'
  BY NextSInv
<1> QED
  BY <1>1, InitSInv, PoolInvariant, TablesInvariant, PTL DEF Spec

-----------------------------------------------------------------------------
\* The rows that are fetched are the members of the subscription that was
\* asked for, although its name, its members and its rows are three reads
\* between which anybody may insert, delete, rename and replace
\* (subscribe.rs:24-40, service.rs:24-46).
THEOREM MembersAreFetched == Spec => []MembersFetched
<1>1. SInv => MembersFetched
  BY DEF SInv, Knows, MembersFetched
<1> QED
  BY <1>1, SpecSInv, PTL

\* A 200 without nodes and a 502 say what they should about the members, for
\* every MAX_NODES and whichever rows are of kind single (subscribe.rs:82-92).
THEOREM VerdictsExplained == Spec => []VerdictExplained
<1>1. ASSUME SInv, FP!MInv, NEW r \in Readers
      PROVE  /\ phase[r] = "200" /\ nodes[r] = 0 =>
                  \A s \in steady[r] : task[r][s] = "panic" \/ CutOff(r, s)
             /\ phase[r] = "502" =>
                  \/ QueryError \in errors[r]
                  \/ \A s \in steady[r] : task[r][s] \in {"err", "panic"} \/ CutOff(r, s)
  <2>1. FP!Merged(r) /\ Knows(r)
    BY <1>1 DEF FP!MInv, SInv
  <2>2. /\ rows[r] \subseteq C!SourceIds /\ errors[r] \subseteq C!SourceIds \cup {QueryError}
        /\ nodes[r] \in Nat /\ task[r] \in [C!SourceIds -> FP!TaskStates]
        /\ joinset[r] \subseteq C!SourceIds /\ FP!TasksOK
    BY <1>1 DEF FP!MInv, FP!IInv, FP!TypeOK
  <2>3. MaxNodes \in Nat
    BY SubscribeAssumption
  <2>4. SUFFICES ASSUME phase[r] \in {"200", "502"}, nodes[r] = 0,
                        steady[r] \subseteq rows[r], NEW s \in steady[r]
                 PROVE  /\ task[r][s] \in {"err", "panic"} \/ CutOff(r, s)
                        /\ phase[r] = "200" => task[r][s] = "panic" \/ CutOff(r, s)
    BY <2>1 DEF Knows, FP!Merged
  <2>5. s \in C!SourceIds /\ s \in rows[r] /\ phase[r] \in FP!Answers
    BY <2>2, <2>4 DEF FP!Answers
  <2>6. joinset[r] = {}
    BY <2>2, <2>5 DEF FP!TasksOK
  <2>7. task[r][s] \in FP!Outcomes
    <3>1. task[r][s] \in FP!TaskStates /\ task[r][s] # "none"
      BY <2>1, <2>2, <2>5 DEF FP!Merged
    <3>2. task[r][s] # "running" /\ task[r][s] # "aborting"
      BY <2>2, <2>4, <2>5, <2>6 DEF FP!TasksOK
    <3> QED
      BY <3>1, <3>2 DEF FP!TaskStates, FP!Live
  <2>8. task[r][s] = "ok" => CutOff(r, s)
    BY <2>1, <2>3, <2>4, <2>5, <2>6 DEF FP!Merged, CutOff
  <2>9. phase[r] = "200" => task[r][s] # "err"
    BY <2>1, <2>4, <2>5, <2>6 DEF FP!Merged
  <2> QED
    BY <2>7, <2>8, <2>9 DEF FP!Outcomes
<1>2. SInv /\ FP!MInv => VerdictExplained
  BY <1>1 DEF VerdictExplained
<1> QED
  BY <1>2, SpecSInv, PoolInvariant, PTL

\* What PUT accepts can be served, with the system's own providers and groups
\* (clash_config.rs:49).
THEOREM ClashAlwaysServed == Spec => []ClashServed
<1>1. SInv => ClashServed
  BY DEF SInv
<1> QED
  BY <1>1, SpecSInv, PTL
=============================================================================
