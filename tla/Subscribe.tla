------------------------------ MODULE Subscribe ------------------------------
(***************************************************************************)
(* GET /subscribe/{name} from its first read to its answer, while          *)
(* administrators change what it reads: crates/server/src/routes/          *)
(* subscribe.rs over Catalog, whose tables it reads, and FetchPool, which  *)
(* fetches the rows it read.  routes/clash_config.rs writes the template   *)
(* that the Clash branch reads.                                            *)
(*                                                                         *)
(* A reader has one slot in both: its req in Catalog says how far its      *)
(* reads are, its phase in FetchPool what happens after them.  Crashes are *)
(* Catalog's matter: they clear everything that is in memory.              *)
(***************************************************************************)
EXTENDS Integers, FiniteSets

CONSTANTS
  Readers,         \* slots of GET /subscribe/{name}
  Writers,         \* slots of the admin handlers
  Names, MaxSources, MaxCombineds, MaxConnections,   \* Catalog's
  Singles, QueryError, Concurrency, MaxNodes,        \* FetchPool's
  Sections         \* top-level keys that a template may have

ASSUME SubscribeAssumption ==
  /\ IsFiniteSet(Readers)
  /\ Readers \cap Writers = {}
  /\ "nobody" \notin Readers \cup Writers
  /\ "" \notin Names
  /\ MaxSources \in Nat /\ MaxCombineds \in Nat
  /\ MaxConnections \in Nat \ {0}
  /\ Singles \subseteq 1 .. MaxSources
  /\ QueryError \notin 1 .. MaxSources
  /\ Concurrency \in Nat /\ MaxNodes \in Nat

VARIABLES
  db, tx, writer, req,                        \* Catalog's
  permits, queue, phase, rows, task, joinset, nodes, errors, refresh,  \* FetchPool's
  template,  \* settings row clash_template
  clash,     \* the Clash answer each reader got: who wrote each section
  steady,    \* history: sources that were members all the time since LookUp
  ever       \* history: sources that were members at some time since LookUp

C == INSTANCE Catalog WITH Requests <- Readers \cup Writers

F == INSTANCE FetchPool WITH
       Reqs <- Readers, Previews <- {}, Refreshers <- {}, Sources <- C!SourceIds,
       Selects <- [r \in Readers |-> SUBSET C!SourceIds]

tables == <<db, tx, writer, req>>
fetching == <<permits, queue, phase, rows, task, joinset, nodes, errors, refresh>>
own == <<template, clash>>
vars == <<tables, fetching, own, steady, ever>>

System == {"proxy-providers", "proxy-groups"}

\* What a text may be to the YAML parser.
Roots == {"invalid", "null", "list", "mapping"}
Texts == {[root |-> t, keys |-> {}] : t \in Roots}
           \cup [root : {"mapping"}, keys : SUBSET Sections]
DefaultTemplate == [root |-> "mapping", keys |-> Sections \ System]

\* A Clash answer is the set of its sections, each with who wrote it.
NoAnswer == {}
Failed == {<<"500", "error">>}

-----------------------------------------------------------------------------
Init ==
  /\ C!Init
  /\ F!Init
  /\ template = DefaultTemplate
  /\ clash = [r \in Readers |-> NoAnswer]
  /\ steady = [r \in Readers |-> {}]
  /\ ever = [r \in Readers |-> {}]

\* The members of the combined subscription that reader r has found.
Members(r) == db.member[req[r].id]

\* History: what is, was and will be a member, from LookUp to the answer.
Watch ==
  /\ steady' = [r \in Readers |->
       IF req'[r].at = "idle" THEN {}
       ELSE IF req[r].at = "idle" THEN Members(r)' ELSE steady[r] \cap Members(r)']
  /\ ever' = [r \in Readers |->
       IF req'[r].at = "idle" THEN {} ELSE ever[r] \cup Members(r)']

-----------------------------------------------------------------------------
\* The row of the name, and its member ids.
Read(r) ==
  /\ (C!LookUp(r) /\ phase[r] = "idle") \/ C!ReadMembers(r)
  /\ UNCHANGED <<fetching, own>>

\* format=v2ray: the SELECT in fetch_and_merge, and what it returns.
SelectRows(r) ==
  /\ \/ C!ReadRows(r) /\ F!QueryRows(r) /\ rows'[r] = req'[r].ids
     \/ C!RowsFail(r) /\ F!QueryFails(r)
  /\ UNCHANGED own

\* Spawning, waiting for permits, joining, the verdict: no table is read.
Fetch(r) ==
  /\ \/ F!AcquireAndSpawn(r) \/ F!AcquireWaits(r) \/ F!SpawnGranted(r)
     \/ F!SpawnLoopEnds(r) \/ F!JoinNext(r) \/ F!Answer(r) \/ F!SlotFree(r)
  /\ UNCHANGED <<tables, own>>

TaskStep(r, s) == F!TaskStep(r, s) /\ UNCHANGED <<tables, own>>

Close(r) == C!Serve(r) /\ F!Close(r) /\ UNCHANGED own

\* The client is gone: the handler is dropped at whatever await it is.
HangUp(r) ==
  /\ clash[r] = NoAnswer
  /\ C!Abandon(r)
  /\ IF phase[r] = "idle" THEN UNCHANGED fetching ELSE F!Disconnect(r)
  /\ UNCHANGED own

-----------------------------------------------------------------------------
\* serialize_clash_subscription: an empty document counts as an empty
\* mapping, any other root than a mapping is an error (500), and the system's
\* sections replace the template's.
SerializeClash(t) ==
  IF t.root \in {"mapping", "null"}
  THEN (System \X {"system"}) \cup ((t.keys \ System) \X {"template"})
  ELSE Failed

\* format=clash, the default: the template, after the same two reads.
AnswerClash(r) ==
  /\ C!ReadTemplate(r)
  /\ clash' = [clash EXCEPT ![r] = SerializeClash(template)]
  /\ UNCHANGED <<fetching, template>>

CloseClash(r) ==
  /\ clash[r] # NoAnswer
  /\ C!Serve(r)
  /\ clash' = [clash EXCEPT ![r] = NoAnswer]
  /\ UNCHANGED <<fetching, template>>

\* Mutant: the text need only be YAML.
AcceptsAnyYaml(t) == t.root # "invalid"

\* put_config: YAML whose root is a mapping (400 otherwise).
Accepts(t) == t.root = "mapping"

\* PUT /admin/clash-config.
PutTemplate ==
  /\ C!Free
  /\ writer = C!Nobody
  /\ \E t \in Texts : Accepts(t) /\ template' = t
  /\ UNCHANGED <<tables, fetching, clash>>

\* The admin handlers of Catalog.
Administer(w) ==
  /\ \/ C!Acquire(w) \/ C!InsertSource(w) \/ C!DeleteSource(w)
     \/ C!InsertCombined(w) \/ C!SelectCombined(w) \/ C!Rename(w) \/ C!ClearMembers(w)
     \/ C!InsertMembers(w) \/ C!Commit(w) \/ C!ReadBack(w) \/ C!DeleteCombined(w)
     \/ C!Abandon(w) \/ C!Rollback(w)
  /\ UNCHANGED <<fetching, own>>

-----------------------------------------------------------------------------
Step ==
  \/ \E r \in Readers :
       \/ Read(r) \/ SelectRows(r) \/ Fetch(r) \/ Close(r)
       \/ AnswerClash(r) \/ CloseClash(r)
       \/ HangUp(r)
       \/ \E s \in C!SourceIds : TaskStep(r, s)
  \/ \E w \in Writers : Administer(w)
  \/ PutTemplate

Next == Step /\ Watch

Spec == Init /\ [][Next]_vars

-----------------------------------------------------------------------------
\* The rows that are fetched are the members of the subscription that was
\* asked for: every source that was one throughout, and none that was not one
\* at some time since the request came in.  Name, members and rows are three
\* reads, with inserts, updates, deletes and cascades between them, and only
\* ids connect them (subscribe.rs:24-40, service.rs:24-46).
MembersFetched ==
  \A r \in Readers : phase[r] \notin {"idle", "dropped"} =>
    \/ errors[r] = {QueryError} /\ rows[r] = {}
    \/ steady[r] \subseteq rows[r] /\ rows[r] \subseteq ever[r]

\* What the verdict tells the subscriber about the members.  An empty 200
\* means that nothing was a member throughout, or its task panicked; a 502
\* that the members could not be read, or none that was a member throughout
\* gave a node that is served (subscribe.rs:82-92).  The one that gives a node
\* that is not is a row of kind single where MAX_NODES is 0: its link is parsed
\* whatever the limit is, and the merge is cut to nothing after it.
CutOff(r, s) == MaxNodes = 0 /\ s \in Singles /\ task[r][s] = "ok"

VerdictExplained ==
  \A r \in Readers :
    /\ phase[r] = "200" /\ nodes[r] = 0 =>
         \A s \in steady[r] : task[r][s] = "panic" \/ CutOff(r, s)
    /\ phase[r] = "502" =>
         \/ QueryError \in errors[r]
         \/ \A s \in steady[r] : task[r][s] \in {"err", "panic"} \/ CutOff(r, s)

\* clash_config.rs:49: what PUT accepts can be served.  No reader gets a 500
\* for a stored template, and none gets the template's own providers or
\* groups for the system's.
ClashServed ==
  \A r \in Readers : clash[r] # NoAnswer =>
    \A k \in System : {part \in clash[r] : part[1] = k} = {<<k, "system">>}
=============================================================================
