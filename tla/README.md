# Verification of sub-merge

sub-merge keeps a list of proxy subscriptions in SQLite, groups them into named
*combined subscriptions*, and serves `GET /subscribe/{name}` by fetching the member
sources, merging their nodes and writing them out again. An administrator logs in
to edit all of this through a WASM front end.

This directory holds TLA+ models of the parts in which order, concurrency and
failure matter, the TLC runs that check them, and the TLAPS proofs of what matters
most. `PROJECT.json` lists the same things for tools: components, runs, mutants,
the source lines every definition stands for, findings, hazards and theorems.

## The system

| Part | Code | State it keeps | Operations | What is hard |
|---|---|---|---|---|
| Fetching and merging | `service.rs`, `state.rs`, `sources.rs` (refresh) | one semaphore for the process; per request a JoinSet, nodes, errors | `fetch_and_merge`, `fetch_source`, `refresh_source` | requests share permits; tasks fail, panic, time out; clients hang up at any await |
| Administrator and sessions | `db.rs`, `auth.rs`, `routes/auth.rs`, `routes/config.rs` | tables `users`, `sessions`, `settings` | setup, login, logout, `validate_session`, change of password, startup cleanup | no transaction anywhere: every statement of a handler interleaves with those of others; sliding expiry; two clocks |
| Sources and combined subscriptions | `routes/sources.rs`, `routes/combineds.rs`, `db.rs` | tables `sources`, `combined_subs`, `combined_sources` | create, update, delete, replacement of members | one writer, a pool of connections, transactions that a dropped future leaves open, cascades |
| Subscribe and preview | `routes/subscribe.rs`, `routes/preview.rs` | none | look up name, members and rows, fetch, verdict, serialise | three reads that are not one transaction |
| Schema and migration | `db.rs` `init_db` | the schema | create tables, add and drop columns, backfill | a crash between two steps |
| Clash template | `routes/clash_config.rs`, `formats/clash.rs` | one settings row | validate, store, merge into output | section names the system owns |
| Front end: data store | `web/src/data.rs`, `main.rs` | one cache cell per unit, `in_flight`, `tab`, `pending` | load, refresh, switch tab | answers that arrive after something changed |
| Front end: preview dialog | `web/src/components/preview_modal.rs` | answer, error, sequence number | load, retry | late answers |
| Front end: signing in and out | `web/src/main.rs` (App), `components/login.rs`, `config.rs`, `api.rs` | localStorage, shared by tabs; `token`, `checking`, `needs_setup`, `probing`, `loading`, `changing` per tab | check at startup, probe, setup, login, logout, change of password | lost answers, pages that go with their tasks, other tabs, sessions that end meanwhile |
| Front end: forms | other `web/src/components` | form fields | create, edit, delete, copy | refresh after every write |
| Parser and protocols | `proxy-core` | none | parse a line, parse a text, serialise | limits, what a round trip keeps, one bad node, panics |
| Configuration, routes, errors, static files | `config.rs`, `routes/mod.rs`, `error.rs`, `static.rs` | none | | |

Interaction: every admin handler first runs `require_admin`, that is
`validate_session`; subscribe and preview read the catalog and then call
`fetch_and_merge`, which reads the source rows once more and uses the shared
semaphore; `refresh_source` uses the same HTTP client and no semaphore. All
handlers share one connection pool. The front end talks to the server only over
HTTP and repeats the read of a unit after each write.

## Modules

### FetchPool

`fetch_and_merge`, its tasks and its callers. A connection slot (`Reqs`) runs one
request after another. `phase` is the program counter of the handler future:
`spawning` is the `for` loop, `waiting` and `granted` are inside `acquire_owned`
(queued, and assigned a permit but not polled yet), `joining` is the `join_next`
loop, and the answers are HTTP codes. `task[r][s]` is the spawned task of row `s`
and keeps how it ended, `joinset` what has not been joined. `permits` and `queue`
are tokio's semaphore: a permit that comes back while somebody waits goes to the
oldest waiter before that waiter runs. `Disconnect` is the drop of the handler
future at any await; its tasks are aborted, but they hold their permits until the
runtime drops them (`AbortedTaskDropped`). `refresh` are the direct fetches of
`refresh_source`.

Node lists are abstracted to their length, error texts to the row they name. A
`single` source gives one node, a remote one up to `MaxNodes`; the HTTP exchange,
its status, body limit and timeout all are "ok" or "err" of `TaskEnds`, and a panic
in a parser is "panic". The clash branch of subscribe fetches nothing; it is in
`Subscribe`.

### AuthService, SessionLifecycle

One action per database statement. `req[w].at` says which statement the handler of
slot `w` runs next. `validate_session` is `ReadSession` (SELECT and verdict) and
then `DeleteExpired` or `Renew`; a change of password is `ChangeVerifies`,
`UpdatePassword`, `RevokeAll`, `SetSetting`. A login is `LoginVerifies` and
`CreateSession`, whose stamp is any time between the two: `create_session` reads the
clock before it waits for the INSERT. `Abandon` ends a request at any await
(failed statement, dropped future); `Restart` is a crash at any point followed by
`delete_expired_sessions`. Time runs in ticks, `Sec` of them to the second,
because the table stores whole seconds and the expiry test uses the exact clock.
A password is the number of changes that led to it. `by`, `made` and `cut` are
history: the password a session's login checked, the one in force at its INSERT,
and whether a change ended before its `delete_all_sessions`.

`SessionLifecycle` is the abstract promise: a token is issued once, its session
ends once. `AuthService` implements it through the mapping `life`.

Left out: argon2, hashing of tokens (a token that guesses another is not a state
of the model), validation of names and password length (they end a request without
effect), `GET` handlers that only read, and a `last_used_at` that does not parse.

### Catalog

Tables, locks and connections. `db` is the last commit, which readers see (WAL);
`tx` the state inside the open transaction; `writer` who holds SQLite's write lock.
A handler in `Writing` holds a connection of the pool, in `Locked` the lock too. A
statement that writes outside a transaction (`Write`) needs the lock to be free; the
first write of a transaction (`Lock`) takes it. `InsertMembers` is
`insert_members_sql`, including the foreign key failure when the combined
subscription was deleted before. `Abandon` in a transaction leads to `rollback`,
which the pool runs before the connection is used again. `Crash` keeps `db` only.
`LookUp`, `ReadMembers`, `ReadRows` are the three reads of subscribe, and
`ReadTemplate` the read that takes the place of the third in a Clash answer.

A source is its existence. `asked` is history: the ids the last member list asked
for. List handlers, `kind` filters and the bodies' validation are left out, as is the
409/400 distinction. `update_combined` commits the new name before its member
transaction starts; when the members fail, the rename stays, as it does in the code.

### Subscribe

`GET /subscribe/{name}` as a whole: `Catalog` and `FetchPool` are both instantiated
over the same variables. A reader has a slot in each; `Read` and `SelectRows` are
Catalog's three reads, and `SelectRows` is at the same time FetchPool's `QueryRows`
with exactly the rows that Catalog found (`QueryFails` when the statement fails).
`Singles` says which ids are rows of kind `single`; an update of a source that changes
its kind is left out. The kind matters where MAX_NODES is 0: a single link is parsed
all the same and the merge is cut to nothing after it, which `VerdictExplained` names
(`CutOff`) and the theorem covers; the run has MAX_NODES 1.
From there on FetchPool runs alone, and `Close` ends the request in both. The Clash
branch reads the template after the same two reads and answers with
`serialize_clash_subscription`; `PutTemplate` is `put_config` with its validation. A
text is what the YAML parser makes of its root, and the top-level keys that the
system's sections could collide with. `steady` and `ever` are history: the sources
that were members throughout the request, and at some time in it. Administrators run
all of Catalog's writing handlers beside the reader.

What the code promises here is regular, not atomic: the rows are a set between
`steady` and `ever`, and may be one that the subscription never had at one moment. A
subscription deleted between the read of its name and that of its members is
answered with an empty 200, not with 404.

### Startup

`main` and `init_db` over any database an earlier version may have left (`Eras` are
the tables and columns in the order in which versions added them, and `enabled`, the
column that was dropped again), one action per statement, each committed by itself.
`Crash` ends the process at any statement, and `Start` begins again, possibly with
another `SESSION_TTL_DAYS`. `last_used_at` is a moment, an empty string (`Blank`), or
missing (`NoColumn`). chrono's range is `MinDate .. MaxDate` and a `TimeDelta`'s
`MaxDelta`: `CutoffPanics` and `DeadlinePanics` are the two operators that panic. The
sessions that `Login` and `Use` write while the process serves are
`create_session` and `validate_session` as one step each: their interleavings are
AuthService's matter.

### DataStore

The front end's cache (`data.rs`) and the tab switching on top of it (`main.rs`),
against a server that changes. `cell` has a `CacheState` per unit (status, data),
`inFlight` (`in_flight`) the units being loaded, `tab` and `pending` what MainShell
shows and waits for, `editing` whether the dialog EditSourceModal is open. `loads`
are the tasks `load` spawned, `writes` the requests under way that
change data. `LoadUnits` starts a load (or skips the unit when it is in flight),
`ServerReads` is the moment the server runs its SELECT, `LoadSucceeds`
and `LoadFails` are its two branches; `ensure_loaded` and `refresh` call the same
function. `Save`, `Apply`, `Saved`, `SaveFails` are a write of a page or dialog: the
server may carry it out without the answer arriving. `Preload`, `GoNow`, `GoLater`
and `Commit` are MainShell's effects.

In dioxus a spawned task belongs to the component that was running and goes with it
(`Unmount`, an external definition): a page or dialog that closes takes its loads
and writes with it. A unit's data are the number of writes they show. `unseen` is
history: why a cell may miss a write since its last load began, a refresh that found
the unit in flight (`overtaken`), a page or dialog that closed (`abandoned`), or a
write that changes a second unit (`cascade`).

### PreviewDialog

`PreviewModal`: `reqSeq` numbers the loads, `task[n]` is where load `n` is (queued,
sent, or with an answer it has not been polled for), and the signals `loading`,
`error`, `data` remember which load wrote them. `screen` is the last rendering, which
may be behind the signals: that is how a second click reaches Retry. dioxus polls
spawned tasks in the order of their creation, so `Begin` is in order; answers are not.

### WebSession

Signing in and out in several tabs of one browser. `stored` is localStorage, `app[t]`
the signals of tab `t`, `calls[t]` its requests in flight, each with the task that
waits for it. `Load` is a tab that is opened or reloaded; `ShowLogin` and `ShowShell`
are App's two pages, and each takes the tasks of the page before with it (the
unmount is taken as immediate). `Serve` is the server's handler, which here is as good
as its abstract promise: tokens live as `SessionLifecycle` says, which AuthService is
shown to implement. `Fail` loses a request or an answer; `Elsewhere` is what other
clients and the clock do.

Three things users can run into follow from the code and are in the model, with no
property against them: `clear_token` erases a newer token that another tab has stored;
a setup whose answer was lost, or that another tab won, leaves a form whose every
retry is a 409 until the page is loaded again; a second Enter while a login is under
way opens a session nobody uses.

### ProxyLinks, Subscriptions

`ProxyLinks` has one operator per parser and serializer of `proxy-core`, under the
code's names. A link is a record of what its parser tells apart (scheme, user
information, address, parameters, name); characters are abstracted to small sets of
texts in which every text is escaped or bare, and a bare one may look like an
escaped one (`p%41`, and `p%FF`, which is not UTF-8). An Option is a set of at most
one member, a Result a sequence of at most one. Two of the texts are cut by the code:
a list of names at its commas (`Split`), and a path before its first character that is
no slash (`Service`, `trim_start_matches`), for which `Service` lists the paths that
occur. What the proofs need of other paths is the assumption `Trims`: a slash put
before a path is trimmed again, and a trimmed path has none left.

`Subscriptions` takes a text through `parse_subscription_text` and an output format
and back, `Passes` times: `ReadNode`, `SkipLine`, `LinePanics` and `LinesRead` are
`parse_lines`; `parse_clash_yaml` reads a Clash configuration; `WriteNode`,
`SkipNode` and `WriteFails` are `serialize_v2ray_plain` and `serialize_clash`;
`ReadAgain` hands the output to another reader, as the Clash clients and other
sub-merge servers do. `serialize_clash` is reached by the tests only (the server
answers Clash clients with a provider section), and so are the serializers of
hysteria, hysteria2, wireguard, socks5 and http: format `each` is
`tests/roundtrip.rs`.

`due` and `sent` are histories: the nodes that an answer was written from, each with
the line at which it begins, without those that cannot be read again (`Unreadable`).
`IsItem` is what every line and entry satisfies: an Option has one member at most, a
value of JSON or YAML is UTF-8. It leaves three kinds of text out: a dash alone (a list to
YAML) but for a name or a server, an alpn that YAML reads as no text for another reason
than being digits or empty, and a Clash entry whose server is a quoted address in
brackets. Every member of the small sets that no definition names stands for a text that
YAML reads as it stands; `12` stands for the plain scalars that it reads as a number, a
boolean or null.

What is lost on the way is written down in the second part of `Subscriptions`, as
the reference the code is compared with, and nothing else is:

- `allowInsecure` of vless and trojan links, all but the first alpn of hysteria;
- a trojan node without TLS comes back with it (the comment at `trojan.rs:60` says so);
- an ssr node at an IPv6 address, and a trojan or vless node with an empty
  credential, write links that cannot be read: only a Clash source has such nodes;
- a name of two lines cuts a link whose name is bare, and breaks a Clash document; so do
  a dash alone as name or server, and a server that ends in a colon, such as `::`, which
  YAML takes for a key (`Torn`): the whole configuration is read as nothing;
- the server is written bare into YAML (`clash.rs:106`): one in brackets, which a vmess
  link may have (`vmess.rs:31`), is a list, digits are a number and none is null; the
  entry is dropped when it is read (`parser.rs:113`, `NoText`);
- digits written bare into YAML are read as numbers, so a node named `12` vanishes, and
  a password, id, cipher, SNI, alpn, fingerprint, Host, path or service name `12` is
  lost (`Kept`); so is the cipher `auto`, which the reader leaves out (`KeptCipher`);
  the keys of wireguard and the httpupgrade transport are not read from Clash;
- slashes before the service name of grpc: a link has one before it and its reader
  trims them all, so `/p`, which only Clash can say, comes back as `p` (`KeptService`);
- a vmess, vless or trojan node whose TLS has no SNI, but whose transport has a Host,
  gets the Host as SNI from a link (`SniOf`);
- the password of socks5 and http is written bare, and an IPv6 address, which stands
  for the user, lends it its tail; what then looks like an escape of no UTF-8 makes the
  link unreadable, for socks5 in the address too (`socks5.rs:40`).

When a link is first read, `Cipher` maps `2022-blake3-aes-256-gcm` and `none` to
`plain` (`model.rs:92`); the method of such a node is lost before it is written.

## Hazards and properties

The full list is `hazards` in `PROJECT.json`. In short:

- Permits lost or made up by panics, aborts and waiters that leave:
  `PermitsConserved`; waiting for ever: `NoStarvation`, `RequestsAnswered`; work that
  outlives its request: `NothingOutlivesTheRequest`.
- A verdict that does not match what happened to the sources: `RowsAccounted`,
  `RefusedWhenAllFailed`, and over the whole request `VerdictExplained`.
- Races of setup, login, change of password, logout, renewal, expiry and restart:
  `SingleAdmin`, `OldSessionsExplained`, `SessionsEndOnce`, `StartupSparesValid`.
- Half-done member replacement, broken references, names and ids that come to mean
  something else: `MembersAsAsked`, `MembersExist`, `NamesUnique`, `MembersFetched`;
  transactions left open or waiting for the pool: `LockHeldInTransaction`,
  `LockReleased`.
- A migration cut between two statements, a lifetime at chrono's limits or changed
  between two starts: `ServedUpgraded`, `SessionsKept`, `EventuallyServes`.
- A template that is accepted and cannot be served: `ClashServed`.
- The front end shows old data for ever, or an answer that was overtaken:
  `StaleExplained`, `NeverBackwards`, `ShowsLatest`; a tab, a form or a dialog that
  waits for nothing: `WaitSettles`, `DialogSettles`, `SpinnerHasRequest`, `TabOpens`.
- A tab signed out by an error that says nothing about its session:
  `SignedOutForCause`.
- A node that changes, or a whole answer that fails, because of how one node was
  read or written: `ReadBack`, `ConnectionKept`, `Canonical`, `LinksServed`; lines
  that are neither nodes nor counted, and texts past MAX_NODES: `LinesAccounted`.

## Runs

| Run | Instance | Shows |
|---|---|---|
| `fetch_pool` | one subscribe slot, one preview slot, one refresh slot; two remote rows and one single; 2 permits; MAX_NODES 2; every SELECT result | the safety properties of FetchPool |
| `fetch_pool_live` | three subscribe slots, 1 permit, one request with two rows | no starvation, every request answers |
| `fetch_all_failed_panic` | as `fetch_pool` | finding 1 |
| `auth` | 2 request slots, 2 tokens, 2 names, 2 ticks to the second, lifetime 2 ticks, clock to 5, 2 changes | the safety properties of AuthService and its refinement of SessionLifecycle |
| `auth_change_revokes` | as `auth` | finding 2 |
| `catalog` | 2 request slots, 2 names, 2 source ids, 2 combined ids, 2 connections | the safety properties of Catalog; under fairness the lock is always released |
| `data_store` | the pages of sources and combined subscriptions, 2 writes under way, 2 writes in all | the safety properties of DataStore; under fairness every wait for a tab ends |
| `subscriptions` | every link and Clash entry of small fields, and texts of up to 4 lines or 3 entries of a sample; MAX_NODES 2; 3 passes; 3 formats | the parsers and serializers against the reference |
| `startup` | 2 tokens, 2 ticks to the second, clock to 5, lifetimes none, 2, 10 (past the first date) and 14 (past a TimeDelta), 2 crashes, every earlier schema | the migration and the startup cleanup; under fairness every start gets to the end |
| `subscribe` | 1 reader, 1 administrator, 1 name, 2 source ids (one remote, one single), 2 combined ids, 1 permit, every kind of template | the composition of the catalog's reads, the merge and the template |
| `web_session` | 2 tabs, 2 tokens, 2 requests in flight per tab | signing in and out; under fairness every tab opens |
| `preview_dialog` | 5 loads | the dialog shows the last load's outcome; under fairness it comes to |

Why the bounds are enough to be interesting. In `fetch_pool` six tasks can compete
for two permits, so requests queue, are granted permits by tasks of the other one
and leave in every phase; three rows give every mix of ok, error and panic; and
MAX_NODES 2 makes a merge overflow. In `auth` a session can be read valid, expire,
be renewed and expire again within the clock; two changes let a session be two
passwords old; two slots are the least for every race the properties name, and the
proofs cover the rest. In `catalog` two slots give every pair of handlers, and two
of each row give deletion and creation between a reader's reads. In `data_store` two
units and two writers are the least for a write that overtakes a load and for a
click that overtakes another; every order of answers is explored. In
`subscriptions` each field takes the values that the code's conditions tell apart,
all combinations within a protocol's TLS fields and within its transport fields;
the second pass compares what was read back, and the third shows that nothing moves
any more. Texts of four lines go past MAX_NODES with lines left over. In `startup` two
crashes cut a start and its repetition, and the clock passes two second boundaries and
the lifetime. In `subscribe` one writer is enough for every change between two reads,
and the two combined ids for a subscription that is deleted and created again under
its name. In `web_session` two tabs and two tokens are the least for a tab that stores
a token over another's; two requests per tab for a double Enter, and for a logout
beside a change of password. In `preview_dialog` three loads are enough for an answer
between two others; five show that nothing new comes after.

Symmetry is used in `fetch_pool` and `auth` only, which have no liveness property:
over request slots, tokens and names, and over remote sources (every slot there may
select every row set). `MaxTime`, `MaxChanges`, `MaxSources`, `MaxCombineds`,
`MaxWrites`, `MaxCrashes`, `MaxCalls` and `MaxLoads` bound the guards of `Tick`,
`UpdatePassword`, `InsertSource`, `InsertCombined`, `Apply`, `Crash`, `Spawn` and
`Retry`.

No run turns deadlock checking off: clients and users may always do something more,
and `Subscriptions` has a step for a text that is done.

### Fairness

`FetchPool!Fairness` is what tokio gives: a handler future that is ready is polled
(`Polled`), a spawned task ends or is dropped after its abort (`TaskStep`; every
fetch has the client's timeout, `state.rs` and `service.rs`). No fairness on
clients: a request need not arrive, hang up or be read. `Catalog!FairSpec` asks only
that a handler inside a transaction, which waits for nothing, goes on (`Transact`).
`DataStore` asks that the browser runs the effects that are due and that every GET is
answered or fails; users and writes owe nothing. `WebSession` and `PreviewDialog` ask
the same of their requests, tasks and renderings. `Startup` asks that a process that
is down is started again and that a start which nothing stops goes on (`WF(Boot)`):
`compose.yaml:10` says `restart: unless-stopped`. Crashes are bounded, so it shows that
a start comes through once they end; `EventuallyServes` excepts the lifetimes whose
cutoff panics.

## Findings

Two are runs that end in a violation, with the trace:

1. A task that panics is skipped at `service.rs:109`; a subscription whose members
   all end that way is an empty 200, not the 502 of the repository's README
   (`fetch_all_failed_panic`). With errors only, and no panic, 502 is right
   (`RefusedWhenAllFailed`).
2. A login that verified the old password before a change and inserts its session
   after `delete_all_sessions` leaves a session that survives the change, against
   `routes/config.rs:78` (`auth_change_revokes`). It is the only way, besides a
   change that was cut short (`OldSessionsExplained`).

Others came up while modelling. The models have the behaviour, and the properties
that hold make an exception for it:

- `refresh_source` takes no permit (`sources.rs:181`), so CONCURRENCY does not bound
  the fetches of the process as `state.rs:12` says; it bounds those of subscribe and
  preview (`MergeFetchCap`, proved).
- `validate_session` deletes a session whose row another request renewed after it was
  read (`db.rs:305`), though `db.rs:283` says only an expired one goes.
- `CHANGELOG.md:51` says the panic of large lifetimes is gone. Those past a TimeDelta
  are handled; between about 96 million and 106 billion days `now - ttl` still leaves
  chrono's range, the process panics at startup and is started again for ever
  (`CutoffPanics`, the exception of `EventuallyServes`).
- A refresh that follows a write is dropped while the unit is being loaded
  (`data.rs:144`), and the load under way may have read the server before the write:
  the page stays old. It is the cause `overtaken` of `StaleExplained`.
- A load is dropped with the page or dialog that started it (`data.rs:195`) and
  `in_flight` keeps the unit, which can never be loaded again. EditSourceModal
  refreshes and closes itself in one step (`sources.rs:294`). `WaitSettles` excepts a
  wait for a tab that needs such a unit (`Orphaned`), and no other.

## Proofs

Every theorem holds for all values of the constants that satisfy the assumption named
in the module it is about (`FetchPoolAssumption`, `AuthAssumption`,
`CatalogAssumption`, `SubscribeAssumption`, `StartupAssumption`,
`DataStoreAssumption`, `WebSessionAssumption`, `PreviewDialogAssumption`,
`SubscriptionsAssumption` with `PathAssumption`): any number of requests, sources, tabs and tokens, natural
bounds, and texts that are finite sequences. Each invariant was checked by TLC first,
and each proof has the same shape: the initial states satisfy `IInv`, every action keeps
it, and the property follows from it. The proofs are in the modules named after the
component; those of `DataStore` and `PreviewDialog` are in `FrontEndProofs`, for which
the dialog's definitions have names of their own (`DialogInit`, `DialogNext`, ...).

**FetchPool.** The invariant is
`IInv == TypeOK /\ QueueOK /\ TasksOK /\ NoIdlePermit /\ PermitsConserved`.
`PermitsConserved` is not inductive alone: a permit that is given back goes to the
head of the queue, and the count is right only if that request really waits and is
queued once (`QueueOK`: the queue has no repetition and holds exactly the waiting
requests), and only if somebody waits when no permit is left (`NoIdlePermit`,
which also bounds `permits`). `TasksOK` says that a running task is in the JoinSet of a handler that is still
there; it makes `NothingOutlivesTheRequest` follow, and tells
`Disconnect` that it aborts live tasks only. The proof is organised by what a step
does to the permits: lemmas for a task that starts (`StartedSlots`), one that stops
(`StoppedSlots`), a request that queues (`WaitingSlots`) or leaves
(`LeavingSlots`) and steps that do nothing of the kind (`UntouchedSlots`); each
counts `Granted` and `LiveTasks` with the library's cardinality theorems.
`MergeFetchCap` follows from `PermitsConserved`, as the outbound fetches are some of
the live tasks.

The second invariant, `MInv`, adds `Merged(r)` for every request:
a row that has left the JoinSet is merged, recorded or a panic, every recorded error is
of a row that failed, `nodes` is positive exactly when a joined row gave nodes, and only a single source or a
positive MAX_NODES lets a row give any.
After the spawn loop every row has a task, and at the answer the JoinSet is empty, so
`RowsAccounted` and `RefusedWhenAllFailed` follow; neither is inductive, as they say
nothing before the answer. That every row's nodes are in the list is a count: `CInv` adds
`Counted(r)`, no fewer nodes than rows that were joined with success, until the list is
cut at MAX_NODES.

**AuthService.** `IInv == TypeOK /\ LiveIssued /\ SingleAdmin /\ OldSessionsExplained`,
where `LiveIssued` says that a live token was issued: without it a new token could
be one whose session is still live. `EndedSessionsStayEnded` proves the refinement
of `SessionLifecycle` step by step from `LiveIssued`; `CleanupSparesValid` is
arithmetic on truncated time.

**Catalog.** The invariant is about tables, committed or not. `Sound(db)` and
`Sound(tx)` are what every statement keeps (references, names, ids no larger than their
sequence: an id that was asked for and does not exist yet would otherwise become a
member by being inserted). `Filled` is what only a transaction may break, for the one
combined subscription it works on: it holds of `db` for all, and of `tx` for all but
that one until `InsertMembers`. `LockHeldInTransaction` says whose transaction that is.
Each statement has a lemma about the tables it makes, and the handlers decide only
which tables become visible.

**Subscribe.** `ImplementsCatalog` and `ImplementsFetchPool` show that the composition,
seen through the variables of either part, takes only that part's steps or none; so the
invariants of Catalog and FetchPool, and what they imply, hold of it without being proved
again. (`SameHandlers`, `SamePool`, ... say that a part reached through its proof module
is the part itself.) `SInv` is what is left: how a reader's two slots keep step
(`InStep`), and what the reader knows between its reads (`Knows`): the steady
members are members now, were among the ids when those were read, and are among the rows
once these are selected, or the SELECT failed. It is inductive because a step that takes
a member away makes it unsteady at once (`StaysRight`), while the fetch changes nothing
that was read. `MembersFetched` is one half of `Knows`; `VerdictExplained` is the other,
with `Merged` at the answer.

**Startup.** `Progress` says what each statement has made sure of by the time the next
one runs (after statement 9 the column is there, after 10 nothing is blank, after 11
everything is in whole seconds); it is what makes `ServedUpgraded` independent of where
earlier starts stopped, and `Coherent` ties the rows to the columns that exist.
`SessionsKept` follows action by action: only the cleanup and `Use` remove a row.

**DataStore.** `LoadsOK`: a load is the only one of its unit, the snapshot it took is
what the cell still shows, and what it read is at least as new; this gives
`NeverBackwards`. If the server has moved on since it read, there is a reason why the
cache will not be told (`Explained`), which makes `StaleExplained` inductive when the
load ends. `CellsOK` ties `in_flight` to the status Loading, and `WritesOK` says that
an applied write has somebody who waits for its answer.

**WebSession.** A page has only its own requests in flight, at most one probe among
them (`PageOK`), and an answer that says that a session has ended stays true, because
`SessionLifecycle` never revives one (`CallOK`): this is what
`OnlySignedOutForCause` needs between the answer and its reading.

**PreviewDialog.** `ShowsLatest` is not inductive: a task that began late would turn
the spinner on behind a load that has ended. `QueueIsLast` (the tasks not yet polled
are the last ones spawned) rules that out, and `LatestBegan` says that the latest load
has cleared the error before its answer is there.

**ProxyLinks, Subscriptions.** One lemma per parser says when it returns nothing, and
otherwise what the node carries (`Parses`); it holds for every record of a link. From
these follow two facts about all links. `ParsedLinked`: a node that comes from a link
has what its serializer requires, so `ReadingInv`, which counts lines and says that the
nodes of a text of links are `Linked`, is inductive, and `LinesAccounted` and
`LinksServed` follow. `ParsedWhole`: each of its Options has one member at most and
what was decoded is UTF-8 (`Whole`). For `Whole` nodes there is a lemma per protocol
and one for Clash entries (`SsBack` to `HttpBack`, `EntryBack`): what is written is read
as the same proxy (`LinkReadBack`). A second family, for nodes that are `Connected`
too (the Host, SNI, alpn and path are of the kinds that parsers return), says the same
of TLS and transport, parameter by parameter (`AlpnKept`, `SniKept`, `TransportKept`,
`LinkKept`, `EntryKept`).

`ReadBack` and `ConnectionKept` are about two sequences, the nodes read and the nodes
written a pass before. `Origin` says of `out` and `due` (and of the text and `sent`, once
`ReadAgain` has exchanged them) where in the text each node begins, and that every other
line is one that no parser takes: the second line of a name, or the line of an
`Unreadable` node. `ReadSoFar`: the nodes read up to line `at` are the nodes of `sent`
that begin before it, each `Restored`. Neither survives `ReadAgain` without `Intact`,
which is `Whole` and `Connected`: what is read back is again such a node, so that the
next round finds what the lemmas require. `RoundInv` is their conjunction, with
`SubscriptionsAssumption` for the first text. A Clash configuration is joined with
`FlattenSeq`, a recursive function, of which `Flattened` shows by `Counting` (induction
over a set, from the library's least elements) what it returns for sequences of at most
one member.

`Canonical` compares a whole text with the one written a round before
(`OutputIsCanonical`, for v2ray and clash). The argument is that reading a copy settles a
node: what a link or an entry holds of the credentials (`Holds`, `EntryHolds`) and says of
the connection (`LinkSteady`, `EntrySteady`), the next one holds and says again, so the
node that is read from it is the same in every field (`LinkSettles`, `EntrySettles`:
`Settles`). `Restored` carries this through `ReadSoFar`: a node of the second text
`Settles` if it is written, and a node that was written from one that does is that node.
Hence `CanonInv`: from the second text on `out` and `due` are a `Mirror` (item by item,
the one way in which a settled node is written, and no entry is `Torn`), from the third text on so are the text
and `sent`, and what is written up to node `at` is the text up to it. TLC agrees on
`CanonInv` for four passes of the texts of `MCSubscriptions`.

Only model-checked: liveness (`NoStarvation`, `RequestsAnswered`, `LockReleased`,
`WaitSettles`, `EventuallyServes`, `TabOpens`, `DialogSettles`), which the prover cannot
do; and `Canonical` for the format "each", which no handler offers (the single
serializers, as the round-trip tests call them). There the third round depends on the
characters of what the second one wrote: the password of socks5 and http is put together
with `\o` on strings, of which the provers know nothing.

## Not modelled

The bytes of texts (base64, percent and YAML syntax are modelled by what they do to
small sets of texts), hashing, HTTP itself, static files, the layout, drafts,
toasts and styling of the front end, the drawer and scroll lock, scripts and images.
The server's configuration appears as constants. `list_*` handlers only read. The
columns of a source are not kept, so two concurrent updates of one row, of which the
later wins with every column, are not told apart. `PROJECT.json` gives the reason per
component.

## Plan

1. The columns of a source in Catalog, for the lost update of `update_source`.
2. Drafts and confirmation dialogs of the pages, beside DataStore.
