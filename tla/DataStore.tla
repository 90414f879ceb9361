------------------------------ MODULE DataStore ------------------------------
(***************************************************************************)
(* The front end's data: crates/server/web/src/data.rs, the tab switching  *)
(* of main.rs, and the writes of components/ that refresh it.              *)
(*                                                                         *)
(* Everything runs on one thread, so a step is what happens between two    *)
(* awaits.  Every await is a request to the server; the server handles     *)
(* requests in any order, and their answers arrive in any order.           *)
(*                                                                         *)
(* dioxus ties a spawned task to the component (scope) on whose behalf it  *)
(* is spawned and drops the task when that component goes: a load belongs  *)
(* to the shell when navigation starts it, and to the page or the dialog   *)
(* whose write it follows.  A dropped task's request is not undone: the    *)
(* server still handles it.                                                *)
(*                                                                         *)
(* The data of a unit are the number of writes to it that they show.       *)
(***************************************************************************)
EXTENDS Integers, FiniteSets

CONSTANTS
  Tabs,      \* the tabs the user visits, of 0 .. 4
  Writers,   \* writes that may be under way at once
  MaxWrites  \* bound: writes the server carries out

ASSUME DataStoreAssumption ==
  /\ Tabs \subseteq 0 .. 4 /\ 0 \in Tabs
  /\ MaxWrites \in Nat

\* required_units.
Required(t) ==
  CASE t \in {0, 1} -> {"sources"}
    [] t = 2 -> {"combineds", "sources"}
    [] t = 3 -> {"clash_config"}
    [] OTHER -> {"config"}

\* The unit a page writes.
Written(t) == IF t = 2 THEN "combineds" ELSE CHOOSE u \in Required(t) : TRUE

Units == UNION {Required(t) : t \in Tabs}

VARIABLES
  server,    \* writes to each unit carried out by the server
  cell,      \* the cached CacheState of each unit
  inFlight,  \* in_flight
  loads,     \* the tasks spawned by load that are still there
  writes,    \* the write in each slot
  tab,       \* the tab that is shown
  pending,   \* the tab the user waits for, or NoTab
  editing,   \* the dialog EditSourceModal is open
  unseen     \* history: why the cache may miss a write, since the last load

store == <<cell, inFlight, loads>>
shell == <<tab, pending, editing>>
vars == <<server, store, writes, shell, unseen>>

NoTab == -1
NoData == -1
Unread == -2
Version == 0 .. MaxWrites

Statuses == {"idle", "loading", "ready", "error"}
CacheState == [status : Statuses, data : Version \cup {NoData}]
Load == [unit : Units, scope : {"shell", "page", "modal"},
         got : Version \cup {Unread}, stale : Version \cup {NoData}]
NoWrite == [at |-> "none", unit |-> "none", scope |-> "none"]
Write == [at : {"sent", "applied"}, unit : Units, scope : {"page", "modal", "gone"}]
Causes == {"overtaken", "abandoned", "cascade"}

-----------------------------------------------------------------------------
Status(u) == cell[u].status
AllReady(t) == \A u \in Required(t) : Status(u) = "ready"
AllFinished(t) == \A u \in Required(t) : Status(u) # "loading"
AnyIdle(t) == \E u \in Required(t) : Status(u) = "idle"

\* A tab whose first data are not there yet shows a spinner and no page.
Mounted == pending # tab

\* The first render of the shell has not started the load of its tab yet.
NeedsPreload == pending = NoTab /\ AnyIdle(tab)

Loadable(t) == {u \in Required(t) : Status(u) \notin {"ready", "loading"}}

Init ==
  /\ server = [u \in Units |-> 0]
  /\ cell = [u \in Units |-> [status |-> "idle", data |-> NoData]]
  /\ inFlight = {}
  /\ loads = {}
  /\ writes = [w \in Writers |-> NoWrite]
  /\ tab = 0
  /\ pending = NoTab
  /\ editing = FALSE
  /\ unseen = [u \in Units |-> {}]

-----------------------------------------------------------------------------
\* Mutant: load without the single-flight guard.
LoadAlways(K, scope, dropped) ==
  /\ cell' = [u \in Units |->
       IF u \in K THEN [cell[u] EXCEPT !.status = "loading"] ELSE cell[u]]
  /\ inFlight' = inFlight \cup K
  /\ loads' = {l \in loads \cup {[unit |-> u, scope |-> scope, got |-> Unread,
                                  stale |-> cell[u].data] : u \in K} : l.scope \notin dropped}
  /\ unseen' = [u \in Units |-> IF u \in K THEN {} ELSE unseen[u]]

\* load, of each unit in K, for a task of the given scope; then the scopes in
\* dropped go.
LoadUnits(K, scope, dropped) ==
  LET new == K \ inFlight IN
  /\ cell' = [u \in Units |->
       IF u \in new THEN [cell[u] EXCEPT !.status = "loading"] ELSE cell[u]]
  /\ inFlight' = inFlight \cup new
  /\ loads' = {l \in loads \cup {[unit |-> u, scope |-> scope, got |-> Unread,
                                  stale |-> cell[u].data] : u \in new} : l.scope \notin dropped}
  /\ unseen' = [u \in Units |->
       IF u \in new THEN {} ELSE IF u \in K THEN unseen[u] \cup {"overtaken"} ELSE unseen[u]]

\* Components go, and their tasks with them: a load is not finished, and the
\* answer to a write is not waited for.
Unmount(dropped) ==
  /\ loads' = {l \in loads : l.scope \notin dropped}
  /\ writes' = [w \in Writers |->
       IF writes[w].scope \notin dropped THEN writes[w]
       ELSE IF writes[w].at = "sent" THEN [writes[w] EXCEPT !.scope = "gone"] ELSE NoWrite]
  /\ unseen' = [u \in Units |->
       IF \E w \in Writers : writes[w].scope \in dropped /\ writes[w].at = "applied"
                               /\ writes[w].unit = u
       THEN unseen[u] \cup {"abandoned"} ELSE unseen[u]]
  /\ editing' = (editing /\ "modal" \notin dropped)

\* tab.set(t): the old page goes.  Tabs 0 and 1 are one component with another
\* kind; whether it is kept depends on the build (the templates of the two
\* rsx! may be one constant or two).
Show(t) ==
  /\ tab' = t
  /\ pending' = NoTab
  /\ \/ Mounted /\ t # tab /\ Unmount({"page", "modal"})
     \/ /\ ~Mounted \/ t = tab \/ {t, tab} \subseteq {0, 1}
        /\ UNCHANGED <<loads, writes, unseen, editing>>

-----------------------------------------------------------------------------
\* The render of the shell preloads its tab.
Preload ==
  /\ NeedsPreload
  /\ LoadUnits(Loadable(tab), "shell", {})
  /\ pending' = tab
  /\ UNCHANGED <<server, writes, tab, editing>>

\* go(t): at once when everything is there, ...
GoNow(t) ==
  /\ ~NeedsPreload
  /\ t # tab /\ t # pending
  /\ AllReady(t)
  /\ Show(t)
  /\ UNCHANGED <<server, cell, inFlight>>

\* ... and otherwise after ensure_loaded.
GoLater(t) ==
  /\ ~NeedsPreload
  /\ t # tab /\ t # pending
  /\ ~AllReady(t)
  /\ LoadUnits(Loadable(t), "shell", {})
  /\ pending' = t
  /\ UNCHANGED <<server, writes, tab, editing>>

\* Mutant: a unit that failed is not finished.
CommitWhenReady ==
  /\ pending # NoTab
  /\ AllReady(pending)
  /\ Show(pending)
  /\ UNCHANGED <<server, cell, inFlight>>

\* Mutant: the effect without `if let Some(p)`.
CommitAlways ==
  /\ Show(pending)
  /\ UNCHANGED <<server, cell, inFlight>>

\* The effect that shows the tab the user waits for.
Commit ==
  /\ pending # NoTab
  /\ AllFinished(pending)
  /\ Show(pending)
  /\ UNCHANGED <<server, cell, inFlight>>

-----------------------------------------------------------------------------
\* The server answers the GET with what it has at this moment.
ServerReads(l) ==
  /\ l.got = Unread
  /\ loads' = (loads \ {l}) \cup {[l EXCEPT !.got = server[l.unit]]}
  /\ UNCHANGED <<server, cell, inFlight, writes, shell, unseen>>

\* The GET fails, on the way there or on the way back.
LoadFails(l) ==
  /\ cell' = [cell EXCEPT ![l.unit] = [status |-> "error", data |-> l.stale]]
  /\ inFlight' = inFlight \ {l.unit}
  /\ loads' = loads \ {l}
  /\ UNCHANGED <<server, writes, shell, unseen>>

LoadSucceeds(l) ==
  /\ l.got # Unread
  /\ cell' = [cell EXCEPT ![l.unit] = [status |-> "ready", data |-> l.got]]
  /\ inFlight' = inFlight \ {l.unit}
  /\ loads' = loads \ {l}
  /\ UNCHANGED <<server, writes, shell, unseen>>

-----------------------------------------------------------------------------
\* The pages of the units with one save button, and the dialog, disable it
\* while they wait; on the other pages a save and deletions may overlap.
Waiting(scope) == \E w \in Writers : writes[w].scope = scope

\* A page, or the dialog on it, sends a POST, PUT or DELETE.
Save(w) ==
  /\ writes[w] = NoWrite
  /\ Mounted
  /\ \E scope \in IF editing THEN {"modal"} ELSE {"page"} :
       /\ scope = "modal" \/ tab \in {3, 4} => ~Waiting(scope)
       /\ writes' = [writes EXCEPT ![w] = [at |-> "sent", unit |-> Written(tab), scope |-> scope]]
  /\ UNCHANGED <<server, store, shell, unseen>>

\* The server carries it out.  A source that is deleted leaves the combined
\* subscriptions too.  Nobody hears of it when the page is gone.
Apply(w) ==
  LET u == writes[w].unit
      gone == writes[w].scope = "gone" IN
  /\ writes[w].at = "sent"
  /\ \E hit \in {{u}} \cup (IF u = "sources" THEN {{u, "combineds"} \cap Units} ELSE {}) :
       /\ \A v \in hit : server[v] < MaxWrites
       /\ server' = [v \in Units |-> IF v \in hit THEN server[v] + 1 ELSE server[v]]
       /\ unseen' = [v \in Units |->
            unseen[v] \cup (IF v = u THEN IF gone THEN {"abandoned"} ELSE {}
                            ELSE IF v \in hit THEN {"cascade"} ELSE {})]
  /\ writes' = [writes EXCEPT ![w] = IF gone THEN NoWrite ELSE [@ EXCEPT !.at = "applied"]]
  /\ UNCHANGED <<store, shell>>

\* Mutant: a write that forgets the refresh.
SavedWithoutRefresh(w) ==
  /\ writes[w].at = "applied"
  /\ writes' = [writes EXCEPT ![w] = NoWrite]
  /\ editing' = (editing /\ writes[w].scope # "modal")
  /\ UNCHANGED <<server, store, tab, pending, unseen>>

\* The answer is good: refresh, and the dialog closes, which drops the load
\* that the refresh has just started on its behalf.
Saved(w) ==
  LET scope == writes[w].scope IN
  /\ writes[w].at = "applied"
  /\ LoadUnits({writes[w].unit}, scope, IF scope = "modal" THEN {"modal"} ELSE {})
  /\ writes' = [writes EXCEPT ![w] = NoWrite]
  /\ editing' = (editing /\ scope # "modal")
  /\ UNCHANGED <<server, tab, pending>>

\* The server refuses, the request is lost, or its answer is: an error is
\* shown and nothing is refreshed.
SaveFails(w) ==
  /\ writes[w] # NoWrite
  /\ writes' = [writes EXCEPT ![w] = NoWrite]
  /\ unseen' = IF writes[w].at = "applied"
               THEN [unseen EXCEPT ![writes[w].unit] = @ \cup {"abandoned"}]
               ELSE unseen
  /\ UNCHANGED <<server, store, shell>>

-----------------------------------------------------------------------------
\* The dialog on the two pages of sources, from a row of the list.
OpenModal ==
  /\ Mounted /\ tab \in {0, 1}
  /\ ~editing
  /\ cell["sources"].data # NoData
  /\ editing' = TRUE
  /\ UNCHANGED <<server, store, writes, tab, pending, unseen>>

\* Cancel, also while the dialog waits for an answer.
CloseModal ==
  /\ editing
  /\ Unmount({"modal"})
  /\ UNCHANGED <<server, cell, inFlight, tab, pending>>

-----------------------------------------------------------------------------
User == (\E t \in Tabs : GoNow(t) \/ GoLater(t)) \/ OpenModal \/ CloseModal
Writing == \E w \in Writers : Save(w) \/ Apply(w) \/ Saved(w) \/ SaveFails(w)
Loading(u) ==
  \E l \in loads : l.unit = u /\ (ServerReads(l) \/ LoadFails(l) \/ LoadSucceeds(l))

Next == Preload \/ Commit \/ User \/ Writing \/ \E u \in Units : Loading(u)

Spec == Init /\ [][Next]_vars

\* The browser runs effects and tasks that are due, and every GET is answered
\* or fails.  Users and writes owe nothing.
FairSpec ==
  /\ Spec
  /\ WF_vars(Commit)
  /\ \A u \in Units : WF_vars(Loading(u))

-----------------------------------------------------------------------------
TypeOK ==
  /\ server \in [Units -> Version]
  /\ cell \in [Units -> CacheState]
  /\ inFlight \subseteq Units
  /\ loads \subseteq Load
  /\ writes \in [Writers -> Write \cup {NoWrite}]
  /\ tab \in Tabs
  /\ pending \in Tabs \cup {NoTab}
  /\ editing \in BOOLEAN
  /\ unseen \in [Units -> SUBSET Causes]

\* A unit whose load went with the component that started it: in_flight holds
\* the unit, so every later load is skipped, and no task is fetching
\* (data.rs:195).
Orphaned == {u \in inFlight : ~\E l \in loads : l.unit = u}

\* The cache goes forward: no answer overwrites a later one, and no failure
\* takes away what was shown (data.rs:188).
NeverBackwards == [][\A u \in Units : cell'[u].data >= cell[u].data]_vars

\* A unit that is ready and misses a write of this client: the answer to the
\* write is still to come, or its refresh was overtaken by a load under way,
\* or nobody was there to hear the answer, or a deletion elsewhere caused it.
StaleExplained ==
  \A u \in Units : Status(u) = "ready" /\ cell[u].data # server[u] =>
    \/ \E w \in Writers : writes[w].at = "applied" /\ writes[w].unit = u
    \/ unseen[u] # {}

\* A tab the user waits for is shown, unless the user goes elsewhere or a
\* component took the load of one of the units that this tab needs with it.
WaitSettles ==
  \A t \in Tabs : pending = t ~> pending # t \/ Orphaned \cap Required(t) # {}
=============================================================================
