--------------------------- MODULE FrontEndProofs ---------------------------
(***************************************************************************)
(* What the browser shows: DataStore for every set of tabs and writes, and *)
(* PreviewDialog for any number of loads.  The two share no state: the     *)
(* dialog asks the server for itself.                                      *)
(*                                                                         *)
(* NeverBackwards and StaleExplained hold by the same invariant: LoadsOK   *)
(* says that a load is the only one of its unit and that what it read is   *)
(* newer than what is shown, and, if the server has moved on since, that   *)
(* there is a reason why nobody will tell the cache.                       *)
(*                                                                         *)
(* ShowsLatest is not inductive: a task that begins late would turn the    *)
(* spinner on again behind a load that has ended.  What rules it out is    *)
(* that the tasks not yet polled are the last ones.                        *)
(***************************************************************************)
EXTENDS DataStore, PreviewDialog, TLAPS

\* Why the cache may rightly miss a write to u.
Explained(u) ==
  \/ \E w \in Writers : writes[w].at = "applied" /\ writes[w].unit = u
  \/ unseen[u] # {}

\* Somebody waits for the answer to every write that the server carried out.
WritesOK == \A w \in Writers : writes[w].at = "applied" => writes[w].scope \in {"page", "modal"}

CellsOK == \A u \in Units :
  /\ u \in inFlight <=> cell[u].status = "loading"
  /\ cell[u].data <= server[u]

LoadOK(l) ==
  /\ l.unit \in inFlight /\ l.stale = cell[l.unit].data
  /\ l.got # Unread =>
       /\ l.got >= l.stale /\ l.got <= server[l.unit]
       /\ l.got # server[l.unit] => Explained(l.unit)

LoadsOK ==
  /\ \A l \in loads : LoadOK(l)
  /\ \A k, l \in loads : k.unit = l.unit => k = l

IInv == TypeOK /\ WritesOK /\ CellsOK /\ LoadsOK /\ StaleExplained

-----------------------------------------------------------------------------
\* The tabs need units, and write one of them.
LEMMA TabUnits ==
  ASSUME NEW t \in Tabs
  PROVE  Required(t) \subseteq Units /\ Written(t) \in Units /\ Loadable(t) \subseteq Units
<1>1. Required(t) \subseteq Units
  BY DEF Units
<1>2. Written(t) \in Required(t)
  <2>1. CASE t = 2
    BY <2>1 DEF Written, Required
  <2>2. CASE t # 2
    <3>1. \E u : u \in Required(t)
      BY DataStoreAssumption, <2>2 DEF Required
    <3> QED
      BY <2>2, <3>1 DEF Written
  <2> QED
    BY <2>1, <2>2
<1> QED
  BY <1>1, <1>2 DEF Loadable

\* A reason stays while its write does.
LEMMA StillExplained ==
  ASSUME NEW u, Explained(u),
         unseen[u] # {} => unseen'[u] # {},
         \A w \in Writers : writes[w].at = "applied" /\ writes[w].unit = u =>
           writes'[w] = writes[w] \/ unseen'[u] # {}
  PROVE  Explained(u)'
BY DEF Explained

\* What the cache holds, loads and misses.
Store == CellsOK /\ LoadsOK /\ StaleExplained
StoreType ==
  /\ cell \in [Units -> CacheState] /\ inFlight \subseteq Units
  /\ loads \subseteq Load /\ unseen \in [Units -> SUBSET Causes]

\* load: the units in flight are skipped, and the write it follows, if any,
\* is no longer waited for.
LEMMA LoadStep ==
  ASSUME IInv, NEW K \in SUBSET Units, NEW scope \in {"shell", "page", "modal"}, NEW dropped,
         LoadUnits(K, scope, dropped), UNCHANGED server,
         \A w \in Writers : writes'[w] = writes[w] \/ writes[w].unit \in K
  PROVE  Store' /\ StoreType'
<1> DEFINE new == K \ inFlight
<1> DEFINE fresh(u) == [unit |-> u, scope |-> scope, got |-> Unread, stale |-> cell[u].data]
<1>1. /\ \A u \in new : cell'[u].status = "loading" /\ cell'[u].data = cell[u].data
      /\ \A u \in Units \ new : cell'[u] = cell[u]
      /\ cell' \in [Units -> CacheState]
  BY DEF LoadUnits, IInv, TypeOK, CacheState, Statuses
<1>2. inFlight' = inFlight \cup new /\ inFlight' \subseteq Units
  BY DEF LoadUnits, IInv, TypeOK
<1>3. \A l \in loads' : l \in loads \/ \E u \in new : l = fresh(u)
  BY DEF LoadUnits
<1>4. /\ \A u \in new : unseen'[u] = {}
      /\ \A u \in K \ new : unseen'[u] = unseen[u] \cup {"overtaken"}
      /\ \A u \in Units \ K : unseen'[u] = unseen[u]
      /\ unseen' \in [Units -> SUBSET Causes]
  BY DEF LoadUnits, IInv, TypeOK, Causes
<1>5. \A u \in new : /\ fresh(u) \in Load /\ fresh(u).unit = u
                     /\ fresh(u).got = Unread /\ fresh(u).stale = cell[u].data
  BY DEF IInv, TypeOK, Load, CacheState
<1>6. new \subseteq Units /\ new \cap inFlight = {}
  OBVIOUS
<1> HIDE DEF new, fresh
<1>7. StoreType'
  <2>1. loads' \subseteq Load
    BY <1>3, <1>5 DEF IInv, TypeOK
  <2> QED
    BY <1>1, <1>2, <1>4, <2>1 DEF StoreType
<1>8. CellsOK'
  BY <1>1, <1>2, <1>6 DEF IInv, CellsOK
<1>9. ASSUME NEW u \in Units \ new, Explained(u) PROVE Explained(u)'
  <2>1. CASE u \in K
    BY <1>4, <1>9, <2>1 DEF Explained
  <2>2. CASE u \notin K
    BY <1>4, <1>9, <2>2, StillExplained
  <2> QED
    BY <2>1, <2>2
<1>10. LoadsOK'
  <2>1. ASSUME NEW l \in loads' PROVE LoadOK(l)'
    <3>1. CASE l \in loads
      <4>1. LoadOK(l) /\ l.unit \in inFlight /\ l.unit \in Units \ new
        BY <1>6, <3>1 DEF IInv, LoadsOK, LoadOK, TypeOK
      <4> QED
        BY <1>1, <1>2, <1>9, <4>1 DEF LoadOK
    <3>2. CASE \E u \in new : l = fresh(u)
      BY <1>1, <1>2, <1>5, <3>2 DEF LoadOK
    <3> QED
      BY <1>3, <3>1, <3>2
  <2>2. \A l \in loads : l.unit \in inFlight
    BY DEF IInv, LoadsOK, LoadOK
  <2>3. ASSUME NEW k \in loads', NEW l \in loads', k.unit = l.unit PROVE k = l
    BY <1>3, <1>5, <1>6, <2>2, <2>3 DEF IInv, LoadsOK
  <2> QED
    BY <2>1, <2>3 DEF LoadsOK
<1>11. StaleExplained'
  <2> SUFFICES ASSUME NEW u \in Units, cell'[u].status = "ready", cell'[u].data # server'[u]
               PROVE  Explained(u)'
    BY DEF StaleExplained, Explained, Status
  <2>1. u \notin new
    BY <1>1
  <2>2. Explained(u)
    BY <1>1, <2>1 DEF IInv, StaleExplained, Explained, Status
  <2> QED
    BY <1>9, <2>1, <2>2
<1> QED
  BY <1>7, <1>8, <1>10, <1>11 DEF Store

\* A store that nobody touches, while reasons only come.
LEMMA QuietStore ==
  ASSUME IInv, UNCHANGED <<server, cell, inFlight>>,
         loads' \subseteq loads,
         unseen' \in [Units -> SUBSET Causes],
         \A u \in Units : Explained(u) => Explained(u)'
  PROVE  Store' /\ StoreType'
<1>1. StoreType'
  BY DEF IInv, TypeOK, StoreType
<1>2. CellsOK' /\ StaleExplained'
  BY DEF IInv, CellsOK, StaleExplained, Explained, Status
<1>3. \A l \in loads' : LoadOK(l)'
  BY DEF IInv, LoadsOK, LoadOK, TypeOK
<1>4. LoadsOK'
  BY <1>3 DEF IInv, LoadsOK
<1> QED
  BY <1>1, <1>2, <1>4 DEF Store

\* What the components and the server hold.
WriteType ==
  /\ server \in [Units -> Version]
  /\ writes \in [Writers -> Write \cup {NoWrite}]
  /\ WritesOK

\* Components go: their loads are dropped, their applied writes explained.
LEMMA UnmountStep ==
  ASSUME IInv, NEW dropped \in SUBSET {"page", "modal"}, Unmount(dropped),
         UNCHANGED <<server, cell, inFlight>>
  PROVE  Store' /\ StoreType' /\ WriteType' /\ editing' \in BOOLEAN
<1>1. writes \in [Writers -> Write \cup {NoWrite}]
  BY DEF IInv, TypeOK
<1>2. ASSUME NEW w \in Writers
      PROVE  /\ writes'[w] \in Write \cup {NoWrite}
             /\ writes[w].scope \notin dropped => writes'[w] = writes[w]
             /\ writes[w].scope \in dropped => writes'[w].at # "applied"
  BY <1>1 DEF Unmount, Write, NoWrite
<1>3. WriteType'
  <2>1. writes' \in [Writers -> Write \cup {NoWrite}]
    BY <1>2 DEF Unmount
  <2>2. WritesOK'
    BY <1>2 DEF WritesOK, IInv
  <2> QED
    BY <2>1, <2>2 DEF IInv, TypeOK, WriteType
<1>4. /\ unseen' \in [Units -> SUBSET Causes]
      /\ \A u \in Units : unseen[u] # {} => unseen'[u] # {}
      /\ \A u \in Units, w \in Writers :
           writes[w].scope \in dropped /\ writes[w].at = "applied" /\ writes[w].unit = u
             => unseen'[u] # {}
  BY DEF Unmount, IInv, TypeOK, Causes
<1>5. \A u \in Units : Explained(u) => Explained(u)'
  BY <1>2, <1>4, StillExplained
<1>6. loads' \subseteq loads /\ editing' \in BOOLEAN
  BY DEF Unmount
<1> QED
  BY <1>3, <1>4, <1>5, <1>6, QuietStore

\* The page that was waited for comes, or the tab the user went to.
LEMMA ShowStep ==
  ASSUME IInv, NEW t \in Tabs, Show(t), UNCHANGED <<server, cell, inFlight>>
  PROVE  IInv'
<1>1. tab' = t /\ pending' = NoTab
  BY DEF Show
<1>2. CASE Unmount({"page", "modal"})
  BY <1>1, <1>2, UnmountStep DEF IInv, TypeOK, Store, StoreType, WriteType
<1>3. CASE UNCHANGED <<loads, writes, unseen, editing>>
  BY <1>1, <1>3 DEF IInv, TypeOK, WritesOK, CellsOK, LoadsOK, LoadOK, StaleExplained, Explained,
                    Status
<1> QED
  BY <1>2, <1>3 DEF Show

-----------------------------------------------------------------------------
\* Navigation and the dialog.
LEMMA UserStep == ASSUME IInv, Preload \/ Commit \/ User PROVE IInv'
<1>1. tab \in Tabs /\ pending \in Tabs \cup {NoTab} /\ editing \in BOOLEAN /\ TypeOK
  BY DEF IInv, TypeOK
<1>2. ASSUME NEW t \in Tabs, LoadUnits(Loadable(t), "shell", {}), pending' = t,
             UNCHANGED <<server, writes, tab, editing>>
      PROVE  IInv'
  <2>1. Store' /\ StoreType'
    BY <1>2, TabUnits, LoadStep
  <2> QED
    BY <1>1, <1>2, <2>1 DEF IInv, TypeOK, Store, StoreType, WritesOK
<1>3. CASE Preload
  BY <1>1, <1>2, <1>3 DEF Preload
<1>4. CASE Commit
  BY <1>1, <1>4, ShowStep DEF Commit
<1>5. CASE \E t \in Tabs : GoNow(t)
  BY <1>5, ShowStep DEF GoNow
<1>6. CASE \E t \in Tabs : GoLater(t)
  BY <1>2, <1>6 DEF GoLater
<1>7. CASE OpenModal
  <2>1. UNCHANGED <<server, cell, inFlight, loads, writes, tab, pending, unseen>> /\ editing' = TRUE
    BY <1>7 DEF OpenModal, store
  <2> QED
    BY <1>1, <2>1 DEF IInv, TypeOK, WritesOK, CellsOK, LoadsOK, LoadOK, StaleExplained, Explained,
                      Status
<1>8. CASE CloseModal
  <2>1. Unmount({"modal"}) /\ UNCHANGED <<server, cell, inFlight, tab, pending>>
    BY <1>8 DEF CloseModal
  <2> QED
    BY <1>1, <2>1, UnmountStep DEF IInv, TypeOK, Store, StoreType, WriteType
<1> QED
  BY <1>3, <1>4, <1>5, <1>6, <1>7, <1>8 DEF User

\* Writes, from the request to the answer.
LEMMA WriteStep ==
  ASSUME IInv, NEW w \in Writers, Save(w) \/ Apply(w) \/ Saved(w) \/ SaveFails(w)
  PROVE  IInv'
<1>1. /\ tab \in Tabs /\ pending \in Tabs \cup {NoTab} /\ editing \in BOOLEAN
      /\ writes \in [Writers -> Write \cup {NoWrite}] /\ unseen \in [Units -> SUBSET Causes]
      /\ server \in [Units -> Version]
  BY DEF IInv, TypeOK
<1>2. tab' = tab /\ pending' = pending /\ editing' \in BOOLEAN
  BY <1>1 DEF Save, Apply, Saved, SaveFails, shell
<1>3. ASSUME Store' /\ StoreType' /\ WriteType' PROVE IInv'
  BY <1>1, <1>2, <1>3 DEF IInv, TypeOK, Store, StoreType, WriteType
<1>4. CASE Save(w)
  <2>1. PICK x \in Write : /\ x.at = "sent" /\ x.scope # "gone"
                           /\ writes' = [writes EXCEPT ![w] = x]
    BY <1>1, <1>4, TabUnits DEF Save, Write
  <2>2. writes[w] = NoWrite /\ UNCHANGED <<server, cell, inFlight, loads, unseen>>
    BY <1>4 DEF Save, store
  <2>3. WriteType'
    BY <1>1, <2>1, <2>2 DEF WriteType, WritesOK, IInv
  <2>4. \A v \in Writers : writes[v].at = "applied" => writes'[v] = writes[v]
    BY <1>1, <2>1, <2>2 DEF NoWrite
  <2>5. \A u \in Units : Explained(u) => Explained(u)'
    BY <2>2, <2>4, StillExplained
  <2>6. Store' /\ StoreType'
    BY <1>1, <2>2, <2>5, QuietStore
  <2> QED
    BY <1>3, <2>3, <2>6
<1>5. CASE Apply(w)
  <2> DEFINE u == writes[w].unit
  <2> DEFINE gone == writes[w].scope = "gone"
  <2>1. writes[w].at = "sent" /\ UNCHANGED <<cell, inFlight, loads>>
    BY <1>5 DEF Apply, store
  <2>2. PICK hit \in SUBSET Units :
          /\ u \in hit
          /\ \A v \in hit : server[v] < MaxWrites
          /\ server' = [v \in Units |-> IF v \in hit THEN server[v] + 1 ELSE server[v]]
          /\ unseen' = [v \in Units |->
               unseen[v] \cup (IF v = u THEN IF gone THEN {"abandoned"} ELSE {}
                               ELSE IF v \in hit THEN {"cascade"} ELSE {})]
    <3>1. writes[w] \in Write
      BY <1>1, <2>1 DEF NoWrite
    <3>2. u \in Units
      BY <3>1 DEF Write
    <3> QED
      BY <1>5, <3>2 DEF Apply
  <2>3. /\ unseen' \in [Units -> SUBSET Causes]
        /\ \A v \in Units : unseen[v] # {} => unseen'[v] # {}
        /\ \A v \in hit \ {u} : unseen'[v] # {}
        /\ gone => unseen'[u] # {}
    BY <1>1, <2>2 DEF Causes
  <2>4. /\ server' \in [Units -> Version]
        /\ \A v \in Units : server'[v] >= server[v]
        /\ \A v \in Units \ hit : server'[v] = server[v]
    BY <1>1, <2>2, DataStoreAssumption DEF Version
  <2>5. /\ writes' \in [Writers -> Write \cup {NoWrite}]
        /\ \A v \in Writers \ {w} : writes'[v] = writes[v]
        /\ ~gone => writes'[w].at = "applied" /\ writes'[w].unit = u
                      /\ writes'[w].scope \in {"page", "modal"}
        /\ gone => writes'[w].at # "applied"
    <3>1. writes[w] \in Write
      BY <1>1, <2>1 DEF NoWrite
    <3>2. writes' = [writes EXCEPT ![w] = IF gone THEN NoWrite ELSE [writes[w] EXCEPT !.at = "applied"]]
      BY <1>5 DEF Apply
    <3> QED
      BY <1>1, <3>1, <3>2 DEF Write, NoWrite
  <2> HIDE DEF u, gone
  <2>6. WriteType'
    BY <2>4, <2>5 DEF WriteType, WritesOK, IInv
  <2>7. \A v \in Units : Explained(v) => Explained(v)'
    BY <2>1, <2>3, <2>5, StillExplained
  <2>8. \A v \in hit : Explained(v)'
    BY <2>2, <2>3, <2>5 DEF Explained
  <2>9. StoreType'
    BY <2>1, <2>3 DEF StoreType, IInv, TypeOK
  <2>10. CellsOK'
    <3>1. \A v \in Units : cell[v].data \in Int /\ server[v] \in Int /\ server'[v] \in Int
      BY <1>1, <2>4, DataStoreAssumption DEF Version, IInv, TypeOK, CacheState, NoData
    <3> QED
      BY <2>1, <2>4, <3>1 DEF CellsOK, IInv
  <2>11. ASSUME NEW l \in loads PROVE LoadOK(l)'
    <3>1. LoadOK(l) /\ l.unit \in Units /\ l.got \in Int
      BY DataStoreAssumption DEF IInv, LoadsOK, TypeOK, Load, Version, Unread
    <3>2. server[l.unit] \in Int /\ server'[l.unit] \in Int
      BY <1>1, <2>4, <3>1 DEF Version
    <3> QED
      BY <2>1, <2>4, <2>7, <2>8, <3>1, <3>2 DEF LoadOK
  <2>12. StaleExplained'
    BY <2>1, <2>4, <2>7, <2>8 DEF StaleExplained, Explained, Status, IInv
  <2> QED
    BY <1>3, <2>1, <2>6, <2>9, <2>10, <2>11, <2>12 DEF Store, LoadsOK, IInv
<1>6. CASE Saved(w)
  <2>1. /\ writes[w].at = "applied" /\ UNCHANGED server
        /\ writes' = [writes EXCEPT ![w] = NoWrite]
        /\ LoadUnits({writes[w].unit}, writes[w].scope,
                     IF writes[w].scope = "modal" THEN {"modal"} ELSE {})
    BY <1>6 DEF Saved
  <2>2. writes[w] \in Write /\ writes[w].scope \in {"page", "modal"}
    BY <1>1, <2>1 DEF NoWrite, IInv, WritesOK
  <2>3. {writes[w].unit} \in SUBSET Units
    BY <2>2 DEF Write
  <2>4. \A v \in Writers : writes'[v] = writes[v] \/ writes[v].unit \in {writes[w].unit}
    BY <1>1, <2>1
  <2>5. Store' /\ StoreType'
    BY <2>1, <2>2, <2>3, <2>4, LoadStep
  <2>6. WriteType'
    BY <1>1, <2>1 DEF WriteType, WritesOK, NoWrite, IInv
  <2> QED
    BY <1>3, <2>5, <2>6
<1>7. CASE SaveFails(w)
  <2>1. /\ writes' = [writes EXCEPT ![w] = NoWrite]
        /\ UNCHANGED <<server, cell, inFlight, loads>>
    BY <1>7 DEF SaveFails, store
  <2>2. /\ unseen' \in [Units -> SUBSET Causes]
        /\ \A u \in Units : unseen[u] # {} => unseen'[u] # {}
        /\ \A u \in Units : writes[w].at = "applied" /\ writes[w].unit = u => unseen'[u] # {}
    BY <1>1, <1>7 DEF SaveFails, Causes
  <2>3. WriteType'
    BY <1>1, <2>1 DEF WriteType, WritesOK, NoWrite, IInv
  <2>4. \A v \in Writers \ {w} : writes'[v] = writes[v]
    BY <1>1, <2>1
  <2>5. \A u \in Units : Explained(u) => Explained(u)'
    BY <2>2, <2>4, StillExplained
  <2>6. Store' /\ StoreType'
    BY <2>1, <2>2, <2>5, QuietStore
  <2> QED
    BY <1>3, <2>3, <2>6
<1> QED
  BY <1>4, <1>5, <1>6, <1>7

\* A load is answered.
LEMMA AnswerStep ==
  ASSUME IInv, NEW l \in loads, ServerReads(l) \/ LoadFails(l) \/ LoadSucceeds(l)
  PROVE  IInv'
<1>1. /\ l \in Load /\ l.unit \in Units /\ l.got \in Version \cup {Unread}
      /\ l.stale \in Version \cup {NoData} /\ LoadOK(l)
      /\ \A k \in loads : k.unit = l.unit => k = l
  BY DEF IInv, TypeOK, Load, LoadsOK
<1>2. UNCHANGED <<server, writes, shell, unseen>>
  BY DEF ServerReads, LoadFails, LoadSucceeds
<1>3. \A u \in Units : server[u] \in Version /\ cell[u].data \in Version \cup {NoData}
                         /\ cell[u].data <= server[u]
  BY DEF IInv, TypeOK, CacheState, CellsOK
<1>4. CASE ServerReads(l)
  <2>1. PICK k \in Load : /\ k.unit = l.unit /\ k.stale = l.stale /\ k.got = server[l.unit]
                          /\ loads' = (loads \ {l}) \cup {k}
    <3> DEFINE k == [l EXCEPT !.got = server[l.unit]]
    <3>1. k \in Load /\ k.unit = l.unit /\ k.stale = l.stale /\ k.got = server[l.unit]
      BY <1>1, <1>3 DEF Load
    <3> QED
      BY <1>4, <3>1 DEF ServerReads
  <2>2. UNCHANGED <<cell, inFlight>>
    BY <1>4 DEF ServerReads
  <2>3. LoadOK(k)'
    BY <1>1, <1>2, <1>3, <2>1, <2>2, DataStoreAssumption DEF LoadOK, Version, NoData
  <2>4. \A m \in loads \ {l} : LoadOK(m)'
    BY <1>2, <2>2 DEF IInv, LoadsOK, LoadOK, Explained
  <2>5. LoadsOK'
    BY <1>1, <2>1, <2>2, <2>3, <2>4 DEF IInv, LoadsOK
  <2> QED
    BY <1>2, <2>1, <2>2, <2>5
    DEF IInv, TypeOK, WritesOK, CellsOK, StaleExplained, Status, shell
<1>5. ASSUME NEW x \in CacheState, x.status # "loading", x.data <= server[l.unit],
             x.status = "ready" /\ x.data # server[l.unit] => Explained(l.unit),
             cell' = [cell EXCEPT ![l.unit] = x],
             inFlight' = inFlight \ {l.unit}, loads' = loads \ {l}
      PROVE  IInv'
  <2>1. cell'[l.unit] = x /\ \A u \in Units \ {l.unit} : cell'[u] = cell[u]
    BY <1>1, <1>5 DEF IInv, TypeOK
  <2>2. \A m \in loads' : LoadOK(m)'
    BY <1>1, <1>2, <1>5, <2>1 DEF IInv, LoadsOK, LoadOK, Explained, TypeOK, Load
  <2>3. LoadsOK'
    BY <1>5, <2>2 DEF IInv, LoadsOK
  <2>4. CellsOK'
    BY <1>2, <1>5, <2>1 DEF IInv, CellsOK
  <2>5. StaleExplained'
    BY <1>2, <1>5, <2>1 DEF IInv, StaleExplained, Status, Explained
  <2> QED
    BY <1>2, <1>5, <2>3, <2>4, <2>5 DEF IInv, TypeOK, WritesOK, shell
<1>6. CASE LoadFails(l)
  <2> DEFINE x == [status |-> "error", data |-> l.stale]
  <2>1. x \in CacheState /\ x.data <= server[l.unit]
    BY <1>1, <1>3 DEF CacheState, Statuses, LoadOK
  <2> QED
    BY <1>5, <1>6, <2>1 DEF LoadFails
<1>7. CASE LoadSucceeds(l)
  <2> DEFINE x == [status |-> "ready", data |-> l.got]
  <2>1. /\ x \in CacheState /\ x.data <= server[l.unit]
        /\ x.data # server[l.unit] => Explained(l.unit)
    BY <1>1, <1>7 DEF CacheState, Statuses, LoadOK, LoadSucceeds
  <2> QED
    BY <1>5, <1>7, <2>1 DEF LoadSucceeds
<1> QED
  BY <1>4, <1>6, <1>7

-----------------------------------------------------------------------------
\* The invariant holds in an empty store ...
LEMMA InitIInv == Init => IInv
<1> SUFFICES ASSUME Init PROVE IInv
  OBVIOUS
<1>1. TypeOK
  <2>1. 0 \in Version
    BY DataStoreAssumption DEF Version
  <2>2. [status |-> "idle", data |-> NoData] \in CacheState
    BY DEF CacheState, Statuses
  <2> QED
    BY <2>1, <2>2, DataStoreAssumption DEF Init, TypeOK
<1>2. WritesOK /\ CellsOK /\ LoadsOK /\ StaleExplained
  BY DEF Init, WritesOK, CellsOK, LoadsOK, StaleExplained, Status, NoWrite, NoData
<1> QED
  BY <1>1, <1>2 DEF IInv

\* ... and every step keeps it.
LEMMA NextIInv == IInv /\ [Next]_vars => IInv'
<1> SUFFICES ASSUME IInv, [Next]_vars PROVE IInv'
  OBVIOUS
<1>1. CASE UNCHANGED vars
  BY <1>1 DEF vars, store, shell, IInv, TypeOK, WritesOK, CellsOK, LoadsOK, LoadOK,
              StaleExplained, Explained, Status
<1> QED
  BY <1>1, UserStep, WriteStep, AnswerStep DEF Next, Writing, Loading

\* The invariant holds in every reachable state.
LEMMA SpecIInv == Spec => []IInv
BY InitIInv, NextIInv, PTL DEF Spec

\* Every variable of the store and the shell keeps its type.
THEOREM StoreTypeOK == Spec => []TypeOK
<1>1. IInv => TypeOK
  BY DEF IInv
<1> QED
  BY <1>1, SpecIInv, PTL

\* data.rs: a page that misses a write of its own user does so for one of the
\* known reasons, and for no other.
THEOREM StalenessExplained == Spec => []StaleExplained
<1>1. IInv => StaleExplained
  BY DEF IInv
<1> QED
  BY <1>1, SpecIInv, PTL

\* data.rs:188: no answer, and no failure, takes the cache back.
THEOREM CacheNeverBackwards == Spec => NeverBackwards
<1>1. IInv /\ [Next]_vars => [\A u \in Units : cell'[u].data >= cell[u].data]_vars
  <2> SUFFICES ASSUME IInv, [Next]_vars, NEW u \in Units PROVE cell'[u].data >= cell[u].data
    OBVIOUS
  <2>1. cell[u].data \in Int
    BY DataStoreAssumption DEF IInv, TypeOK, CacheState, Version, NoData
  <2>2. CASE UNCHANGED cell
    BY <2>1, <2>2
  <2>3. ASSUME NEW K, NEW scope, NEW dropped, LoadUnits(K, scope, dropped)
        PROVE  cell'[u].data >= cell[u].data
    BY <2>1, <2>3 DEF LoadUnits, IInv, TypeOK, CacheState
  <2>4. ASSUME NEW l \in loads, ServerReads(l) \/ LoadFails(l) \/ LoadSucceeds(l)
        PROVE  cell'[u].data >= cell[u].data
    <3>1. /\ l.stale = cell[l.unit].data /\ (l.got # Unread => l.got >= l.stale)
          /\ l.unit \in Units
      BY DEF IInv, LoadsOK, LoadOK, TypeOK, Load
    <3> QED
      BY <2>1, <2>4, <3>1 DEF ServerReads, LoadFails, LoadSucceeds, IInv, TypeOK
  <2>5. CASE Preload \/ (\E t \in Tabs : GoLater(t)) \/ (\E w \in Writers : Saved(w))
    BY <2>3, <2>5 DEF Preload, GoLater, Saved
  <2>6. ASSUME NEW w \in Writers, Save(w) \/ Apply(w) \/ SaveFails(w)
        PROVE  UNCHANGED cell
    BY <2>6 DEF Save, Apply, SaveFails, store
  <2>7. CASE Commit \/ (\E t \in Tabs : GoNow(t)) \/ OpenModal \/ CloseModal
    BY <2>2, <2>7 DEF Commit, GoNow, OpenModal, CloseModal, store
  <2> QED
    BY <2>2, <2>4, <2>5, <2>6, <2>7 DEF Next, User, Writing, Loading, vars, store
<1> QED
  BY <1>1, SpecIInv, PTL DEF Spec, NeverBackwards

-----------------------------------------------------------------------------
(* The preview dialog.                                                     *)

\* The tasks that wait for their first poll are the last that were spawned,
\* and there is none beyond req_seq.
QueueIsLast ==
  \A n \in Loads :
    /\ n > reqSeq => task[n] = "none"
    /\ task[n] = "queued" => \A m \in Loads : n < m /\ m <= reqSeq => task[m] = "queued"

\* The latest load has cleared the error before its answer is there.
LatestBegan ==
  open /\ UnderWay(reqSeq) /\ task[reqSeq] # "queued" => loading /\ error = 0

DialogThere ==
  /\ open => reqSeq \in Loads
  /\ ~open => reqSeq = 0 /\ loading

DInv == DialogTypeOK /\ DialogThere /\ QueueIsLast /\ LatestBegan /\ ShowsLatest

\* The initial state satisfies the invariant.
LEMMA InitDialog == DialogInit => DInv
<1> SUFFICES ASSUME DialogInit PROVE DInv
  OBVIOUS
<1>1. DialogTypeOK
  <2>1. open \in BOOLEAN /\ loading \in BOOLEAN
    BY DEF DialogInit
  <2>2. reqSeq \in 0 .. MaxLoads /\ error \in 0 .. MaxLoads /\ data \in 0 .. MaxLoads
    BY PreviewDialogAssumption, SMT DEF DialogInit
  <2>3. task \in [Loads -> TaskStates] /\ screen \in Screens
    BY DEF DialogInit, TaskStates, Screens
  <2>4. QED
    BY <2>1, <2>2, <2>3 DEF DialogTypeOK
<1>2. DialogThere /\ LatestBegan /\ ShowsLatest
  BY DEF DialogInit, DialogThere, LatestBegan, ShowsLatest
<1>3. QueueIsLast
  BY DEF DialogInit, QueueIsLast
<1>4. QED
  BY <1>1, <1>2, <1>3 DEF DInv

\* No step of the dialog breaks it: one case for each action.
LEMMA NextDialog == DInv /\ [DialogNext]_dialogVars => DInv'
<1> SUFFICES ASSUME DInv, [DialogNext]_dialogVars PROVE DInv'
  OBVIOUS
<1> USE PreviewDialogAssumption
<1>1. CASE Open
  BY <1>1, SMT DEF DInv, Open, DialogTypeOK, DialogThere, QueueIsLast, LatestBegan, ShowsLatest,
    UnderWay, Loads, TaskStates
<1>2. CASE Close
  <2>1. DialogTypeOK'
    <3>1. open' \in BOOLEAN /\ loading' \in BOOLEAN
      BY <1>2 DEF Close
    <3>2. reqSeq' \in 0 .. MaxLoads /\ error' \in 0 .. MaxLoads /\ data' \in 0 .. MaxLoads
      BY <1>2, SMT DEF Close
    <3>3. task' \in [Loads -> TaskStates] /\ screen' \in Screens
      BY <1>2 DEF Close, TaskStates, Screens
    <3>4. QED
      BY <3>1, <3>2, <3>3 DEF DialogTypeOK
  <2>2. DialogThere' /\ LatestBegan' /\ ShowsLatest'
    BY <1>2 DEF Close, DialogThere, LatestBegan, ShowsLatest
  <2>3. QueueIsLast'
    BY <1>2 DEF Close, QueueIsLast
  <2>4. QED
    BY <2>1, <2>2, <2>3 DEF DInv
<1>3. CASE Retry
  <2>1. reqSeq + 1 \in Loads /\ task' = [task EXCEPT ![reqSeq + 1] = "queued"]
    BY <1>3, SMT DEF DInv, Retry, DialogTypeOK, Loads
  <2>2. DialogTypeOK' /\ DialogThere'
    BY <1>3, <2>1, SMT DEF DInv, Retry, DialogTypeOK, DialogThere, Loads, TaskStates
  <2>3. QueueIsLast'
    BY <1>3, <2>1, SMT DEF DInv, Retry, DialogTypeOK, QueueIsLast, Loads
  <2>4. LatestBegan' /\ ShowsLatest'
    BY <1>3, <2>1, SMT DEF DInv, Retry, DialogTypeOK, LatestBegan, ShowsLatest, UnderWay
  <2>5. QED
    BY <2>2, <2>3, <2>4 DEF DInv
<1>4. ASSUME NEW n \in Loads, Begin(n) PROVE DInv'
  <2>1. open /\ n <= reqSeq
    BY <1>4, SMT DEF DInv, Begin, DialogTypeOK, DialogThere, QueueIsLast, Loads
  <2>2. n < reqSeq => task[reqSeq] = "queued"
    BY <1>4, <2>1, SMT DEF DInv, Begin, DialogTypeOK, DialogThere, QueueIsLast, Loads
  <2>3. DialogTypeOK' /\ DialogThere'
    BY <1>4, <2>1, SMT DEF DInv, Begin, DialogTypeOK, DialogThere, Loads, TaskStates
  <2>4. QueueIsLast'
    BY <1>4, SMT DEF DInv, Begin, DialogTypeOK, QueueIsLast, Loads
  <2>5. LatestBegan' /\ ShowsLatest'
    BY <1>4, <2>1, <2>2, SMT DEF DInv, Begin, DialogTypeOK, DialogThere, LatestBegan, ShowsLatest,
      UnderWay, Loads
  <2>6. QED
    BY <2>3, <2>4, <2>5 DEF DInv
<1>5. ASSUME NEW n \in Loads, Answer(n) PROVE DInv'
  BY <1>5, SMT DEF DInv, Answer, Answers, signals, DialogTypeOK, DialogThere, QueueIsLast, LatestBegan,
    ShowsLatest, UnderWay, Loads, TaskStates
<1>6. ASSUME NEW n \in Loads, Finish(n) PROVE DInv'
  <2>1. open /\ n # 0
    BY <1>6, SMT DEF DInv, Finish, Answers, DialogTypeOK, DialogThere, QueueIsLast, Loads
  <2>2. DialogTypeOK' /\ DialogThere'
    BY <1>6, <2>1, SMT DEF DInv, Finish, Answers, DialogTypeOK, DialogThere, Loads, TaskStates
  <2>3. QueueIsLast'
    BY <1>6, SMT DEF DInv, Finish, Answers, DialogTypeOK, QueueIsLast, Loads
  <2>4. CASE n = reqSeq
    <3>1. error = 0
      BY <1>6, <2>1, <2>4, SMT DEF DInv, Finish, Answers, LatestBegan, UnderWay
    <3>2. ~loading' /\ task'[reqSeq] = "none" /\ reqSeq' = reqSeq
      BY <1>6, <2>4 DEF DInv, Finish, DialogTypeOK
    <3>3. error' = reqSeq' \/ (error' = 0 /\ data' = reqSeq')
      BY <1>6, <2>4, <3>1, SMT DEF Finish
    <3>4. ~UnderWay(reqSeq)'
      BY <3>2 DEF UnderWay
    <3>5. LatestBegan' /\ ShowsLatest'
      BY <3>2, <3>3, <3>4 DEF LatestBegan, ShowsLatest
    <3>6. QED
      BY <2>2, <2>3, <3>5 DEF DInv
  <2>5. CASE n # reqSeq
    BY <1>6, <2>1, <2>2, <2>3, <2>5, SMT DEF DInv, Finish, Answers, DialogTypeOK, LatestBegan,
      ShowsLatest, UnderWay, Loads
  <2>6. QED
    BY <2>4, <2>5
<1>7. CASE Render
  BY <1>7, SMT DEF DInv, Render, View, signals, DialogTypeOK, DialogThere, QueueIsLast, LatestBegan,
    ShowsLatest, UnderWay, Screens
<1>8. CASE UNCHANGED dialogVars
  BY <1>8, SMT DEF DInv, dialogVars, signals, DialogTypeOK, DialogThere, QueueIsLast, LatestBegan, ShowsLatest,
    UnderWay
<1>9. QED
  BY <1>1, <1>2, <1>3, <1>4, <1>5, <1>6, <1>7, <1>8 DEF DialogNext, Step

\* The dialog shows the outcome of the load asked for last, or its spinner
\* while that load is under way (preview_modal.rs:25 and 77), for any number
\* of loads.
THEOREM DialogShowsLatest == DialogSpec => []ShowsLatest
<1>1. DInv => ShowsLatest
  BY DEF DInv
<1>2. QED
  BY <1>1, InitDialog, NextDialog, PTL DEF DialogSpec

\* Every variable of the dialog keeps its type.
THEOREM DialogWellTyped == DialogSpec => []DialogTypeOK
<1>1. DInv => DialogTypeOK
  BY DEF DInv
<1>2. QED
  BY <1>1, InitDialog, NextDialog, PTL DEF DialogSpec
=============================================================================
