-------------------------- MODULE FetchPoolProofs --------------------------
(***************************************************************************)
(* FetchPool for every set of requests and sources and every CONCURRENCY.  *)
(* PermitsConserved is not inductive by itself: that a task's permit is    *)
(* counted once needs TasksOK, and that a permit given back reaches a      *)
(* request that still waits needs QueueOK.  The second part is about what  *)
(* an answer says of its sources.                                          *)
(***************************************************************************)
EXTENDS FetchPool, FiniteSetTheorems, SequenceTheorems, TLAPS

\* The semaphore's queue holds exactly the waiting requests, each once.
QueueOK ==
  /\ \A i, j \in 1 .. Len(queue) : queue[i] = queue[j] => i = j
  /\ \A i \in 1 .. Len(queue) : phase[queue[i]] = "waiting"
  /\ \A r \in Reqs : phase[r] = "waiting" => \E i \in 1 .. Len(queue) : queue[i] = r

\* A running task is in the JoinSet of a handler that is still there; only
\* the tasks of a dropped handler are being aborted.
InHandler == {"spawning", "waiting", "granted", "joining"}
TasksOK ==
  /\ \A r \in Reqs, s \in Sources :
       /\ task[r][s] = "running" => s \in joinset[r] /\ phase[r] \in InHandler
       /\ task[r][s] = "aborting" => phase[r] = "dropped"
  /\ \A r \in Reqs : phase[r] \in Answers \cup {"idle", "dropped"} => joinset[r] = {}

\* tokio's side of the semaphore: a permit is free only while nobody waits.
NoIdlePermit == queue # <<>> => permits = 0

IInv == TypeOK /\ QueueOK /\ TasksOK /\ NoIdlePermit /\ PermitsConserved

-----------------------------------------------------------------------------
\* AppState::new leaves at least one permit.
LEMMA PermitsPositive == Permits \in Nat \ {0}
BY FetchPoolAssumption DEF Permits

\* A selection of tasks by state is finite, so it can be counted.
LEMMA TasksInFinite == ASSUME NEW states PROVE IsFiniteSet(TasksIn(states))
<1>1. IsFiniteSet(Reqs \X Sources)
  BY FetchPoolAssumption, FS_Product
<1> QED
  BY <1>1, FS_Subset DEF TasksIn

\* So are the requests that were granted a permit.
LEMMA GrantedFinite == IsFiniteSet(Granted)
BY FetchPoolAssumption, FS_Subset DEF Granted

\* RemoveFirst on a queue without repetitions closes the gap at k.
LEMMA RemoveFirstProperties ==
  ASSUME NEW S, NEW q \in Seq(S), NEW k \in 1 .. Len(q),
         \A i, j \in 1 .. Len(q) : q[i] = q[j] => i = j
  PROVE  /\ RemoveFirst(q, q[k]) \in Seq(S)
         /\ Len(RemoveFirst(q, q[k])) = Len(q) - 1
         /\ \A i \in 1 .. Len(q) - 1 :
              RemoveFirst(q, q[k])[i] = IF i < k THEN q[i] ELSE q[i + 1]
<1> DEFINE I == {i \in 1 .. Len(q) : q[i] = q[k]}
<1> DEFINE a == SubSeq(q, 1, k - 1)
<1> DEFINE b == SubSeq(q, k + 1, Len(q))
<1>1. I = {k}
  OBVIOUS
<1>2. Min(I) = k
  BY <1>1 DEF Min
<1>3. SelectInSeq(q, LAMBDA v : v = q[k]) = k
  BY <1>1, <1>2 DEF SelectInSeq
<1>4. RemoveFirst(q, q[k]) = a \o b
  BY <1>3 DEF RemoveFirst, RemoveAt
<1>5. \A i \in 1 .. Len(q) : q[i] \in S
  BY ElementOfSeq
<1>6. /\ a \in Seq(S) /\ Len(a) = k - 1
      /\ \A i \in 1 .. k - 1 : a[i] = q[i]
  BY <1>5, SubSeqProperties
<1>7. /\ b \in Seq(S) /\ Len(b) = Len(q) - k
      /\ \A i \in 1 .. Len(q) - k : b[i] = q[k + i]
  BY <1>5, SubSeqProperties
<1> DEFINE c == a \o b
<1> HIDE DEF a, b
<1>8. /\ c \in Seq(S) /\ Len(c) = Len(a) + Len(b)
      /\ \A i \in 1 .. Len(a) + Len(b) : c[i] = IF i <= Len(a) THEN a[i] ELSE b[i - Len(a)]
  <2>1. a \in Seq(S) /\ b \in Seq(S)
    BY <1>6, <1>7
  <2> QED
    BY <2>1, ConcatProperties DEF c
<1>9. Len(q) \in Nat /\ k \in Nat \ {0} /\ k <= Len(q)
  BY LenProperties
<1> HIDE DEF c
<1>10. \A i \in 1 .. Len(q) - 1 : c[i] = IF i < k THEN q[i] ELSE q[i + 1]
  <2> TAKE i \in 1 .. Len(q) - 1
  <2>1. CASE i < k
    BY <1>6, <1>7, <1>8, <1>9, <2>1
  <2>2. CASE i >= k
    <3> DEFINE j == i - (k - 1)
    <3>1. j \in 1 .. Len(q) - k /\ k + j = i + 1
      BY <1>9, <2>2
    <3>2. i - Len(a) = j
      BY <1>6
    <3>3. i \in 1 .. Len(a) + Len(b) /\ ~(i <= Len(a))
      BY <1>6, <1>7, <1>9, <2>2
    <3>4. c[i] = b[j]
      BY <1>8, <3>2, <3>3
    <3> HIDE DEF j
    <3> QED
      BY <1>7, <1>9, <2>2, <3>1, <3>4
  <2> QED
    BY <1>9, <2>1, <2>2
<1>11. RemoveFirst(q, q[k]) = c
  BY <1>4 DEF c
<1> QED
  BY <1>6, <1>7, <1>8, <1>9, <1>10, <1>11

-----------------------------------------------------------------------------
\* What dropping one permit does, when the step itself leaves the waiting
\* requests waiting: the permit is held by the semaphore or by one request
\* more, and the queue is right again.
LEMMA GiveBackProperties ==
  ASSUME TypeOK, QueueOK, NoIdlePermit,
         NEW ph \in [Reqs -> Phases],
         \A r \in Reqs : ph[r] = "waiting" <=> phase[r] = "waiting",
         GiveBack(ph)
  PROVE  /\ permits' \in Nat
         /\ queue' \in Seq(Reqs)
         /\ phase' \in [Reqs -> Phases]
         /\ QueueOK'
         /\ NoIdlePermit'
         /\ \A r \in Reqs : phase'[r] = ph[r] \/ (phase[r] = "waiting" /\ phase'[r] = "granted")
         /\ permits' + Cardinality(Granted') =
              permits + Cardinality({r \in Reqs : ph[r] = "granted"}) + 1
<1> DEFINE G == {r \in Reqs : ph[r] = "granted"}
<1>1. permits \in Nat /\ queue \in Seq(Reqs)
  BY PermitsPositive DEF TypeOK
<1>2. IsFiniteSet(G) /\ Cardinality(G) \in Nat
  BY FetchPoolAssumption, FS_Subset, FS_CardinalityType
<1>3. CASE queue = <<>>
  <2>1. permits' = permits + 1 /\ queue' = queue /\ phase' = ph
    BY <1>3 DEF GiveBack
  <2>2. Granted' = G
    BY <2>1 DEF Granted
  <2>3. QueueOK' /\ NoIdlePermit'
    BY <1>1, <1>3, <2>1 DEF QueueOK, NoIdlePermit
  <2> QED
    BY <1>1, <1>2, <2>1, <2>2, <2>3
<1>4. CASE queue # <<>>
  <2> DEFINE h == Head(queue)
  <2>1. /\ permits' = permits /\ queue' = Tail(queue)
        /\ phase' = [ph EXCEPT ![h] = "granted"]
    BY <1>4 DEF GiveBack
  <2>2. /\ h \in Reqs /\ h = queue[1]
        /\ queue' \in Seq(Reqs) /\ Len(queue') = Len(queue) - 1
        /\ \A i \in 1 .. Len(queue') : queue'[i] = queue[i + 1]
    BY <1>1, <1>4, <2>1, HeadTailProperties
  <2>3. Len(queue) \in Nat \ {0}
    BY <1>1, <1>4, EmptySeq
  <2>4. phase[h] = "waiting" /\ ph[h] = "waiting"
    BY <2>2, <2>3 DEF QueueOK
  <2> HIDE DEF h
  <2>5. Granted' = G \cup {h} /\ h \notin G
    BY <2>1, <2>2, <2>4 DEF Granted
  <2>6. Cardinality(Granted') = Cardinality(G) + 1
    BY <1>2, <2>5, FS_AddElement
  <2>7. QueueOK'
    <3>1. \A i, j \in 1 .. Len(queue') : queue'[i] = queue'[j] => i = j
      BY <2>2, <2>3 DEF QueueOK
    <3>2. \A i \in 1 .. Len(queue') : phase'[queue'[i]] = "waiting"
      <4> TAKE i \in 1 .. Len(queue')
      <4>1. i + 1 \in 1 .. Len(queue) /\ i + 1 # 1 /\ queue'[i] = queue[i + 1]
        BY <2>2, <2>3
      <4>2. queue[i + 1] # h /\ queue[i + 1] \in Reqs /\ phase[queue[i + 1]] = "waiting"
        BY <1>1, <2>2, <2>3, <4>1, ElementOfSeq DEF QueueOK
      <4> QED
        BY <2>1, <4>1, <4>2
    <3>3. ASSUME NEW r \in Reqs, phase'[r] = "waiting"
          PROVE  \E i \in 1 .. Len(queue') : queue'[i] = r
      <4>1. r # h /\ phase[r] = "waiting"
        BY <2>1, <2>2, <3>3
      <4>2. PICK i \in 1 .. Len(queue) : queue[i] = r
        BY <4>1 DEF QueueOK
      <4>3. i # 1
        BY <2>2, <4>1, <4>2
      <4>4. i - 1 \in 1 .. Len(queue') /\ queue'[i - 1] = queue[(i - 1) + 1]
        BY <2>2, <2>3, <4>3
      <4> QED
        BY <4>2, <4>4
    <3> QED
      BY <3>1, <3>2, <3>3 DEF QueueOK
  <2>8. NoIdlePermit'
    BY <1>4, <2>1 DEF NoIdlePermit
  <2> QED
    BY <1>1, <1>2, <2>1, <2>2, <2>4, <2>6, <2>7, <2>8 DEF Phases
<1> QED
  BY <1>3, <1>4

-----------------------------------------------------------------------------
\* A task that starts adds one live task, a task that stops takes one away.
LEMMA LiveTasksCount == Cardinality(LiveTasks) \in Nat /\ Cardinality(LiveTasks') \in Nat
<1>1. IsFiniteSet(Reqs \X Sources)
  BY FetchPoolAssumption, FS_Product
<1>2. LiveTasks \subseteq Reqs \X Sources /\ LiveTasks' \subseteq Reqs \X Sources
  BY DEF LiveTasks, TasksIn
<1> QED
  BY <1>1, <1>2, FS_Subset, FS_CardinalityType

\* set.spawn adds one live task ...
LEMMA TaskStarts ==
  ASSUME TypeOK, NEW r \in Reqs, NEW s \in Sources, task[r][s] = "none",
         task' = [task EXCEPT ![r][s] = "running"]
  PROVE  Cardinality(LiveTasks') = Cardinality(LiveTasks) + 1
<1>1. task' \in [Reqs -> [Sources -> TaskStates]] /\ task'[r][s] = "running"
  BY DEF TypeOK, TaskStates, Live
<1>2. \A q \in Reqs, x \in Sources : <<q, x>> # <<r, s>> => task'[q][x] = task[q][x]
  BY DEF TypeOK
<1>3. LiveTasks' = LiveTasks \cup {<<r, s>>} /\ <<r, s>> \notin LiveTasks
  BY <1>1, <1>2 DEF LiveTasks, TasksIn, Live
<1> QED
  BY <1>3, TasksInFinite, FS_AddElement DEF LiveTasks

\* ... a task that ends, or is dropped, takes one away ...
LEMMA TaskStops ==
  ASSUME TypeOK, NEW r \in Reqs, NEW s \in Sources, task[r][s] \in Live,
         NEW st \in TaskStates \ Live, task' = [task EXCEPT ![r][s] = st]
  PROVE  Cardinality(LiveTasks') = Cardinality(LiveTasks) - 1
<1>1. task'[r][s] = st
  BY DEF TypeOK
<1>2. \A q \in Reqs, x \in Sources : <<q, x>> # <<r, s>> => task'[q][x] = task[q][x]
  BY DEF TypeOK
<1>3. LiveTasks' = LiveTasks \ {<<r, s>>} /\ <<r, s>> \in LiveTasks
  BY <1>1, <1>2 DEF LiveTasks, TasksIn
<1> QED
  BY <1>3, TasksInFinite, FS_RemoveElement DEF LiveTasks

\* ... and no other step of the pool changes how many are live.
LEMMA TasksStay ==
  ASSUME \A r \in Reqs, s \in Sources : task'[r][s] \in Live <=> task[r][s] \in Live
  PROVE  LiveTasks' = LiveTasks
BY DEF LiveTasks, TasksIn

-----------------------------------------------------------------------------
\* A step that neither touches the semaphore nor lets anybody wait, be
\* granted a permit, or start or stop a task.
SlotsUntouched ==
  /\ UNCHANGED slots
  /\ \A r \in Reqs :
       /\ phase'[r] = "waiting" <=> phase[r] = "waiting"
       /\ phase'[r] = "granted" <=> phase[r] = "granted"

SlotsOK == QueueOK /\ NoIdlePermit /\ PermitsConserved

\* A step that leaves permits, queue, waiters and live tasks alone keeps the
\* semaphore right.
LEMMA UntouchedSlots ==
  ASSUME TypeOK, SlotsOK, SlotsUntouched,
         \A r \in Reqs, s \in Sources : task'[r][s] \in Live <=> task[r][s] \in Live
  PROVE  SlotsOK'
<1>1. QueueOK'
  <2>1. \A i \in 1 .. Len(queue) : queue[i] \in Reqs
    BY ElementOfSeq DEF TypeOK
  <2> QED
    BY <2>1 DEF QueueOK, SlotsUntouched, SlotsOK, slots
<1>2. Granted' = Granted
  BY DEF Granted, SlotsUntouched
<1>3. LiveTasks' = LiveTasks
  BY TasksStay
<1> QED
  BY <1>1, <1>2, <1>3
  DEF SlotsOK, SlotsUntouched, slots, NoIdlePermit, PermitsConserved

\* A task stops and gives back its permit.
LEMMA StoppedSlots ==
  ASSUME TypeOK, SlotsOK, NEW r \in Reqs, NEW s \in Sources, task[r][s] \in Live,
         NEW st \in TaskStates \ Live, task' = [task EXCEPT ![r][s] = st],
         GiveBack(phase)
  PROVE  SlotsOK'
<1>1. Cardinality(LiveTasks') = Cardinality(LiveTasks) - 1
  BY TaskStops
<1>2. /\ QueueOK' /\ NoIdlePermit'
      /\ permits' \in Nat
      /\ permits' + Cardinality(Granted') =
           permits + Cardinality({q \in Reqs : phase[q] = "granted"}) + 1
  BY GiveBackProperties DEF TypeOK, SlotsOK
<1>3. Cardinality(Granted) \in Nat /\ Cardinality(Granted') \in Nat /\ permits \in Nat
  BY FetchPoolAssumption, FS_Subset, FS_CardinalityType, PermitsPositive DEF Granted, TypeOK
<1>4. Granted = {q \in Reqs : phase[q] = "granted"}
  BY DEF Granted
<1>5. permits' + Cardinality(Granted') = permits + Cardinality(Granted) + 1
  BY <1>2, <1>4
<1>6. PermitsConserved'
  BY <1>1, <1>2, <1>3, <1>5, LiveTasksCount, PermitsPositive DEF PermitsConserved, SlotsOK
<1> QED
  BY <1>2, <1>6 DEF SlotsOK

\* A permit passes from the semaphore (d = 1) or from the request it was
\* granted to (d = 0) into a new task.
LEMMA StartedSlots ==
  ASSUME TypeOK, SlotsOK, NEW r \in Reqs, SpawnTask(r), queue' = queue,
         \/ phase[r] = "spawning" /\ permits > 0 /\ permits' = permits - 1
         \/ phase[r] = "granted" /\ permits' = permits
  PROVE  SlotsOK'
<1>1. PICK s \in Sources : task[r][s] = "none" /\ task' = [task EXCEPT ![r][s] = "running"]
  BY DEF SpawnTask, Todo, TypeOK
<1>2. Cardinality(LiveTasks') = Cardinality(LiveTasks) + 1
  BY <1>1, TaskStarts
<1>3. phase' = [phase EXCEPT ![r] = "spawning"]
  BY DEF SpawnTask
<1>4. IsFiniteSet(Granted) /\ Cardinality(Granted) \in Nat /\ permits \in Nat
  BY GrantedFinite, FS_CardinalityType, PermitsPositive DEF TypeOK
<1>5. permits + Cardinality(Granted) = permits' + Cardinality(Granted') + 1
  <2>1. CASE phase[r] = "spawning"
    <3>1. Granted' = Granted
      BY <1>3, <2>1 DEF Granted, TypeOK
    <3> QED
      BY <1>4, <2>1, <3>1
  <2>2. CASE phase[r] = "granted"
    <3>1. Granted' = Granted \ {r} /\ r \in Granted
      BY <1>3, <2>2 DEF Granted, TypeOK
    <3>2. Cardinality(Granted') = Cardinality(Granted) - 1
      BY <1>4, <3>1, FS_RemoveElement
    <3> QED
      BY <1>4, <2>2, <3>2
  <2> QED
    BY <2>1, <2>2
<1>6. QueueOK'
  <2>1. \A i \in 1 .. Len(queue) : queue[i] \in Reqs
    BY ElementOfSeq DEF TypeOK
  <2>2. \A q \in Reqs : phase'[q] = "waiting" <=> phase[q] = "waiting"
    BY <1>3 DEF TypeOK
  <2> QED
    BY <2>1, <2>2 DEF QueueOK, SlotsOK
<1>7. NoIdlePermit'
  BY <1>4 DEF NoIdlePermit, SlotsOK
<1>8. PermitsConserved'
  <2>1. Cardinality(Granted') \in Nat
    BY FetchPoolAssumption, FS_Subset, FS_CardinalityType DEF Granted
  <2>2. permits' \in Nat
    BY <1>4
  <2> QED
    BY <1>2, <1>4, <1>5, <2>1, <2>2, LiveTasksCount DEF PermitsConserved, SlotsOK
<1> QED
  BY <1>6, <1>7, <1>8 DEF SlotsOK

\* A request joins the end of the queue.
LEMMA WaitingSlots ==
  ASSUME TypeOK, SlotsOK, NEW r \in Reqs, AcquireWaits(r)
  PROVE  SlotsOK'
<1>1. /\ phase[r] = "spawning" /\ phase' = [phase EXCEPT ![r] = "waiting"]
      /\ queue' = Append(queue, r) /\ permits = 0 /\ permits' = 0 /\ task' = task
  BY DEF AcquireWaits
<1> DEFINE n == Len(queue)
<1>2. /\ n \in Nat /\ Len(queue') = n + 1
      /\ \A i \in 1 .. n : queue'[i] = queue[i] /\ queue[i] \in Reqs
      /\ queue'[n + 1] = r
  BY <1>1, AppendProperties, LenProperties, ElementOfSeq DEF TypeOK
<1>3. \A i \in 1 .. n : phase[queue[i]] = "waiting" /\ queue[i] # r
  BY <1>1 DEF QueueOK, SlotsOK
<1> HIDE DEF n
<1>4. QueueOK'
  <2>1. \A i, j \in 1 .. n + 1 : queue'[i] = queue'[j] => i = j
    BY <1>2, <1>3 DEF QueueOK, SlotsOK, n
  <2>2. \A i \in 1 .. n + 1 : phase'[queue'[i]] = "waiting"
    BY <1>1, <1>2, <1>3 DEF TypeOK
  <2>3. \A q \in Reqs : phase'[q] = "waiting" => \E i \in 1 .. n + 1 : queue'[i] = q
    BY <1>1, <1>2 DEF TypeOK, QueueOK, SlotsOK, n
  <2> QED
    BY <1>2, <2>1, <2>2, <2>3 DEF QueueOK
<1>5. Granted' = Granted /\ LiveTasks' = LiveTasks
  BY <1>1 DEF Granted, LiveTasks, TasksIn, TypeOK
<1> QED
  BY <1>1, <1>4, <1>5 DEF SlotsOK, NoIdlePermit, PermitsConserved

\* A request leaves the queue, the permit it was granted, or neither.
LEMMA LeavingSlots ==
  ASSUME TypeOK, SlotsOK, NEW r \in Reqs, LeaveSemaphore(r),
         \A q \in Reqs, s \in Sources : task'[q][s] \in Live <=> task[q][s] \in Live
  PROVE  SlotsOK'
<1> DEFINE dropped == [phase EXCEPT ![r] = "dropped"]
<1>1. LiveTasks' = LiveTasks
  BY TasksStay
<1>2. dropped \in [Reqs -> Phases] /\ \A q \in Reqs \ {r} : dropped[q] = phase[q]
  BY DEF TypeOK, Phases
<1>3. CASE phase[r] \in {"spawning", "joining"} /\ phase' = dropped /\ UNCHANGED slots
  <2>1. SlotsUntouched
    BY <1>3 DEF SlotsUntouched, TypeOK
  <2> QED
    BY <2>1, UntouchedSlots
<1>4. CASE /\ phase[r] = "waiting" /\ phase' = dropped
           /\ queue' = RemoveFirst(queue, r) /\ UNCHANGED permits
  <2>1. PICK k \in 1 .. Len(queue) : queue[k] = r
    BY <1>4 DEF QueueOK, SlotsOK
  <2>2. /\ Len(queue') = Len(queue) - 1
        /\ \A i \in 1 .. Len(queue) - 1 : queue'[i] = IF i < k THEN queue[i] ELSE queue[i + 1]
    <3>1. queue \in Seq(Reqs) /\ \A i, j \in 1 .. Len(queue) : queue[i] = queue[j] => i = j
      BY DEF QueueOK, SlotsOK, TypeOK
    <3>2. queue' = RemoveFirst(queue, queue[k])
      BY <1>4, <2>1
    <3> QED
      BY <3>1, <3>2, RemoveFirstProperties
  <2>3. Len(queue) \in Nat /\ \A i \in 1 .. Len(queue) : queue[i] \in Reqs
    BY LenProperties, ElementOfSeq DEF TypeOK
  <2>4. QueueOK'
    <3>1. ASSUME NEW i \in 1 .. Len(queue'), NEW j \in 1 .. Len(queue'), queue'[i] = queue'[j]
          PROVE  i = j
      <4> DEFINE m == IF i < k THEN i ELSE i + 1
      <4> DEFINE n == IF j < k THEN j ELSE j + 1
      <4>1. m \in 1 .. Len(queue) /\ queue'[i] = queue[m]
        BY <2>2, <2>3
      <4>2. n \in 1 .. Len(queue) /\ queue'[j] = queue[n]
        BY <2>2, <2>3
      <4> HIDE DEF m, n
      <4>3. m = n
        BY <3>1, <4>1, <4>2 DEF QueueOK, SlotsOK
      <4> QED
        BY <2>2, <2>3, <4>3 DEF m, n
    <3>2. \A i \in 1 .. Len(queue') : phase'[queue'[i]] = "waiting"
      <4> TAKE i \in 1 .. Len(queue')
      <4> DEFINE j == IF i < k THEN i ELSE i + 1
      <4>1. j \in 1 .. Len(queue) /\ j # k /\ queue'[i] = queue[j]
        BY <2>2, <2>3
      <4>2. queue[j] # r /\ queue[j] \in Reqs /\ phase[queue[j]] = "waiting"
        BY <2>1, <2>3, <4>1 DEF QueueOK, SlotsOK
      <4> QED
        BY <1>2, <1>4, <4>1, <4>2
    <3>3. ASSUME NEW q \in Reqs, phase'[q] = "waiting"
          PROVE  \E i \in 1 .. Len(queue') : queue'[i] = q
      <4>1. q # r /\ phase[q] = "waiting"
        BY <1>2, <1>4, <3>3 DEF TypeOK
      <4>2. PICK j \in 1 .. Len(queue) : queue[j] = q
        BY <4>1 DEF QueueOK, SlotsOK
      <4>3. j # k
        BY <2>1, <4>1, <4>2
      <4>4. CASE j < k
        BY <2>2, <2>3, <4>2, <4>4
      <4>5. CASE j > k
        <5>1. j - 1 \in 1 .. Len(queue') /\ ~(j - 1 < k) /\ (j - 1) + 1 = j
          BY <2>2, <2>3, <4>5
        <5> QED
          BY <2>2, <4>2, <5>1
      <4> QED
        BY <2>3, <4>3, <4>4, <4>5
    <3> QED
      BY <3>1, <3>2, <3>3 DEF QueueOK
  <2>5. Granted' = Granted
    BY <1>2, <1>4 DEF Granted, TypeOK
  <2>6. NoIdlePermit'
    <3>1. queue # <<>>
      BY <2>1, <2>3, EmptySeq
    <3> QED
      BY <1>4, <3>1 DEF NoIdlePermit, SlotsOK
  <2> QED
    BY <1>1, <1>4, <2>4, <2>5, <2>6 DEF SlotsOK, PermitsConserved
<1>5. CASE phase[r] = "granted" /\ GiveBack(dropped)
  <2>1. \A q \in Reqs : dropped[q] = "waiting" <=> phase[q] = "waiting"
    BY <1>2, <1>5 DEF TypeOK
  <2>2. {q \in Reqs : dropped[q] = "granted"} = Granted \ {r} /\ r \in Granted
    BY <1>2, <1>5 DEF Granted, TypeOK
  <2> HIDE DEF dropped
  <2>3. /\ QueueOK' /\ NoIdlePermit' /\ permits' \in Nat
        /\ permits' + Cardinality(Granted') =
             permits + Cardinality({q \in Reqs : dropped[q] = "granted"}) + 1
    BY <1>2, <1>5, <2>1, GiveBackProperties DEF SlotsOK
  <2>4. IsFiniteSet(Granted) /\ Cardinality(Granted) \in Nat
    BY GrantedFinite, FS_CardinalityType
  <2>5. Cardinality(Granted \ {r}) = Cardinality(Granted) - 1
    BY <2>2, <2>4, FS_RemoveElement
  <2>6. permits' + Cardinality(Granted') = permits + (Cardinality(Granted) - 1) + 1
    BY <2>2, <2>3, <2>5
  <2>7. permits \in Nat
    BY PermitsPositive DEF TypeOK
  <2>8. permits' + Cardinality(Granted') = permits + Cardinality(Granted)
    BY <2>4, <2>6, <2>7
  <2> QED
    BY <1>1, <2>3, <2>8 DEF SlotsOK, PermitsConserved
<1> QED
  BY <1>3, <1>4, <1>5 DEF LeaveSemaphore

-----------------------------------------------------------------------------
\* Hanging up aborts what runs and kills nothing else: no task of a handler
\* that is still there is being aborted already.
LEMMA AbortKeepsLive ==
  ASSUME TypeOK, TasksOK, NEW r \in Reqs, phase[r] \in InHandler, AbortAll(r)
  PROVE  \A q \in Reqs, s \in Sources : task'[q][s] \in Live <=> task[q][s] \in Live
<1>1. \A s \in Sources : task[r][s] # "aborting"
  BY DEF TasksOK, InHandler
<1>2. \A s \in Sources :
        task'[r][s] = IF task[r][s] = "running" THEN "aborting" ELSE "none"
  BY DEF AbortAll, TypeOK
<1>3. \A q \in Reqs \ {r} : task'[q] = task[q]
  BY DEF AbortAll, TypeOK
<1> QED
  BY <1>1, <1>2, <1>3 DEF Live

\* The permits and the queue stay right over every step.
LEMMA SlotsStep == TypeOK /\ TasksOK /\ SlotsOK /\ [Next]_vars => SlotsOK'
<1> SUFFICES ASSUME TypeOK, TasksOK, SlotsOK, [Next]_vars PROVE SlotsOK'
  OBVIOUS
<1>1. CASE UNCHANGED <<slots, phase, task>>
  BY <1>1, UntouchedSlots DEF SlotsUntouched
<1>2. ASSUME NEW r \in Reqs, Handler(r) PROVE SlotsOK'
  <2>1. ASSUME UNCHANGED <<slots, task>>,
               NEW p \in {"spawning", "joining", "idle"} \cup Answers,
               phase' = [phase EXCEPT ![r] = p],
               phase[r] \notin {"waiting", "granted"}
        PROVE  SlotsOK'
    <3>1. SlotsUntouched
      BY <2>1 DEF SlotsUntouched, TypeOK, Answers
    <3> QED
      BY <2>1, <3>1, UntouchedSlots
  <2>2. CASE QueryRows(r) \/ QueryFails(r)
    BY <2>1, <2>2 DEF QueryRows, QueryFails
  <2>3. CASE AcquireAndSpawn(r)
    BY <2>3, StartedSlots DEF AcquireAndSpawn
  <2>4. CASE AcquireWaits(r)
    BY <2>4, WaitingSlots
  <2>5. CASE SpawnGranted(r)
    BY <2>5, StartedSlots DEF SpawnGranted, slots
  <2>6. CASE SpawnLoopEnds(r)
    BY <2>1, <2>6 DEF SpawnLoopEnds
  <2>7. CASE JoinNext(r)
    BY <1>1, <2>7 DEF JoinNext
  <2>8. CASE Answer(r)
    <3>1. PICK v \in Verdicts(r) : phase' = [phase EXCEPT ![r] = v]
      BY <2>8 DEF Answer
    <3>2. v \in Answers
      BY <3>1 DEF Verdicts, Answers
    <3> QED
      BY <2>1, <2>8, <3>1, <3>2 DEF Answer
  <2>9. CASE Close(r)
    <3>1. /\ phase[r] \in Answers /\ UNCHANGED slots
          /\ phase' = [phase EXCEPT ![r] = "idle"]
          /\ task' = [task EXCEPT ![r] = [s \in Sources |-> "none"]]
      BY <2>9 DEF Close
    <3>2. SlotsUntouched
      BY <3>1 DEF SlotsUntouched, TypeOK, Answers
    <3>3. \A s \in Sources : task[r][s] \notin Live
      BY <3>1 DEF TasksOK, Live, Answers
    <3>4. \A q \in Reqs, s \in Sources : task'[q][s] \in Live <=> task[q][s] \in Live
      BY <3>1, <3>3 DEF TypeOK, Live
    <3> QED
      BY <3>2, <3>4, UntouchedSlots
  <2>10. CASE Disconnect(r)
    <3>1. LeaveSemaphore(r) /\ AbortAll(r)
      BY <2>10 DEF Disconnect
    <3>2. phase[r] \in InHandler
      BY <3>1 DEF LeaveSemaphore, InHandler
    <3> QED
      BY <3>1, <3>2, AbortKeepsLive, LeavingSlots
  <2>11. CASE SlotFree(r)
    BY <2>1, <2>11 DEF SlotFree
  <2> QED
    BY <1>2, <2>2, <2>3, <2>4, <2>5, <2>6, <2>7, <2>8, <2>9, <2>10, <2>11 DEF Handler
<1>3. ASSUME NEW r \in Reqs, NEW s \in Sources, TaskStep(r, s) PROVE SlotsOK'
  <2>1. CASE TaskEnds(r, s)
    <3>1. PICK out \in Results(s) : task' = [task EXCEPT ![r][s] = out]
      BY <2>1 DEF TaskEnds
    <3>2. out \in TaskStates \ Live
      BY <3>1 DEF Results, TaskStates, Outcomes, Live
    <3> QED
      BY <2>1, <3>1, <3>2, StoppedSlots DEF TaskEnds, Live
  <2>2. CASE AbortedTaskDropped(r, s)
    <3>1. "none" \in TaskStates \ Live
      BY DEF TaskStates, Live
    <3> QED
      BY <2>2, <3>1, StoppedSlots DEF AbortedTaskDropped, Live
  <2> QED
    BY <1>3, <2>1, <2>2 DEF TaskStep
<1>4. ASSUME NEW f \in Refreshers, RefreshStarts(f) \/ RefreshEnds(f) PROVE SlotsOK'
  BY <1>1, <1>4 DEF RefreshStarts, RefreshEnds
<1> QED
  BY <1>1, <1>2, <1>3, <1>4 DEF Next, vars, slots

-----------------------------------------------------------------------------
Undisturbed(q) ==
  phase'[q] = phase[q] \/ (phase[q] = "waiting" /\ phase'[q] = "granted")

\* Giving back a permit moves at most one waiting handler to "granted".
LEMMA GiveBackKeepsHandlers ==
  ASSUME TypeOK, QueueOK, NoIdlePermit, GiveBack(phase)
  PROVE  \A q \in Reqs : Undisturbed(q)
BY GiveBackProperties DEF TypeOK, InHandler, Undisturbed

\* A handler that is dropped disturbs at most one other: the oldest waiter,
\* if there was a permit to pass on.
LEMMA LeavingHandlers ==
  ASSUME TypeOK, SlotsOK, NEW r \in Reqs, LeaveSemaphore(r)
  PROVE  /\ permits' \in Nat
         /\ queue' \in Seq(Reqs)
         /\ phase' \in [Reqs -> Phases]
         /\ phase'[r] = "dropped"
         /\ \A q \in Reqs \ {r} : Undisturbed(q)
<1> DEFINE dropped == [phase EXCEPT ![r] = "dropped"]
<1>1. /\ dropped \in [Reqs -> Phases] /\ dropped[r] = "dropped"
      /\ \A q \in Reqs \ {r} : dropped[q] = phase[q]
  BY DEF TypeOK, Phases
<1>2. permits \in Nat /\ queue \in Seq(Reqs)
  BY PermitsPositive DEF TypeOK
<1>3. CASE phase[r] \in {"spawning", "joining"} /\ phase' = dropped /\ UNCHANGED slots
  BY <1>1, <1>2, <1>3 DEF slots, Undisturbed
<1>4. CASE /\ phase[r] = "waiting" /\ phase' = dropped
           /\ queue' = RemoveFirst(queue, r) /\ UNCHANGED permits
  <2>1. PICK k \in 1 .. Len(queue) : queue[k] = r
    BY <1>4 DEF QueueOK, SlotsOK
  <2>2. \A i, j \in 1 .. Len(queue) : queue[i] = queue[j] => i = j
    BY DEF QueueOK, SlotsOK
  <2>3. queue' \in Seq(Reqs)
    BY <1>2, <1>4, <2>1, <2>2, RemoveFirstProperties
  <2> QED
    BY <1>1, <1>2, <1>4, <2>3 DEF Undisturbed
<1>5. CASE phase[r] = "granted" /\ GiveBack(dropped)
  <2>1. \A q \in Reqs : dropped[q] = "waiting" <=> phase[q] = "waiting"
    BY <1>1, <1>5
  <2> HIDE DEF dropped
  <2> QED
    BY <1>1, <1>5, <2>1, GiveBackProperties DEF SlotsOK, InHandler, Undisturbed
<1> QED
  BY <1>3, <1>4, <1>5 DEF LeaveSemaphore

\* Every step keeps running tasks in the JoinSet of a handler that is there,
\* and aborted ones to handlers that are gone.
LEMMA TasksStep ==
  TypeOK /\ SlotsOK /\ TasksOK /\ [Next]_vars => TasksOK'
<1> SUFFICES ASSUME TypeOK, SlotsOK, TasksOK, [Next]_vars PROVE TasksOK'
  OBVIOUS
<1>1. CASE UNCHANGED <<phase, task, joinset>>
  BY <1>1 DEF TasksOK
<1>2. ASSUME NEW r \in Reqs, Handler(r) PROVE TasksOK'
  <2>1. CASE QueryRows(r) \/ QueryFails(r) \/ AcquireWaits(r) \/ SpawnLoopEnds(r)
    <3>1. PICK p \in InHandler : phase' = [phase EXCEPT ![r] = p]
      BY <2>1 DEF QueryRows, QueryFails, AcquireWaits, SpawnLoopEnds, InHandler
    <3>2. phase[r] \in {"idle", "spawning"} /\ UNCHANGED <<task, joinset>>
      BY <2>1 DEF QueryRows, QueryFails, AcquireWaits, SpawnLoopEnds
    <3>3. phase'[r] = p /\ \A q \in Reqs \ {r} : phase'[q] = phase[q]
      BY <3>1 DEF TypeOK
    <3> QED
      BY <3>2, <3>3 DEF TasksOK, InHandler, Answers
  <2>2. CASE AcquireAndSpawn(r) \/ SpawnGranted(r)
    <3>1. PICK s \in Todo(r) :
            /\ task' = [task EXCEPT ![r][s] = "running"]
            /\ joinset' = [joinset EXCEPT ![r] = @ \cup {s}]
            /\ phase' = [phase EXCEPT ![r] = "spawning"]
      BY <2>2 DEF AcquireAndSpawn, SpawnGranted, SpawnTask
    <3>2. phase[r] \in {"spawning", "granted"}
      BY <2>2 DEF AcquireAndSpawn, SpawnGranted
    <3>3. s \in Sources
      BY <3>1 DEF Todo, TypeOK
    <3>4. /\ task'[r][s] = "running" /\ phase'[r] = "spawning" /\ joinset'[r] = joinset[r] \cup {s}
          /\ \A x \in Sources \ {s} : task'[r][x] = task[r][x]
          /\ \A q \in Reqs \ {r} :
               task'[q] = task[q] /\ phase'[q] = phase[q] /\ joinset'[q] = joinset[q]
      BY <3>1, <3>3 DEF TypeOK
    <3> QED
      BY <3>2, <3>4 DEF TasksOK, InHandler, Answers
  <2>3. CASE JoinNext(r)
    <3>1. PICK s \in joinset[r] :
            joinset' = [joinset EXCEPT ![r] = @ \ {s}] /\ task[r][s] \in Outcomes
      BY <2>3 DEF JoinNext, Outcomes
    <3>2. task' = task /\ phase' = phase
      BY <2>3 DEF JoinNext
    <3>3. /\ joinset'[r] = joinset[r] \ {s}
          /\ \A q \in Reqs \ {r} : joinset'[q] = joinset[q]
      BY <3>1 DEF TypeOK
    <3> QED
      BY <3>1, <3>2, <3>3 DEF TasksOK, Outcomes
  <2>4. CASE Answer(r)
    <3>1. PICK v \in Verdicts(r) : phase' = [phase EXCEPT ![r] = v]
      BY <2>4 DEF Answer
    <3>2. v \in Answers /\ phase[r] = "joining" /\ joinset[r] = {}
      BY <2>4, <3>1 DEF Verdicts, Answers, Answer
    <3>3. UNCHANGED <<task, joinset>>
      BY <2>4 DEF Answer
    <3>4. phase'[r] = v /\ \A q \in Reqs \ {r} : phase'[q] = phase[q]
      BY <3>1 DEF TypeOK
    <3>5. \A s \in Sources : task[r][s] \notin Live
      BY <3>2 DEF TasksOK, Live
    <3> QED
      BY <3>2, <3>3, <3>4, <3>5 DEF TasksOK, Live
  <2>5. CASE Close(r)
    BY <2>5 DEF Close, Forget, TasksOK, TypeOK
  <2>6. CASE Disconnect(r)
    <3>1. LeaveSemaphore(r) /\ AbortAll(r) /\ Forget(r)
      BY <2>6 DEF Disconnect
    <3>2. /\ phase'[r] = "dropped"
          /\ \A q \in Reqs \ {r} : Undisturbed(q)
      BY <3>1, LeavingHandlers
    <3>3. /\ joinset'[r] = {}
          /\ \A s \in Sources : task'[r][s] # "running"
          /\ \A q \in Reqs \ {r} : joinset'[q] = joinset[q] /\ task'[q] = task[q]
      BY <3>1 DEF AbortAll, Forget, TypeOK
    <3> QED
      BY <3>2, <3>3 DEF TasksOK, InHandler, Answers, Undisturbed
  <2>7. CASE SlotFree(r)
    BY <2>7 DEF SlotFree, TasksOK, TypeOK, InHandler, Answers
  <2> QED
    BY <1>2, <2>1, <2>2, <2>3, <2>4, <2>5, <2>6, <2>7 DEF Handler
<1>3. ASSUME NEW r \in Reqs, NEW s \in Sources, TaskStep(r, s) PROVE TasksOK'
  <2>1. PICK st \in TaskStates \ Live : task' = [task EXCEPT ![r][s] = st]
    <3>1. CASE TaskEnds(r, s)
      BY <3>1 DEF TaskEnds, Results, Outcomes, TaskStates, Live
    <3>2. CASE AbortedTaskDropped(r, s)
      BY <3>2 DEF AbortedTaskDropped, Outcomes, TaskStates, Live
    <3> QED
      BY <1>3, <3>1, <3>2 DEF TaskStep
  <2>2. joinset' = joinset /\ GiveBack(phase)
    BY <1>3 DEF TaskStep, TaskEnds, AbortedTaskDropped
  <2>3. \A q \in Reqs : Undisturbed(q)
    BY <2>2, GiveBackKeepsHandlers DEF SlotsOK
  <2>4. \A q \in Reqs, x \in Sources : task'[q][x] \in Live => task'[q][x] = task[q][x]
    BY <2>1 DEF TypeOK
  <2> QED
    BY <2>2, <2>3, <2>4 DEF TasksOK, Live, InHandler, Answers, Undisturbed
<1>4. ASSUME NEW f \in Refreshers, RefreshStarts(f) \/ RefreshEnds(f) PROVE TasksOK'
  BY <1>1, <1>4 DEF RefreshStarts, RefreshEnds
<1> QED
  BY <1>1, <1>2, <1>3, <1>4 DEF Next, vars

-----------------------------------------------------------------------------
\* The types of everything but the bound on the permits, which follows from
\* PermitsConserved.
TypeOfSlots == permits' \in Nat /\ queue' \in Seq(Reqs) /\ phase' \in [Reqs -> Phases]

TypeOfTasks ==
  /\ rows' \in [Reqs -> SUBSET Sources]
  /\ task' \in [Reqs -> [Sources -> TaskStates]]
  /\ joinset' \in [Reqs -> SUBSET Sources]
  /\ nodes' \in [Reqs -> Nat]
  /\ errors' \in [Reqs -> SUBSET (Sources \cup {QueryError})]
  /\ refresh' \in [Refreshers -> {"idle", "fetching"}]

\* Every step keeps the types of the semaphore and the phases ...
LEMMA SlotTypesStep == TypeOK /\ SlotsOK /\ [Next]_vars => TypeOfSlots
<1> SUFFICES ASSUME TypeOK, SlotsOK, [Next]_vars PROVE TypeOfSlots
  OBVIOUS
<1>1. permits \in Nat /\ queue \in Seq(Reqs) /\ phase \in [Reqs -> Phases]
  BY PermitsPositive DEF TypeOK
<1>2. CASE UNCHANGED <<slots, phase>>
  BY <1>1, <1>2 DEF slots, TypeOfSlots
<1>3. ASSUME NEW r \in Reqs, NEW p \in Phases, phase' = [phase EXCEPT ![r] = p],
             permits' \in {permits, permits - 1}, permits' \in {permits} \/ permits > 0,
             queue' \in Seq(Reqs)
      PROVE  TypeOfSlots
  BY <1>1, <1>3 DEF TypeOfSlots
<1>4. ASSUME NEW r \in Reqs, Handler(r) PROVE TypeOfSlots
  <2>1. CASE QueryRows(r) \/ QueryFails(r) \/ SpawnLoopEnds(r) \/ Close(r) \/ SlotFree(r)
             \/ SpawnGranted(r)
    <3>1. PICK p \in {"spawning", "joining", "idle"} : phase' = [phase EXCEPT ![r] = p]
      BY <2>1 DEF QueryRows, QueryFails, SpawnLoopEnds, Close, SlotFree, SpawnGranted, SpawnTask
    <3>2. UNCHANGED slots
      BY <2>1 DEF QueryRows, QueryFails, SpawnLoopEnds, Close, SlotFree, SpawnGranted
    <3> QED
      BY <1>1, <1>3, <3>1, <3>2 DEF slots, Phases
  <2>2. CASE AcquireAndSpawn(r)
    BY <1>1, <1>3, <2>2 DEF AcquireAndSpawn, SpawnTask, Phases
  <2>3. CASE AcquireWaits(r)
    <3>1. queue' \in Seq(Reqs)
      BY <1>1, <2>3, AppendProperties DEF AcquireWaits
    <3> QED
      BY <1>1, <1>3, <2>3, <3>1 DEF AcquireWaits, Phases
  <2>4. CASE JoinNext(r)
    BY <1>2, <2>4 DEF JoinNext
  <2>5. CASE Answer(r)
    <3>1. PICK v \in Verdicts(r) : phase' = [phase EXCEPT ![r] = v]
      BY <2>5 DEF Answer
    <3>2. v \in Phases
      BY <3>1 DEF Verdicts, Phases, Answers
    <3> QED
      BY <1>1, <1>3, <2>5, <3>1, <3>2 DEF Answer, slots
  <2>6. CASE Disconnect(r)
    BY <2>6, LeavingHandlers DEF Disconnect, TypeOfSlots
  <2> QED
    BY <1>4, <2>1, <2>2, <2>3, <2>4, <2>5, <2>6 DEF Handler
<1>5. ASSUME NEW r \in Reqs, NEW s \in Sources, TaskStep(r, s) PROVE TypeOfSlots
  <2>1. GiveBack(phase)
    BY <1>5 DEF TaskStep, TaskEnds, AbortedTaskDropped
  <2> QED
    BY <1>1, <2>1, GiveBackProperties DEF SlotsOK, TypeOfSlots
<1>6. ASSUME NEW f \in Refreshers, RefreshStarts(f) \/ RefreshEnds(f) PROVE TypeOfSlots
  BY <1>2, <1>6 DEF RefreshStarts, RefreshEnds
<1> QED
  BY <1>2, <1>4, <1>5, <1>6 DEF Next, vars, slots

\* ... and those of the rows, tasks and results.
LEMMA TaskTypesStep == TypeOK /\ [Next]_vars => TypeOfTasks
<1> SUFFICES ASSUME TypeOK, [Next]_vars PROVE TypeOfTasks
  OBVIOUS
<1> USE DEF TypeOK, TypeOfTasks
<1>1. CASE UNCHANGED vars
  BY <1>1 DEF vars
<1>2. ASSUME NEW r \in Reqs, Handler(r) PROVE TypeOfTasks
  <2>1. CASE QueryRows(r)
    <3>1. PICK found \in Selects[r] : rows' = [rows EXCEPT ![r] = found]
      BY <2>1 DEF QueryRows
    <3>2. found \in SUBSET Sources
      BY <3>1, FetchPoolAssumption
    <3> QED
      BY <2>1, <3>1, <3>2 DEF QueryRows
  <2>2. CASE QueryFails(r)
    BY <2>2 DEF QueryFails
  <2>3. CASE AcquireAndSpawn(r) \/ SpawnGranted(r)
    <3>1. PICK s \in Todo(r) : /\ task' = [task EXCEPT ![r][s] = "running"]
                               /\ joinset' = [joinset EXCEPT ![r] = @ \cup {s}]
      BY <2>3 DEF AcquireAndSpawn, SpawnGranted, SpawnTask
    <3>2. s \in Sources
      BY <3>1 DEF Todo
    <3>3. UNCHANGED <<rows, nodes, errors, refresh>>
      BY <2>3 DEF AcquireAndSpawn, SpawnGranted
    <3> QED
      BY <3>1, <3>2, <3>3 DEF TaskStates, Live
  <2>4. CASE AcquireWaits(r) \/ SpawnLoopEnds(r) \/ SlotFree(r)
    BY <2>4 DEF AcquireWaits, SpawnLoopEnds, SlotFree
  <2>5. CASE JoinNext(r)
    <3>1. PICK s \in joinset[r] :
            /\ joinset' = [joinset EXCEPT ![r] = @ \ {s}]
            /\ \/ /\ \E n \in Yields(s) : nodes' = [nodes EXCEPT ![r] = @ + n]
                  /\ UNCHANGED errors
               \/ /\ errors' = [errors EXCEPT ![r] = @ \cup {s}]
                  /\ UNCHANGED nodes
               \/ UNCHANGED <<nodes, errors>>
      BY <2>5 DEF JoinNext
    <3>2. Yields(s) \subseteq Nat
      BY FetchPoolAssumption DEF Yields
    <3>3. s \in Sources
      OBVIOUS
    <3>4. nodes' \in [Reqs -> Nat]
      BY <3>1, <3>2
    <3>5. errors' \in [Reqs -> SUBSET (Sources \cup {QueryError})]
      BY <3>1, <3>3
    <3> QED
      BY <2>5, <3>1, <3>4, <3>5 DEF JoinNext
  <2>6. CASE Answer(r)
    <3>1. Truncated(r) \in Nat
      BY FetchPoolAssumption DEF Truncated
    <3> QED
      BY <2>6, <3>1 DEF Answer
  <2>7. CASE Close(r)
    BY <2>7 DEF Close, Forget, TaskStates
  <2>8. CASE Disconnect(r)
    BY <2>8 DEF Disconnect, AbortAll, Forget, TaskStates, Live
  <2> QED
    BY <1>2, <2>1, <2>2, <2>3, <2>4, <2>5, <2>6, <2>7, <2>8 DEF Handler
<1>3. ASSUME NEW r \in Reqs, NEW s \in Sources, TaskStep(r, s) PROVE TypeOfTasks
  <2>1. CASE TaskEnds(r, s)
    BY <2>1 DEF TaskEnds, Results, Outcomes, TaskStates
  <2>2. CASE AbortedTaskDropped(r, s)
    BY <2>2 DEF AbortedTaskDropped, TaskStates
  <2> QED
    BY <1>3, <2>1, <2>2 DEF TaskStep
<1>4. ASSUME NEW f \in Refreshers, RefreshStarts(f) \/ RefreshEnds(f) PROVE TypeOfTasks
  BY <1>4 DEF RefreshStarts, RefreshEnds
<1> QED
  BY <1>1, <1>2, <1>3, <1>4 DEF Next

-----------------------------------------------------------------------------
\* The invariant holds at startup ...
LEMMA InitIInv == Init => IInv
<1> SUFFICES ASSUME Init PROVE IInv
  OBVIOUS
<1> USE DEF Init
<1>1. TypeOK
  BY PermitsPositive, EmptySeq DEF TypeOK, Phases, TaskStates
<1>2. QueueOK
  BY EmptySeq DEF QueueOK
<1>3. TasksOK
  BY DEF TasksOK
<1>4. NoIdlePermit
  BY DEF NoIdlePermit
<1>5. PermitsConserved
  <2>1. Granted = {} /\ LiveTasks = {}
    BY DEF Granted, LiveTasks, TasksIn, Live
  <2> QED
    BY <2>1, FS_EmptySet, PermitsPositive DEF PermitsConserved
<1> QED
  BY <1>1, <1>2, <1>3, <1>4, <1>5 DEF IInv

\* ... and every step of fetch_and_merge, its tasks and its clients keeps it.
LEMMA NextIInv == IInv /\ [Next]_vars => IInv'
<1> SUFFICES ASSUME IInv, [Next]_vars PROVE IInv'
  OBVIOUS
<1>1. TypeOK /\ TasksOK /\ SlotsOK
  BY DEF IInv, SlotsOK
<1>2. SlotsOK' /\ TasksOK'
  BY <1>1, SlotsStep, TasksStep
<1>3. TypeOfSlots /\ TypeOfTasks
  BY <1>1, SlotTypesStep, TaskTypesStep
<1>4. permits' \in 0 .. Permits
  <2>1. Cardinality(Granted') \in Nat
    BY FetchPoolAssumption, FS_Subset, FS_CardinalityType DEF Granted
  <2> QED
    BY <1>2, <1>3, <2>1, LiveTasksCount, PermitsPositive
    DEF SlotsOK, PermitsConserved, TypeOfSlots
<1> QED
  BY <1>2, <1>3, <1>4 DEF IInv, SlotsOK, TypeOK, TypeOfSlots, TypeOfTasks

\* The inductive invariant holds in every reachable state.
THEOREM Invariant == Spec => []IInv
BY InitIInv, NextIInv, PTL DEF Spec

\* Every variable of the pool keeps its type, and the semaphore never holds
\* more permits than it was made with.
THEOREM TypeCorrect == Spec => []TypeOK
<1>1. IInv => TypeOK
  BY DEF IInv
<1> QED
  BY <1>1, Invariant, PTL

\* service.rs never loses a permit and never makes one up, whichever way a
\* task or a handler ends.
THEOREM PermitsAreConserved == Spec => []PermitsConserved
<1>1. IInv => PermitsConserved
  BY DEF IInv
<1> QED
  BY <1>1, Invariant, PTL

\* The fetches of all subscribe and preview requests together stay within
\* CONCURRENCY, however many requests there are.
THEOREM MergeFetchesCapped == Spec => []MergeFetchCap
<1>1. IInv => MergeFetchCap
  <2> SUFFICES ASSUME IInv PROVE MergeFetchCap
    OBVIOUS
  <2>1. IsFiniteSet(LiveTasks) /\ Outbound \subseteq LiveTasks
    BY TasksInFinite DEF LiveTasks, Outbound
  <2>2. /\ Cardinality(Outbound) \in Nat /\ Cardinality(LiveTasks) \in Nat
        /\ Cardinality(Outbound) <= Cardinality(LiveTasks)
    BY <2>1, FS_Subset, FS_CardinalityType
  <2>3. Cardinality(Granted) \in Nat /\ permits \in Nat
    BY GrantedFinite, FS_CardinalityType, PermitsPositive DEF IInv, TypeOK
  <2> QED
    BY <2>2, <2>3, PermitsPositive DEF MergeFetchCap, IInv, PermitsConserved
<1> QED
  BY <1>1, Invariant, PTL

\* A request that has answered left no task, and one whose client hung up none
\* that runs on.
THEOREM RequestsLeaveNothing == Spec => []NothingOutlivesTheRequest
<1>1. IInv => NothingOutlivesTheRequest
  BY DEF IInv, TasksOK, NothingOutlivesTheRequest, Answers, InHandler
<1> QED
  BY <1>1, Invariant, PTL
-----------------------------------------------------------------------------
(* What an answer says about its sources: RowsAccounted and                *)
(* RefusedWhenAllFailed.  Both are about the moment of the answer; Merged  *)
(* follows each row from the SELECT to it, through task, JoinSet and the   *)
(* two lists.                                                              *)

Merged(r) ==
  /\ phase[r] \in {"idle", "dropped"} =>
       rows[r] = {} /\ joinset[r] = {} /\ errors[r] = {} /\ nodes[r] = 0
  /\ phase[r] \in {"joining"} \cup Answers => \A s \in rows[r] : task[r][s] # "none"
  /\ \A s \in Sources :
       /\ task[r][s] \notin {"none", "aborting"} => s \in rows[r]
       /\ s \in joinset[r] => task[r][s] # "none"
       /\ task[r][s] = "err" => s \in joinset[r] \cup errors[r]
       /\ s \in errors[r] => task[r][s] = "err" /\ s \notin joinset[r]
       /\ task[r][s] = "ok" => s \in Singles \/ MaxNodes > 0
       /\ task[r][s] = "ok" /\ s \notin joinset[r] /\ (phase[r] \notin Answers \/ MaxNodes > 0)
            => nodes[r] > 0
  /\ nodes[r] > 0 => \E s \in rows[r] : task[r][s] = "ok" /\ s \notin joinset[r]
  /\ phase[r] = "502" => errors[r] # {} /\ nodes[r] = 0
  /\ phase[r] \in {"200", "500"} /\ r \notin Previews => nodes[r] > 0 \/ errors[r] = {}

MInv == IInv /\ \A r \in Reqs : Merged(r)

\* What a step of one request leaves of another.
Untouched(q) ==
  /\ rows'[q] = rows[q] /\ task'[q] = task[q] /\ joinset'[q] = joinset[q]
  /\ nodes'[q] = nodes[q] /\ errors'[q] = errors[q]
  /\ Undisturbed(q)

\* A request that a step leaves alone stays right.
LEMMA UntouchedMerged == ASSUME NEW q \in Reqs, Merged(q), Untouched(q) PROVE Merged(q)'
BY DEF Merged, Untouched, Undisturbed, Answers

\* The SELECT, and the steps that only wait or change the phase.
LEMMA PhaseSteps ==
  ASSUME MInv, NEW r \in Reqs,
         QueryRows(r) \/ QueryFails(r) \/ AcquireWaits(r) \/ SpawnLoopEnds(r) \/ SlotFree(r)
  PROVE  Merged(r)' /\ \A q \in Reqs \ {r} : Untouched(q)
<1>1. TypeOK /\ TasksOK /\ Merged(r)
  BY DEF MInv, IInv
<1>2. CASE QueryRows(r)
  <2>1. PICK found \in SUBSET Sources : rows' = [rows EXCEPT ![r] = found]
    BY <1>2, FetchPoolAssumption DEF QueryRows
  <2>2. /\ phase[r] = "idle" /\ phase' = [phase EXCEPT ![r] = "spawning"]
        /\ UNCHANGED <<slots, task, joinset, nodes, errors, refresh>>
    BY <1>2 DEF QueryRows
  <2>3. /\ rows'[r] = found /\ phase'[r] = "spawning"
        /\ \A q \in Reqs \ {r} : rows'[q] = rows[q] /\ phase'[q] = phase[q]
    BY <1>1, <2>1, <2>2 DEF TypeOK
  <2>4. Merged(r)'
    BY <1>1, <2>2, <2>3 DEF Merged, TasksOK, Answers
  <2> QED
    BY <2>2, <2>3, <2>4 DEF Untouched, Undisturbed
<1>3. CASE QueryFails(r)
  <2>1. /\ phase[r] = "idle" /\ phase' = [phase EXCEPT ![r] = "spawning"]
        /\ errors' \in {errors, [errors EXCEPT ![r] = {QueryError}]}
        /\ UNCHANGED <<slots, rows, task, joinset, nodes, refresh>>
    BY <1>3 DEF QueryFails
  <2>2. /\ phase'[r] = "spawning" /\ errors'[r] \in {errors[r], {QueryError}}
        /\ \A q \in Reqs \ {r} : errors'[q] = errors[q] /\ phase'[q] = phase[q]
    BY <1>1, <2>1 DEF TypeOK
  <2>3. Merged(r)'
    BY <1>1, <2>1, <2>2, FetchPoolAssumption DEF Merged, Answers
  <2> QED
    BY <2>1, <2>2, <2>3 DEF Untouched, Undisturbed
<1>4. CASE AcquireWaits(r) \/ SpawnLoopEnds(r) \/ SlotFree(r)
  <2>1. PICK p \in {"waiting", "joining", "idle"} : phase' = [phase EXCEPT ![r] = p]
    BY <1>4 DEF AcquireWaits, SpawnLoopEnds, SlotFree
  <2>2. UNCHANGED <<rows, task, joinset, nodes, errors>>
    BY <1>4 DEF AcquireWaits, SpawnLoopEnds, SlotFree
  <2>3. phase'[r] = p /\ \A q \in Reqs \ {r} : phase'[q] = phase[q]
    BY <1>1, <2>1 DEF TypeOK
  <2>4. /\ p = "waiting" => phase[r] = "spawning"
        /\ p = "joining" => phase[r] = "spawning" /\ \A s \in rows[r] : task[r][s] # "none"
        /\ p = "idle" => phase[r] = "dropped"
    <3>1. CASE AcquireWaits(r)
      BY <1>1, <2>3, <3>1 DEF AcquireWaits, TypeOK
    <3>2. CASE SpawnLoopEnds(r)
      BY <1>1, <2>3, <3>2 DEF SpawnLoopEnds, TypeOK, Todo
    <3>3. CASE SlotFree(r)
      BY <1>1, <2>3, <3>3 DEF SlotFree, TypeOK
    <3> QED
      BY <1>4, <3>1, <3>2, <3>3
  <2>5. Merged(r)'
    BY <1>1, <2>2, <2>3, <2>4 DEF Merged, Answers
  <2> QED
    BY <2>2, <2>3, <2>5 DEF Untouched, Undisturbed
<1> QED
  BY <1>2, <1>3, <1>4

\* A task is spawned for a row that had none.
LEMMA SpawnStep ==
  ASSUME MInv, NEW r \in Reqs, AcquireAndSpawn(r) \/ SpawnGranted(r)
  PROVE  Merged(r)' /\ \A q \in Reqs \ {r} : Untouched(q)
<1>1. TypeOK /\ Merged(r)
  BY DEF MInv, IInv
<1>2. PICK s \in Todo(r) :
        /\ task' = [task EXCEPT ![r][s] = "running"]
        /\ joinset' = [joinset EXCEPT ![r] = @ \cup {s}]
        /\ phase' = [phase EXCEPT ![r] = "spawning"]
  BY DEF AcquireAndSpawn, SpawnGranted, SpawnTask
<1>3. phase[r] \in {"spawning", "granted"} /\ UNCHANGED <<rows, nodes, errors>>
  BY DEF AcquireAndSpawn, SpawnGranted
<1>4. s \in rows[r] /\ s \in Sources /\ task[r][s] = "none"
  BY <1>1 DEF Todo, TypeOK
<1>5. /\ task'[r][s] = "running" /\ phase'[r] = "spawning" /\ joinset'[r] = joinset[r] \cup {s}
      /\ \A x \in Sources \ {s} : task'[r][x] = task[r][x]
      /\ \A q \in Reqs \ {r} :
           task'[q] = task[q] /\ phase'[q] = phase[q] /\ joinset'[q] = joinset[q]
  BY <1>1, <1>2, <1>4 DEF TypeOK
<1>6. rows[r] \subseteq Sources
  BY <1>1 DEF TypeOK
<1>7. Merged(r)'
  BY <1>1, <1>3, <1>4, <1>5, <1>6 DEF Merged, Answers
<1> QED
  BY <1>3, <1>5, <1>7 DEF Untouched, Undisturbed

\* join_next: a success adds nodes, a failure its source, a panic neither.
LEMMA JoinStep ==
  ASSUME MInv, NEW r \in Reqs, JoinNext(r)
  PROVE  Merged(r)' /\ \A q \in Reqs \ {r} : Untouched(q)
<1>1. TypeOK /\ Merged(r)
  BY DEF MInv, IInv
<1>2. PICK s \in joinset[r] :
        /\ joinset' = [joinset EXCEPT ![r] = @ \ {s}]
        /\ \/ /\ task[r][s] = "ok"
              /\ \E n \in Yields(s) : nodes' = [nodes EXCEPT ![r] = @ + n]
              /\ UNCHANGED errors
           \/ /\ task[r][s] = "err"
              /\ errors' = [errors EXCEPT ![r] = @ \cup {s}]
              /\ UNCHANGED nodes
           \/ /\ task[r][s] = "panic"
              /\ UNCHANGED <<nodes, errors>>
  BY DEF JoinNext
<1>3. phase[r] = "joining" /\ UNCHANGED <<phase, rows, task>>
  BY DEF JoinNext
<1>4. /\ joinset'[r] = joinset[r] \ {s} /\ s \in Sources /\ s \in rows[r]
      /\ \A q \in Reqs \ {r} : joinset'[q] = joinset[q]
  BY <1>1, <1>2 DEF TypeOK, Merged
<1>5. nodes[r] \in Nat /\ rows[r] \subseteq Sources
  BY <1>1 DEF TypeOK
<1>6. CASE /\ task[r][s] = "ok"
           /\ \E n \in Yields(s) : nodes' = [nodes EXCEPT ![r] = @ + n]
           /\ UNCHANGED errors
  <2>1. PICK n \in Yields(s) : nodes' = [nodes EXCEPT ![r] = @ + n]
    BY <1>6
  <2>2. n \in Nat \ {0}
    BY FetchPoolAssumption DEF Yields
  <2>3. nodes'[r] = nodes[r] + n /\ \A q \in Reqs \ {r} : nodes'[q] = nodes[q]
    BY <1>1, <2>1 DEF TypeOK
  <2>4. nodes'[r] > 0
    BY <1>5, <2>2, <2>3
  <2>5. Merged(r)'
    BY <1>1, <1>3, <1>4, <1>6, <2>4 DEF Merged, Answers
  <2> QED
    BY <1>3, <1>4, <1>6, <2>3, <2>5 DEF Untouched, Undisturbed
<1>7. CASE /\ task[r][s] = "err"
           /\ errors' = [errors EXCEPT ![r] = @ \cup {s}]
           /\ UNCHANGED nodes
  <2>1. /\ errors'[r] = errors[r] \cup {s}
        /\ \A q \in Reqs \ {r} : errors'[q] = errors[q]
    BY <1>1, <1>7 DEF TypeOK
  <2>2. Merged(r)'
    BY <1>1, <1>3, <1>4, <1>5, <1>7, <2>1 DEF Merged, Answers
  <2> QED
    BY <1>3, <1>4, <1>7, <2>1, <2>2 DEF Untouched, Undisturbed
<1>8. CASE task[r][s] = "panic" /\ UNCHANGED <<nodes, errors>>
  <2>1. Merged(r)'
    BY <1>1, <1>3, <1>4, <1>5, <1>8 DEF Merged, Answers
  <2> QED
    BY <1>3, <1>4, <1>8, <2>1 DEF Untouched, Undisturbed
<1> QED
  BY <1>2, <1>6, <1>7, <1>8

\* The verdict: truncation keeps a node if there was one and MaxNodes allows.
LEMMA AnswerStep ==
  ASSUME MInv, NEW r \in Reqs, Answer(r)
  PROVE  Merged(r)' /\ \A q \in Reqs \ {r} : Untouched(q)
<1>1. TypeOK /\ Merged(r)
  BY DEF MInv, IInv
<1>2. PICK v \in Verdicts(r) : phase' = [phase EXCEPT ![r] = v]
  BY DEF Answer
<1>3. /\ phase[r] = "joining" /\ joinset[r] = {}
      /\ nodes' = [nodes EXCEPT ![r] = Truncated(r)]
      /\ UNCHANGED <<rows, task, joinset, errors>>
  BY DEF Answer
<1>4. /\ phase'[r] = v /\ nodes'[r] = Truncated(r)
      /\ \A q \in Reqs \ {r} : phase'[q] = phase[q] /\ nodes'[q] = nodes[q]
  BY <1>1, <1>2, <1>3 DEF TypeOK
<1>5. /\ v \in Answers
      /\ v = "502" => Truncated(r) = 0 /\ errors[r] # {}
      /\ v # "502" /\ r \notin Previews => Truncated(r) # 0 \/ errors[r] = {}
  BY <1>2 DEF Verdicts, Answers
<1>6. nodes[r] \in Nat /\ rows[r] \subseteq Sources /\ MaxNodes \in Nat
  BY <1>1, FetchPoolAssumption DEF TypeOK
<1>7. /\ Truncated(r) \in Nat
      /\ Truncated(r) > 0 => nodes[r] > 0
      /\ nodes[r] > 0 /\ MaxNodes > 0 => Truncated(r) > 0
  BY <1>6 DEF Truncated
<1>8. Merged(r)'
  <2>1. phase'[r] \in Answers
    BY <1>4, <1>5
  <2>2. \A s \in rows[r] : task[r][s] # "none"
    BY <1>1, <1>3 DEF Merged
  <2>3. \A s \in Sources :
          /\ task[r][s] \notin {"none", "aborting"} => s \in rows[r]
          /\ task[r][s] = "err" => s \in errors[r]
          /\ s \in errors[r] => task[r][s] = "err"
          /\ task[r][s] = "ok" => s \in Singles \/ MaxNodes > 0
          /\ task[r][s] = "ok" /\ MaxNodes > 0 => nodes'[r] > 0
    BY <1>1, <1>3, <1>4, <1>7 DEF Merged, Answers
  <2>4. nodes'[r] > 0 => \E s \in rows[r] : task[r][s] = "ok"
    BY <1>1, <1>3, <1>4, <1>7 DEF Merged
  <2>5. /\ phase'[r] = "502" => errors[r] # {} /\ nodes'[r] = 0
        /\ phase'[r] # "502" /\ r \notin Previews => nodes'[r] > 0 \/ errors[r] = {}
    BY <1>4, <1>5, <1>7
  <2> QED
    BY <1>3, <2>1, <2>2, <2>3, <2>4, <2>5 DEF Merged, Answers
<1> QED
  BY <1>3, <1>4, <1>8 DEF Untouched, Undisturbed

\* The slot is emptied when the answer is written or the client hangs up.
LEMMA EmptyStep ==
  ASSUME MInv, NEW r \in Reqs, Close(r) \/ Disconnect(r)
  PROVE  Merged(r)' /\ \A q \in Reqs \ {r} : Untouched(q)
<1>1. TypeOK /\ SlotsOK /\ Merged(r)
  BY DEF MInv, IInv, SlotsOK
<1>2. Forget(r)
  BY DEF Close, Disconnect
<1>3. /\ rows'[r] = {} /\ joinset'[r] = {} /\ nodes'[r] = 0 /\ errors'[r] = {}
      /\ \A q \in Reqs \ {r} : /\ rows'[q] = rows[q] /\ joinset'[q] = joinset[q]
                               /\ nodes'[q] = nodes[q] /\ errors'[q] = errors[q]
  BY <1>1, <1>2 DEF Forget, TypeOK
<1>4. /\ phase'[r] \in {"idle", "dropped"}
      /\ \A s \in Sources : task'[r][s] \in {"none", "aborting"}
      /\ \A q \in Reqs \ {r} : task'[q] = task[q] /\ Undisturbed(q)
  <2>1. CASE Close(r)
    BY <1>1, <2>1 DEF Close, TypeOK, Undisturbed
  <2>2. CASE Disconnect(r)
    <3>1. LeaveSemaphore(r) /\ AbortAll(r)
      BY <2>2 DEF Disconnect
    <3> QED
      BY <1>1, <3>1, LeavingHandlers DEF AbortAll, TypeOK
  <2> QED
    BY <2>1, <2>2
<1>5. Merged(r)'
  BY <1>3, <1>4 DEF Merged, Answers
<1> QED
  BY <1>3, <1>4, <1>5 DEF Untouched

\* A task ends in its JoinSet, or is dropped after its handler.
LEMMA TaskMerged ==
  ASSUME MInv, NEW r \in Reqs, NEW s \in Sources, TaskStep(r, s)
  PROVE  Merged(r)' /\ \A q \in Reqs \ {r} : Untouched(q)
<1>1. TypeOK /\ TasksOK /\ SlotsOK /\ Merged(r)
  BY DEF MInv, IInv, SlotsOK
<1>2. GiveBack(phase) /\ UNCHANGED <<rows, joinset, nodes, errors>>
  BY DEF TaskStep, TaskEnds, AbortedTaskDropped
<1>3. \A q \in Reqs : Undisturbed(q)
  BY <1>1, <1>2, GiveBackKeepsHandlers DEF SlotsOK
<1>4. PICK st \in Outcomes \cup {"none"} :
        /\ task' = [task EXCEPT ![r][s] = st]
        /\ \/ task[r][s] = "running" /\ st \in Results(s)
           \/ task[r][s] = "aborting" /\ st = "none"
  BY DEF TaskStep, TaskEnds, AbortedTaskDropped, Results
<1>5. /\ task'[r][s] = st /\ \A x \in Sources \ {s} : task'[r][x] = task[r][x]
      /\ \A q \in Reqs \ {r} : task'[q] = task[q]
      /\ rows[r] \subseteq Sources
  BY <1>1, <1>4 DEF TypeOK
<1>6. CASE task[r][s] = "running" /\ st \in Results(s)
  <2>1. s \in joinset[r] /\ s \in rows[r] /\ phase[r] \in InHandler
    BY <1>1, <1>6 DEF TasksOK, Merged
  <2>2. phase'[r] \in InHandler /\ (phase'[r] = "joining" => phase[r] = "joining")
    BY <1>3, <2>1 DEF Undisturbed, InHandler
  <2>3. st \in Outcomes /\ (st = "ok" => s \in Singles \/ MaxNodes > 0)
    BY <1>6, FetchPoolAssumption DEF Results
  <2> QED
    BY <1>1, <1>2, <1>3, <1>5, <1>6, <2>1, <2>2, <2>3
    DEF Merged, Answers, InHandler, Outcomes, Untouched
<1>7. CASE task[r][s] = "aborting" /\ st = "none"
  <2>1. phase[r] = "dropped" /\ phase'[r] = "dropped"
    BY <1>1, <1>3, <1>7 DEF TasksOK, Undisturbed
  <2>2. rows[r] = {} /\ joinset[r] = {} /\ errors[r] = {} /\ nodes[r] = 0
    BY <1>1, <2>1 DEF Merged
  <2> QED
    BY <1>1, <1>2, <1>3, <1>5, <1>7, <2>1, <2>2 DEF Merged, Answers, Untouched
<1> QED
  BY <1>4, <1>6, <1>7

-----------------------------------------------------------------------------
\* The strengthened invariant holds at startup ...
LEMMA InitMInv == Init => MInv
<1> SUFFICES ASSUME Init, NEW r \in Reqs PROVE Merged(r)
  BY InitIInv DEF MInv
<1> QED
  BY DEF Init, Merged, Answers

\* ... and every step keeps it, for the request that moves and the others.
LEMMA NextMInv == MInv /\ [Next]_vars => MInv'
<1> SUFFICES ASSUME MInv, [Next]_vars PROVE MInv'
  OBVIOUS
<1>1. IInv'
  BY NextIInv DEF MInv
<1>2. ASSUME NEW r \in Reqs, Merged(r)', \A q \in Reqs \ {r} : Untouched(q)
      PROVE  MInv'
  BY <1>1, <1>2, UntouchedMerged DEF MInv
<1>3. ASSUME NEW r \in Reqs, Handler(r) PROVE MInv'
  <2>1. Merged(r)' /\ \A q \in Reqs \ {r} : Untouched(q)
    BY <1>3, PhaseSteps, SpawnStep, JoinStep, AnswerStep, EmptyStep DEF Handler
  <2> QED
    BY <1>2, <2>1
<1>4. ASSUME NEW r \in Reqs, NEW s \in Sources, TaskStep(r, s) PROVE MInv'
  BY <1>2, <1>4, TaskMerged
<1>5. CASE UNCHANGED <<phase, rows, task, joinset, nodes, errors>>
  <2>1. \A q \in Reqs : Untouched(q)
    BY <1>5 DEF Untouched, Undisturbed
  <2> QED
    BY <1>1, <2>1, UntouchedMerged DEF MInv
<1>6. ASSUME NEW f \in Refreshers, RefreshStarts(f) \/ RefreshEnds(f) PROVE MInv'
  BY <1>5, <1>6 DEF RefreshStarts, RefreshEnds
<1> QED
  BY <1>3, <1>4, <1>5, <1>6 DEF Next, vars

\* Every reachable state satisfies it.
LEMMA SpecMInv == Spec => []MInv
BY InitMInv, NextMInv, PTL DEF Spec

\* The nodes of a row are in all_nodes once its task was joined; each such row
\* brought one at least, until MAX_NODES cuts the list at the answer.
Joined(r) == {s \in rows[r] : task[r][s] = "ok" /\ s \notin joinset[r]}

Counted(r) ==
  /\ phase[r] \notin Answers => nodes[r] >= Cardinality(Joined(r))
  /\ phase[r] \in Answers =>
       nodes[r] <= MaxNodes /\ (nodes[r] >= Cardinality(Joined(r)) \/ nodes[r] = MaxNodes)

CInv == MInv /\ \A r \in Reqs : Counted(r)

\* A step that joins nothing, adds nothing and answers nothing.
LEMMA SameCount ==
  ASSUME NEW r \in Reqs, Counted(r),
         nodes'[r] = nodes[r], Joined(r)' = Joined(r),
         phase'[r] \in Answers <=> phase[r] \in Answers
  PROVE  Counted(r)'
BY DEF Counted

\* Joining a success adds one row and at least one node.
LEMMA CountJoined ==
  ASSUME CInv, NEW r \in Reqs, JoinNext(r)
  PROVE  Counted(r)'
<1>1. TypeOK /\ Merged(r) /\ Counted(r)
  BY DEF CInv, MInv, IInv
<1>2. PICK s \in joinset[r] :
        /\ joinset' = [joinset EXCEPT ![r] = @ \ {s}]
        /\ \/ /\ task[r][s] = "ok"
              /\ \E n \in Yields(s) : nodes' = [nodes EXCEPT ![r] = @ + n]
              /\ UNCHANGED errors
           \/ /\ task[r][s] = "err"
              /\ errors' = [errors EXCEPT ![r] = @ \cup {s}]
              /\ UNCHANGED nodes
           \/ /\ task[r][s] = "panic"
              /\ UNCHANGED <<nodes, errors>>
  BY DEF JoinNext
<1>3. phase[r] = "joining" /\ UNCHANGED <<phase, rows, task>>
  BY DEF JoinNext
<1>4. joinset'[r] = joinset[r] \ {s} /\ s \in Sources /\ s \in rows[r]
  BY <1>1, <1>2 DEF TypeOK, Merged
<1>5. CASE task[r][s] = "ok"
  <2>1. PICK n \in Yields(s) : nodes' = [nodes EXCEPT ![r] = @ + n]
    BY <1>2, <1>5
  <2>2. n \in Nat \ {0}
    BY FetchPoolAssumption DEF Yields
  <2>3. nodes'[r] = nodes[r] + n /\ nodes[r] \in Nat
    BY <1>1, <2>1 DEF TypeOK
  <2>4. Joined(r)' = Joined(r) \cup {s} /\ s \notin Joined(r)
    BY <1>2, <1>3, <1>4, <1>5 DEF Joined
  <2>5. IsFiniteSet(Joined(r))
    BY <1>1, FetchPoolAssumption, FS_Subset DEF Joined, TypeOK
  <2>6. /\ Cardinality(Joined(r)) \in Nat
        /\ Cardinality(Joined(r)') = Cardinality(Joined(r)) + 1
    BY <2>4, <2>5, FS_AddElement, FS_CardinalityType
  <2>7. nodes'[r] >= Cardinality(Joined(r)')
    BY <1>1, <1>3, <2>2, <2>3, <2>6 DEF Counted, Answers
  <2> QED
    BY <1>3, <2>7 DEF Counted, Answers
<1>6. CASE task[r][s] # "ok"
  <2>1. Joined(r)' = Joined(r)
    BY <1>3, <1>4, <1>6 DEF Joined
  <2>2. nodes' = nodes
    BY <1>2, <1>6
  <2> QED
    BY <1>1, <1>3, <2>1, <2>2, SameCount
<1> QED
  BY <1>5, <1>6

\* The answer cuts the list at MAX_NODES.
LEMMA CountAnswered ==
  ASSUME CInv, NEW r \in Reqs, Answer(r)
  PROVE  Counted(r)'
<1>1. TypeOK /\ Counted(r) /\ phase[r] = "joining"
  BY DEF CInv, MInv, IInv, Answer
<1>2. nodes'[r] = Truncated(r) /\ phase'[r] \in Answers
  BY <1>1 DEF Answer, TypeOK, Verdicts, Answers
<1>3. Joined(r)' = Joined(r)
  BY DEF Answer, Joined
<1>4. nodes[r] \in Nat /\ MaxNodes \in Nat /\ nodes[r] >= Cardinality(Joined(r))
  BY <1>1, FetchPoolAssumption DEF TypeOK, Counted, Answers
<1> QED
  BY <1>2, <1>3, <1>4 DEF Counted, Truncated

\* Nothing counts in a slot whose rows are forgotten.
LEMMA CountEmpty ==
  ASSUME NEW r \in Reqs, Joined(r)' = {}, nodes'[r] \in Nat, phase'[r] \notin Answers
  PROVE  Counted(r)'
BY FS_EmptySet DEF Counted

\* The handler's other steps join nothing; the SELECT, the answer written and
\* the hang-up leave no row whose task succeeded.
LEMMA CountHandler ==
  ASSUME CInv, NEW r \in Reqs, Handler(r)
  PROVE  Counted(r)'
<1>1. TypeOK /\ TypeOK' /\ TasksOK /\ Merged(r) /\ Counted(r) /\ SlotsOK
  BY NextIInv DEF CInv, MInv, IInv, SlotsOK, Next
<1>2. CASE QueryRows(r)
  <2>1. /\ phase[r] = "idle" /\ phase' = [phase EXCEPT ![r] = "spawning"]
        /\ UNCHANGED <<slots, task, joinset, nodes, errors, refresh>>
    BY <1>2 DEF QueryRows
  <2>2. \A s \in Sources : task[r][s] # "ok"
    BY <1>1, <2>1 DEF Merged
  <2>3. Joined(r)' = {} /\ phase'[r] \notin Answers
    BY <1>1, <2>1, <2>2 DEF Joined, TypeOK, Answers
  <2> QED
    BY <1>1, <2>3, CountEmpty DEF TypeOK
<1>3. CASE QueryFails(r) \/ AcquireWaits(r) \/ SpawnLoopEnds(r) \/ SlotFree(r)
  <2>1. /\ UNCHANGED <<rows, task, joinset, nodes>>
        /\ phase[r] \notin Answers /\ phase'[r] \notin Answers
    BY <1>1, <1>3
    DEF QueryFails, AcquireWaits, SpawnLoopEnds, SlotFree, Answers, TypeOK
  <2> QED
    BY <1>1, <2>1, SameCount DEF Joined
<1>4. CASE AcquireAndSpawn(r) \/ SpawnGranted(r)
  <2>1. PICK s \in Todo(r) :
          /\ task' = [task EXCEPT ![r][s] = "running"]
          /\ joinset' = [joinset EXCEPT ![r] = @ \cup {s}]
          /\ phase' = [phase EXCEPT ![r] = "spawning"]
    BY <1>4 DEF AcquireAndSpawn, SpawnGranted, SpawnTask
  <2>2. phase[r] \in {"spawning", "granted"} /\ UNCHANGED <<rows, nodes>>
    BY <1>4 DEF AcquireAndSpawn, SpawnGranted
  <2>3. s \in Sources /\ task[r][s] = "none" /\ rows[r] \subseteq Sources
    BY <1>1 DEF Todo, TypeOK
  <2>4. /\ task'[r][s] = "running" /\ joinset'[r] = joinset[r] \cup {s}
        /\ \A x \in Sources \ {s} : task'[r][x] = task[r][x]
        /\ phase'[r] = "spawning"
    BY <1>1, <2>1, <2>3 DEF TypeOK
  <2>5. Joined(r)' = Joined(r)
    BY <2>2, <2>3, <2>4 DEF Joined
  <2> QED
    BY <1>1, <2>2, <2>4, <2>5, SameCount DEF Answers
<1>5. CASE Close(r) \/ Disconnect(r)
  <2>1. Forget(r)
    BY <1>5 DEF Close, Disconnect
  <2>2. rows'[r] = {} /\ nodes'[r] = 0
    BY <1>1, <2>1 DEF Forget, TypeOK
  <2>3. phase'[r] \in {"idle", "dropped"}
    <3>1. CASE Close(r)
      BY <1>1, <3>1 DEF Close, TypeOK
    <3>2. CASE Disconnect(r)
      BY <1>1, <3>2, LeavingHandlers DEF Disconnect
    <3> QED
      BY <1>5, <3>1, <3>2
  <2> QED
    BY <2>2, <2>3, CountEmpty DEF Joined, Answers
<1> QED
  BY <1>2, <1>3, <1>4, <1>5, CountJoined, CountAnswered DEF Handler

\* A task ends while it is in the JoinSet, or after its handler is gone.
LEMMA CountTask ==
  ASSUME CInv, NEW r \in Reqs, NEW s \in Sources, TaskStep(r, s)
  PROVE  Counted(r)'
<1>1. TypeOK /\ TasksOK /\ SlotsOK /\ Merged(r) /\ Counted(r)
  BY DEF CInv, MInv, IInv, SlotsOK
<1>2. GiveBack(phase) /\ UNCHANGED <<rows, joinset, nodes, errors>>
  BY DEF TaskStep, TaskEnds, AbortedTaskDropped
<1>3. Undisturbed(r)
  BY <1>1, <1>2, GiveBackKeepsHandlers DEF SlotsOK
<1>4. PICK st \in Outcomes \cup {"none"} : task' = [task EXCEPT ![r][s] = st]
  BY DEF TaskStep, TaskEnds, AbortedTaskDropped, Results
<1>5. s \in joinset[r] \/ rows[r] = {}
  BY <1>1 DEF TaskStep, TaskEnds, AbortedTaskDropped, TasksOK, Merged
<1>6. \A x \in Sources \ {s} : task'[r][x] = task[r][x]
  BY <1>1, <1>4 DEF TypeOK
<1>7. Joined(r)' = Joined(r)
  BY <1>1, <1>2, <1>5, <1>6 DEF Joined, TypeOK
<1> QED
  BY <1>1, <1>2, <1>3, <1>7, SameCount DEF Undisturbed, Answers

\* The count holds in every reachable state.
LEMMA SpecCInv == Spec => []CInv
<1>1. Init => CInv
  <2> SUFFICES ASSUME Init, NEW r \in Reqs PROVE Counted(r)
    BY InitMInv DEF CInv
  <2>1. Joined(r) = {} /\ nodes[r] = 0 /\ phase[r] = "idle"
    BY DEF Init, Joined
  <2> QED
    BY <2>1, FS_EmptySet DEF Counted, Answers
<1>2. CInv /\ [Next]_vars => CInv'
  <2> SUFFICES ASSUME CInv, [Next]_vars PROVE CInv'
    OBVIOUS
  <2>1. MInv /\ MInv'
    BY NextMInv DEF CInv
  <2>2. ASSUME NEW q \in Reqs, Untouched(q) PROVE Counted(q)'
    <3>1. Joined(q)' = Joined(q)
      BY <2>2 DEF Joined, Untouched
    <3>2. Counted(q)
      BY DEF CInv
    <3> QED
      BY <2>2, <3>1, <3>2, SameCount DEF Untouched, Undisturbed, Answers
  <2>3. ASSUME NEW r \in Reqs, Counted(r)', \A q \in Reqs \ {r} : Untouched(q)
        PROVE  CInv'
    BY <2>1, <2>2, <2>3 DEF CInv
  <2>4. ASSUME NEW r \in Reqs, Handler(r) PROVE CInv'
    <3>1. \A q \in Reqs \ {r} : Untouched(q)
      BY <2>1, <2>4, PhaseSteps, SpawnStep, JoinStep, AnswerStep, EmptyStep DEF Handler
    <3> QED
      BY <2>3, <2>4, <3>1, CountHandler
  <2>5. ASSUME NEW r \in Reqs, NEW s \in Sources, TaskStep(r, s) PROVE CInv'
    BY <2>1, <2>3, <2>5, TaskMerged, CountTask
  <2>6. CASE UNCHANGED <<phase, rows, task, joinset, nodes, errors>>
    <3>1. \A q \in Reqs : Untouched(q)
      BY <2>6 DEF Untouched, Undisturbed
    <3> QED
      BY <2>1, <2>2, <3>1 DEF CInv
  <2>7. ASSUME NEW f \in Refreshers, RefreshStarts(f) \/ RefreshEnds(f) PROVE CInv'
    BY <2>6, <2>7 DEF RefreshStarts, RefreshEnds
  <2> QED
    BY <2>4, <2>5, <2>6, <2>7 DEF Next, vars
<1> QED
  BY <1>1, <1>2, PTL DEF Spec

\* fetch_and_merge loses no row: at the answer each one is in the reported
\* errors, was a panic, or is among the merged nodes unless MAX_NODES cut them.
THEOREM EveryRowAccounted == Spec => []RowsAccounted
<1>1. CInv => RowsAccounted
  <2> SUFFICES ASSUME CInv, NEW r \in Reqs, phase[r] \in Answers
               PROVE  /\ \A s \in rows[r] : s \in errors[r] \/ task[r][s] \in {"ok", "panic"}
                      /\ \A s \in errors[r] \cap Sources : task[r][s] = "err"
                      /\ nodes[r] <= MaxNodes
                      /\ nodes[r] >= Cardinality(Succeeded(r)) \/ nodes[r] = MaxNodes
    BY DEF RowsAccounted
  <2>1. Merged(r) /\ TypeOK /\ TasksOK /\ joinset[r] = {}
    BY DEF CInv, MInv, IInv, TasksOK
  <2>2. \A s \in rows[r] :
          s \in Sources /\ task[r][s] \in TaskStates \ {"none", "running", "aborting"}
    BY <2>1 DEF Merged, TasksOK, TypeOK, Answers, InHandler
  <2>3. Succeeded(r) = Joined(r)
    BY <2>1 DEF Succeeded, Joined
  <2> QED
    BY <2>1, <2>2, <2>3 DEF Merged, TaskStates, Live, Outcomes, CInv, Counted
<1> QED
  BY <1>1, SpecCInv, PTL

\* subscribe.rs refuses with 502 exactly where the README says, panics aside.
THEOREM RefusalsExact == Spec => []RefusedWhenAllFailed
<1>1. MInv => RefusedWhenAllFailed
  <2> SUFFICES ASSUME MInv, NEW r \in Reqs
               PROVE  /\ MaxNodes > 0 /\ phase[r] = "502" =>
                           /\ errors[r] # {}
                           /\ \A s \in rows[r] : task[r][s] # "ok"
                      /\ /\ r \notin Previews
                         /\ phase[r] \in Answers
                         /\ rows[r] # {}
                         /\ \A s \in rows[r] : task[r][s] = "err"
                         => phase[r] = "502"
    BY DEF RefusedWhenAllFailed
  <2>1. Merged(r) /\ rows[r] \subseteq Sources /\ (phase[r] \in Answers => joinset[r] = {})
    BY DEF MInv, IInv, TypeOK, TasksOK
  <2>2. ASSUME MaxNodes > 0, phase[r] = "502"
        PROVE  errors[r] # {} /\ \A s \in rows[r] : task[r][s] # "ok"
    BY <2>1, <2>2 DEF Merged, Answers
  <2>3. ASSUME r \notin Previews, phase[r] \in Answers, rows[r] # {},
               \A s \in rows[r] : task[r][s] = "err"
        PROVE  phase[r] = "502"
    <3>1. joinset[r] = {} /\ errors[r] # {}
      BY <2>1, <2>3 DEF Merged
    <3>2. ~(nodes[r] > 0)
      BY <2>1, <2>3 DEF Merged
    <3> QED
      BY <2>1, <2>3, <3>1, <3>2 DEF Merged, Answers
  <2> QED
    BY <2>2, <2>3
<1> QED
  BY <1>1, SpecMInv, PTL
=============================================================================
