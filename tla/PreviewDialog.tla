---------------------------- MODULE PreviewDialog ----------------------------
(***************************************************************************)
(* The preview of a subscription, a dialog over its page: crates/server/   *)
(* web/src/components/preview_modal.rs.                                    *)
(*                                                                         *)
(* Each load is a task with a number, req_seq when it was spawned.  The    *)
(* scheduler polls new tasks in the order in which they were spawned;      *)
(* answers come in any order.  What the user sees, and can press, is the   *)
(* last rendering, which may be behind the signals.  When the dialog goes  *)
(* (its close button, or its page goes), its tasks go with it.             *)
(*                                                                         *)
(* data and error are the number of the load that wrote them, or 0: None   *)
(* and the empty string.                                                   *)
(***************************************************************************)
EXTENDS Integers

CONSTANT MaxLoads  \* bound: loads of one dialog

ASSUME PreviewDialogAssumption == MaxLoads \in Nat \ {0}

VARIABLES
  open,     \* the dialog is there
  reqSeq,   \* req_seq
  task,     \* where each load is
  loading, error, data,   \* the signals
  screen    \* what was rendered last

signals == <<reqSeq, loading, error, data>>
dialogVars == <<open, task, signals, screen>>

Loads == 1 .. MaxLoads

\* "none" also after its end; the others of Answers are a body that parses, one
\* that does not, and any error of request.
Answers == {"ok", "garbled", "failed"}
TaskStates == {"none", "queued", "sent"} \cup Answers
Screens == {"spinner", "error", "nodes"}

-----------------------------------------------------------------------------
View == IF loading THEN "spinner" ELSE IF error # 0 THEN "error" ELSE "nodes"

\* A component that is not there has the values that it will start with.
DialogInit ==
  /\ open = FALSE
  /\ reqSeq = 0
  /\ task = [n \in Loads |-> "none"]
  /\ loading = TRUE /\ error = 0 /\ data = 0
  /\ screen = "spinner"

\* The effect at mount is the first load.
Open ==
  /\ ~open
  /\ open' = TRUE
  /\ reqSeq' = 1
  /\ task' = [task EXCEPT ![1] = "queued"]
  /\ UNCHANGED <<loading, error, data, screen>>

Close ==
  /\ open
  /\ open' = FALSE
  /\ reqSeq' = 0
  /\ task' = [n \in Loads |-> "none"]
  /\ loading' = TRUE /\ error' = 0 /\ data' = 0
  /\ screen' = "spinner"

\* The button of the error that is on the screen, which a second click can
\* reach before the spinner does.
Retry ==
  /\ open /\ screen = "error"
  /\ reqSeq < MaxLoads
  /\ reqSeq' = reqSeq + 1
  /\ task' = [task EXCEPT ![reqSeq'] = "queued"]
  /\ UNCHANGED <<open, loading, error, data, screen>>

\* The task is polled for the first time, and sends its request.
Begin(n) ==
  /\ task[n] = "queued"
  /\ \A m \in Loads : m < n => task[m] # "queued"
  /\ task' = [task EXCEPT ![n] = "sent"]
  /\ loading' = TRUE
  /\ error' = 0
  /\ UNCHANGED <<open, reqSeq, data, screen>>

Answer(n) ==
  /\ task[n] = "sent"
  /\ \E got \in Answers : task' = [task EXCEPT ![n] = got]
  /\ UNCHANGED <<open, signals, screen>>

\* Mutant: the number guards the data and not the end of loading.
FinishEndsLoading(n) ==
  /\ task[n] \in Answers
  /\ task' = [task EXCEPT ![n] = "none"]
  /\ loading' = FALSE
  /\ data' = IF reqSeq = n /\ task[n] = "ok" THEN n ELSE data
  /\ error' = IF reqSeq = n /\ task[n] # "ok" THEN n ELSE error
  /\ UNCHANGED <<open, reqSeq, screen>>

\* Mutant: `return` for every body that does not parse.
FinishGarbledReturns(n) ==
  /\ task[n] \in Answers
  /\ task' = [task EXCEPT ![n] = "none"]
  /\ loading' = (loading /\ (reqSeq # n \/ task[n] = "garbled"))
  /\ data' = IF reqSeq = n /\ task[n] = "ok" THEN n ELSE data
  /\ error' = IF reqSeq = n /\ task[n] # "ok" THEN n ELSE error
  /\ UNCHANGED <<open, reqSeq, screen>>

\* The task goes on with its answer, and ends.  A later load makes it do
\* nothing.
Finish(n) ==
  /\ task[n] \in Answers
  /\ task' = [task EXCEPT ![n] = "none"]
  /\ loading' = (loading /\ reqSeq # n)
  /\ data' = IF reqSeq = n /\ task[n] = "ok" THEN n ELSE data
  /\ error' = IF reqSeq = n /\ task[n] # "ok" THEN n ELSE error
  /\ UNCHANGED <<open, reqSeq, screen>>

Render ==
  /\ open /\ screen # View
  /\ screen' = View
  /\ UNCHANGED <<open, task, signals>>

Step(n) == Begin(n) \/ Answer(n) \/ Finish(n)

DialogNext == Open \/ Close \/ Retry \/ (\E n \in Loads : Step(n)) \/ Render

DialogSpec == DialogInit /\ [][DialogNext]_dialogVars

\* Tasks are polled, requests are answered or fail, and the dialog renders.
\* The user owes nothing.
FairDialogSpec ==
  DialogSpec /\ WF_dialogVars(Render) /\ \A n \in Loads : WF_dialogVars(Step(n))

-----------------------------------------------------------------------------
DialogTypeOK ==
  /\ open \in BOOLEAN
  /\ reqSeq \in 0 .. MaxLoads
  /\ task \in [Loads -> TaskStates]
  /\ loading \in BOOLEAN
  /\ error \in 0 .. MaxLoads
  /\ data \in 0 .. MaxLoads
  /\ screen \in Screens

UnderWay(n) == n \in Loads /\ task[n] # "none"

\* preview_modal.rs:25 and 77: the dialog shows the outcome of the load asked
\* for last, its data or its error, and turns its spinner only while that load
\* is under way, however late the answers to earlier ones are.
ShowsLatest ==
  open =>
    \/ UnderWay(reqSeq) /\ (loading \/ task[reqSeq] = "queued")
    \/ ~UnderWay(reqSeq) /\ ~loading /\ (error = reqSeq \/ (error = 0 /\ data = reqSeq))

\* Nobody waits at the spinner for ever: the outcome of the last load comes to
\* the screen, unless the dialog is closed.
DialogSettles ==
  open ~> ~open \/ (~UnderWay(reqSeq) /\ ~loading /\ screen = View)
=============================================================================
