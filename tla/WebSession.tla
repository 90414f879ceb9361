------------------------------ MODULE WebSession ------------------------------
(***************************************************************************)
(* Signing in and out, as the browser sees it: crates/server/web/src/      *)
(* main.rs (App and the logout button), components/login.rs and the change *)
(* of password in components/config.rs, over api.rs.                       *)
(*                                                                         *)
(* Tabs of one browser share its localStorage; each has its own signals.   *)
(* A component's tasks go with it: when App shows another page, or the tab *)
(* is loaded again, nobody is left to hear their answers.  A request may   *)
(* reach the server or not, and its answer may be lost.                    *)
(*                                                                         *)
(* The server is what it promises: sessions live as SessionLifecycle says, *)
(* AuthService implements that, and each handler is one step.  What other  *)
(* clients, the clock and unheard requests do to them is Elsewhere.        *)
(***************************************************************************)
EXTENDS Integers, FiniteSets

CONSTANTS
  Tabs,      \* browser tabs
  Tokens,    \* tokens that the server may issue
  MaxCalls   \* bound: requests of one tab in flight (Enter submits again)

NoToken == "none"   \* None in the code

ASSUME WebSessionAssumption ==
  /\ MaxCalls \in Nat \ {0}
  /\ NoToken \notin Tokens

VARIABLES
  life,     \* SessionLifecycle: where each token is in its life
  admin,    \* the server has its administrator
  stored,   \* localStorage: the session token, or NoToken
  app,      \* each tab's signals
  calls     \* each tab's requests in flight, with a task that waits for each

vars == <<life, admin, stored, app, calls>>

Server == INSTANCE SessionLifecycle

Slots == 1 .. MaxCalls
Kinds == {"check", "probe", "login", "setup", "logout", "change"}

\* tok is the bearer token of the request, or the token in the answer.
\* "denied" is a 401, "failed" any other answer but 2xx, or none at all.
Answers == {"ok", "denied", "failed"}
Call == [kind : Kinds, tok : Tokens \cup {NoToken}, got : {"sent"} \cup Answers]
Free == [kind |-> "none", tok |-> NoToken, got |-> "none"]

\* App: token and checking.  Login: needs_setup, probing, loading and whether
\* error is empty.  Config: changing.
Signals ==
  [token : Tokens \cup {NoToken}, checking : BOOLEAN,
   needs : {"unknown", "yes", "no"}, probing : BOOLEAN, loading : BOOLEAN, error : BOOLEAN,
   changing : BOOLEAN]

Fresh(tok) ==
  [token |-> tok, checking |-> FALSE,
   needs |-> "unknown", probing |-> FALSE, loading |-> FALSE, error |-> FALSE,
   changing |-> FALSE]

-----------------------------------------------------------------------------
Checking(t) == app[t].checking
Login(t) == ~app[t].checking /\ app[t].token = NoToken
Shell(t) == ~app[t].checking /\ app[t].token # NoToken

Pending(t, kind) == \E n \in Slots : calls[t][n].kind = kind

Sent(kind, tok) == [kind |-> kind, tok |-> tok, got |-> "sent"]
NoCalls == [n \in Slots |-> Free]
Only(call) == [NoCalls EXCEPT ![1] = call]

\* spawn: the request goes out in the first free slot.
Spawn(t, kind, tok) ==
  \E n \in Slots :
    /\ calls[t][n] = Free
    /\ \A m \in Slots : m < n => calls[t][m] # Free
    /\ calls' = [calls EXCEPT ![t][n] = Sent(kind, tok)]

\* Mutant: what the page before has spawned goes on.
ShowLoginKeepsTasks(t) ==
  /\ app' = [app EXCEPT ![t] = [Fresh(NoToken) EXCEPT !.probing = TRUE]]
  /\ calls' = [calls EXCEPT ![t][1] = Sent("probe", NoToken)]

\* App shows Login: its signals are new, and use_future probes at once.
ShowLogin(t) ==
  /\ app' = [app EXCEPT ![t] = [Fresh(NoToken) EXCEPT !.probing = TRUE]]
  /\ calls' = [calls EXCEPT ![t] = Only(Sent("probe", NoToken))]

\* App shows MainShell.
ShowShell(t, tok) ==
  /\ app' = [app EXCEPT ![t] = Fresh(tok)]
  /\ calls' = [calls EXCEPT ![t] = NoCalls]

Init ==
  /\ Server!Init
  /\ admin \in BOOLEAN
  /\ stored = NoToken
  /\ app = [t \in Tabs |-> [Fresh(NoToken) EXCEPT !.probing = TRUE]]
  /\ calls = [t \in Tabs |-> Only(Sent("probe", NoToken))]

-----------------------------------------------------------------------------
\* The tab is opened or loaded again: read_token, and the check at startup.
Load(t) ==
  /\ IF stored = NoToken
     THEN ShowLogin(t)
     ELSE /\ app' = [app EXCEPT ![t] = [Fresh(stored) EXCEPT !.checking = TRUE]]
          /\ calls' = [calls EXCEPT ![t] = Only(Sent("check", stored))]
  /\ UNCHANGED <<life, admin, stored>>

\* Login: the button that tries the probe again is there with an error, and
\* disabled while a probe is under way.
RetryProbe(t) ==
  /\ Login(t) /\ app[t].needs = "unknown" /\ app[t].error /\ ~app[t].probing
  /\ Spawn(t, "probe", NoToken)
  /\ app' = [app EXCEPT ![t].probing = TRUE]
  /\ UNCHANGED <<life, admin, stored>>

\* do_submit and do_setup.  The button is disabled while loading; the Enter
\* key is not.
Submit(t) ==
  /\ Login(t)
  /\ \/ app[t].needs = "no" /\ Spawn(t, "login", NoToken)
     \/ app[t].needs = "yes" /\ Spawn(t, "setup", NoToken)
  /\ app' = [app EXCEPT ![t].loading = TRUE]
  /\ UNCHANGED <<life, admin, stored>>

\* A field is empty, or the passwords differ: only the message.
SubmitInvalid(t) ==
  /\ Login(t) /\ app[t].needs # "unknown"
  /\ app' = [app EXCEPT ![t].error = TRUE]
  /\ UNCHANGED <<life, admin, stored, calls>>

Logout(t) ==
  /\ Shell(t)
  /\ Spawn(t, "logout", app[t].token)
  /\ UNCHANGED <<life, admin, stored, app>>

\* do_change in Config, whose only button is disabled while changing.
ChangePassword(t) ==
  /\ Shell(t) /\ ~app[t].changing
  /\ Spawn(t, "change", app[t].token)
  /\ app' = [app EXCEPT ![t].changing = TRUE]
  /\ UNCHANGED <<life, admin, stored>>

\* The user leaves Config, which takes its task with it.
LeaveConfig(t) ==
  /\ Shell(t) /\ app[t].changing
  /\ app' = [app EXCEPT ![t].changing = FALSE]
  /\ calls' = [calls EXCEPT ![t] =
       [n \in Slots |-> IF @[n].kind = "change" THEN Free ELSE @[n]]]
  /\ UNCHANGED <<life, admin, stored>>

-----------------------------------------------------------------------------
Live(tok) == tok # NoToken /\ life[tok] = "live"
AllLive == {x \in Tokens : life[x] = "live"}

Respond(t, n, got) == calls' = [calls EXCEPT ![t][n].got = got]

\* The server handles a request.  Of the login form's input it is only known
\* whether the password is right.
Serve(t, n) ==
  LET c == calls[t][n] IN
  /\ c.got = "sent"
  /\ \/ /\ c.kind = "check"
        /\ Respond(t, n, IF Live(c.tok) THEN "ok" ELSE "denied")
        /\ UNCHANGED <<life, admin>>
     \/ /\ c.kind = "probe"
        /\ Respond(t, n, IF admin THEN "denied" ELSE "ok")
        /\ UNCHANGED <<life, admin>>
     \/ /\ c.kind = "setup"
        /\ admin' = TRUE
        /\ Respond(t, n, IF admin THEN "failed" ELSE "ok")
        /\ UNCHANGED life
     \/ /\ c.kind = "login" /\ admin
        /\ \E tok \in Tokens :
             /\ Server!Issue(tok)
             /\ calls' = [calls EXCEPT ![t][n].got = "ok", ![t][n].tok = tok]
        /\ UNCHANGED admin
     \/ /\ c.kind = "login"
        /\ Respond(t, n, "denied")
        /\ UNCHANGED <<life, admin>>
     \/ /\ c.kind = "logout"
        /\ Server!End({c.tok} \cap AllLive)
        /\ Respond(t, n, "ok")
        /\ UNCHANGED admin
     \/ /\ c.kind = "change"
        /\ Server!End(IF Live(c.tok) THEN AllLive ELSE {})
        /\ Respond(t, n, IF Live(c.tok) THEN "ok" ELSE "denied")
        /\ UNCHANGED admin
  /\ UNCHANGED <<stored, app>>

\* The request or the answer is lost, or the server answers 5xx.
Fail(t, n) ==
  /\ calls[t][n] # Free /\ calls[t][n].got # "failed"
  /\ Respond(t, n, "failed")
  /\ UNCHANGED <<life, admin, stored, app>>

\* Expiry, other clients, and requests nobody waits for any more.
Elsewhere ==
  /\ \/ \E T \in SUBSET AllLive : T # {} /\ Server!End(T) /\ UNCHANGED admin
     \/ admin' = TRUE /\ UNCHANGED life
  /\ UNCHANGED <<stored, app, calls>>

-----------------------------------------------------------------------------
\* The task of slot n goes on with its answer.
Hears(t, n, kind) == calls[t][n].kind = kind /\ calls[t][n].got \in Answers
Done(t, n) == calls' = [calls EXCEPT ![t][n] = Free]

\* clear_token and token.set(None).
ForgetToken(t) == stored' = NoToken /\ ShowLogin(t)

\* Mutant: the check gives up on a failure without switching its spinner off.
CheckedReturnsEarly(t, n) ==
  /\ Hears(t, n, "check")
  /\ CASE calls[t][n].got = "denied" -> ForgetToken(t)
       [] calls[t][n].got = "failed" -> Done(t, n) /\ UNCHANGED <<stored, app>>
       [] OTHER -> ShowShell(t, app[t].token) /\ UNCHANGED stored
  /\ UNCHANGED <<life, admin>>

\* Only a 401 ends the session; after anything else the token is kept.
Checked(t, n) ==
  /\ Hears(t, n, "check")
  /\ IF calls[t][n].got = "denied"
     THEN ForgetToken(t)
     ELSE ShowShell(t, app[t].token) /\ UNCHANGED stored
  /\ UNCHANGED <<life, admin>>

\* Mutant: `return` where the answer does not parse leaves probing set.
ProbedReturnsEarly(t, n) ==
  /\ Hears(t, n, "probe")
  /\ app' = [app EXCEPT ![t].probing = calls[t][n].got = "failed",
                         ![t].needs = CASE calls[t][n].got = "ok" -> "yes"
                                        [] calls[t][n].got = "denied" -> "no"
                                        [] OTHER -> @,
                         ![t].error = calls[t][n].got = "failed"]
  /\ Done(t, n)
  /\ UNCHANGED <<life, admin, stored>>

\* needs_setup from the body ("ok": true, "denied": false), or the error.
Probed(t, n) ==
  /\ Hears(t, n, "probe")
  /\ app' = [app EXCEPT ![t].probing = FALSE,
                         ![t].needs = CASE calls[t][n].got = "ok" -> "yes"
                                        [] calls[t][n].got = "denied" -> "no"
                                        [] OTHER -> @,
                         ![t].error = calls[t][n].got = "failed"]
  /\ Done(t, n)
  /\ UNCHANGED <<life, admin, stored>>

\* on_login: write_token and token.set.
LoggedIn(t, n) ==
  /\ Hears(t, n, "login")
  /\ IF calls[t][n].got = "ok"
     THEN stored' = calls[t][n].tok /\ ShowShell(t, stored')
     ELSE /\ app' = [app EXCEPT ![t].loading = FALSE, ![t].error = TRUE]
          /\ Done(t, n)
          /\ UNCHANGED stored
  /\ UNCHANGED <<life, admin>>

\* The account is there: the same task goes on to log in.
SetUp(t, n) ==
  /\ Hears(t, n, "setup")
  /\ IF calls[t][n].got = "ok"
     THEN calls' = [calls EXCEPT ![t][n] = Sent("login", NoToken)] /\ UNCHANGED app
     ELSE /\ app' = [app EXCEPT ![t].loading = FALSE, ![t].error = TRUE]
          /\ Done(t, n)
  /\ UNCHANGED <<life, admin, stored>>

\* Whatever the answer, the tab forgets its session.
LoggedOut(t, n) ==
  /\ Hears(t, n, "logout")
  /\ ForgetToken(t)
  /\ UNCHANGED <<life, admin>>

\* Mutant: the form forgets the session without looking at the answer.
ChangedAnyway(t, n) ==
  /\ Hears(t, n, "change")
  /\ ForgetToken(t)
  /\ UNCHANGED <<life, admin>>

Changed(t, n) ==
  /\ Hears(t, n, "change")
  /\ IF calls[t][n].got = "ok"
     THEN ForgetToken(t)
     ELSE /\ app' = [app EXCEPT ![t].changing = FALSE]
          /\ Done(t, n)
          /\ UNCHANGED stored
  /\ UNCHANGED <<life, admin>>

-----------------------------------------------------------------------------
User(t) ==
  Load(t) \/ RetryProbe(t) \/ Submit(t) \/ SubmitInvalid(t) \/ Logout(t)
    \/ ChangePassword(t) \/ LeaveConfig(t)

Network(t, n) == Serve(t, n) \/ Fail(t, n)

Task(t, n) ==
  Checked(t, n) \/ Probed(t, n) \/ LoggedIn(t, n) \/ SetUp(t, n) \/ LoggedOut(t, n)
    \/ Changed(t, n)

Next ==
  \/ \E t \in Tabs : User(t)
  \/ \E t \in Tabs, n \in Slots : Network(t, n) \/ Task(t, n)
  \/ Elsewhere

Spec == Init /\ [][Next]_vars

\* A request is answered or fails (the connection breaks: api.rs sets no
\* timeout), and the task that waits for it is polled.  Users owe nothing.
FairSpec ==
  Spec /\ \A t \in Tabs, n \in Slots : WF_vars(Network(t, n)) /\ WF_vars(Task(t, n))

-----------------------------------------------------------------------------
\* What every variable holds, and that a request made for a session carries the
\* token of the tab that waits for it.
TypeOK ==
  /\ life \in [Tokens -> Server!States]
  /\ admin \in BOOLEAN
  /\ stored \in Tokens \cup {NoToken}
  /\ app \in [Tabs -> Signals]
  /\ calls \in [Tabs -> [Slots -> Call \cup {Free}]]
  /\ \A t \in Tabs, n \in Slots :
       calls[t][n].kind \in {"check", "logout", "change"} =>
         calls[t][n].tok = app[t].token /\ app[t].token # NoToken

\* main.rs:37 "only a 401 clears the session; a passing error keeps it", and
\* config.rs:3 "after a change of password".  A tab is signed out only if its
\* session has ended at the server, or its user asked for it there: between
\* the answer and its reading nothing can have made the session good again.
SignedOutForCause ==
  [][\A t \in Tabs : (Shell(t) /\ ~Shell(t)') \/ (Checking(t) /\ Login(t)') =>
       \/ life[app[t].token] = "ended"
       \/ \E n \in Slots : LoggedOut(t, n)
       \/ Load(t)]_vars

\* No spinner turns for nobody, and no form is disabled for ever: behind
\* every one of them a request is in flight that will switch it off (login.rs
\* :137 "or the user is stuck on a spinner without a way out").
SpinnerHasRequest ==
  \A t \in Tabs :
    /\ app[t].checking => Pending(t, "check")
    /\ app[t].probing <=> Pending(t, "probe")
    /\ app[t].loading => Pending(t, "login") \/ Pending(t, "setup")
    /\ app[t].changing => Pending(t, "change")
    /\ Login(t) /\ app[t].needs = "unknown" /\ ~app[t].error => app[t].probing

\* Whatever other tabs do, a tab that is opened gets to the login form, to an
\* error it can be told about, or to the shell, unless its user loads it again
\* and again before it does.
TabOpens ==
  \A t \in Tabs :
    \/ Checking(t) \/ (Login(t) /\ app[t].needs = "unknown" /\ app[t].probing)
         ~> Shell(t) \/ (Login(t) /\ (app[t].needs # "unknown" \/ app[t].error))
    \/ []<><<Load(t)>>_vars
=============================================================================
