-------------------------- MODULE WebSessionProofs --------------------------
(***************************************************************************)
(* WebSession for every number of tabs, tokens and requests in flight.     *)
(* What a tab's signals say and which requests it has belong together      *)
(* (PageOK): a page has only requests of its own, because App drops the    *)
(* tasks of the page before.  That an answer which signs a tab out is      *)
(* still true when it is read needs TokensOK: a session that was found     *)
(* ended stays so.                                                         *)
(***************************************************************************)
EXTENDS WebSession, TLAPS

\* A tab whose signals are p and whose requests are c.
Has(c, kind) == \E n \in Slots : c[n].kind = kind
Within(c, kinds) == \A n \in Slots : c[n].kind \in {"none"} \cup kinds

PageOK(p, c) ==
  /\ p.checking =>
       /\ p.token # NoToken /\ Within(c, {"check"}) /\ Has(c, "check")
       /\ ~p.probing /\ ~p.loading /\ ~p.changing
  /\ ~p.checking /\ p.token = NoToken =>
       /\ Within(c, {"probe", "login", "setup"}) /\ ~p.changing
       /\ p.probing <=> Has(c, "probe")
       /\ p.loading => Has(c, "login") \/ Has(c, "setup")
       /\ p.needs = "unknown" /\ ~p.error => p.probing
  /\ ~p.checking /\ p.token # NoToken =>
       /\ Within(c, {"logout", "change"}) /\ ~p.probing /\ ~p.loading
       /\ p.changing => Has(c, "change")
  /\ \A m, n \in Slots : c[m].kind = "probe" /\ c[n].kind = "probe" => m = n
  /\ \A n \in Slots : c[n].kind \in {"check", "logout", "change"} => c[n].tok = p.token

Known(tok) == tok \in Tokens => life[tok] # "unissued"
Ended(tok) == tok \in Tokens /\ life[tok] = "ended"

\* What an answer says of its token.
CallOK(x) ==
  /\ x.kind = "login" /\ x.got = "ok" => x.tok \in Tokens /\ Known(x.tok)
  /\ x.kind = "check" /\ x.got = "denied" => Ended(x.tok)
  /\ x.kind = "change" /\ x.got = "ok" => Ended(x.tok)

TokensOK(p, c) == Known(p.token) /\ \A n \in Slots : CallOK(c[n])

CallTables == [Slots -> Call \cup {Free}]

SharedOK ==
  /\ life \in [Tokens -> Server!States]
  /\ admin \in BOOLEAN
  /\ stored \in Tokens \cup {NoToken}
  /\ Known(stored)

IInv ==
  /\ SharedOK
  /\ app \in [Tabs -> Signals]
  /\ calls \in [Tabs -> CallTables]
  /\ \A t \in Tabs : PageOK(app[t], calls[t]) /\ TokensOK(app[t], calls[t])

-----------------------------------------------------------------------------
\* The lives of tokens only go forward.
Onward ==
  /\ life' \in [Tokens -> Server!States]
  /\ \A x \in Tokens :
       /\ life[x] = "ended" => life'[x] = "ended"
       /\ life[x] # "unissued" => life'[x] # "unissued"

\* A step of tab t alone keeps the invariant if it keeps it for t.
LEMMA OneTab ==
  ASSUME IInv, Onward, SharedOK', NEW t \in Tabs,
         NEW p \in Signals, NEW c \in CallTables,
         app' = [app EXCEPT ![t] = p], calls' = [calls EXCEPT ![t] = c],
         PageOK(p, c), TokensOK(p, c)'
  PROVE  IInv'
<1>1. app' \in [Tabs -> Signals] /\ calls' \in [Tabs -> CallTables]
  BY DEF IInv
<1>2. app'[t] = p /\ calls'[t] = c
  BY DEF IInv
<1>3. ASSUME NEW q \in Tabs, q # t
      PROVE  PageOK(app'[q], calls'[q]) /\ TokensOK(app[q], calls[q])'
  <2>1. app'[q] = app[q] /\ calls'[q] = calls[q]
    BY <1>3 DEF IInv
  <2>2. PageOK(app[q], calls[q]) /\ TokensOK(app[q], calls[q])
    BY DEF IInv
  <2>3. TokensOK(app[q], calls[q])'
    BY <2>1, <2>2 DEF TokensOK, CallOK, Known, Ended, Onward
  <2> QED
    BY <2>1, <2>2, <2>3
<1> QED
  BY <1>1, <1>2, <1>3 DEF IInv

\* A slot that is free has no kind, and the converse.
LEMMA FreeSlots ==
  ASSUME NEW c \in CallTables, NEW n \in Slots
  PROVE  c[n] = Free <=> c[n].kind = "none"
BY DEF CallTables, Call, Kinds, Free

\* What the three ways of showing a page leave, each with its own requests.
LEMMA Pages ==
  /\ NoCalls \in CallTables
  /\ [Fresh(NoToken) EXCEPT !.probing = TRUE] \in Signals
  /\ Only(Sent("probe", NoToken)) \in CallTables
  /\ PageOK([Fresh(NoToken) EXCEPT !.probing = TRUE], Only(Sent("probe", NoToken)))
  /\ TokensOK([Fresh(NoToken) EXCEPT !.probing = TRUE], Only(Sent("probe", NoToken)))
  /\ \A tok \in Tokens :
       /\ Fresh(tok) \in Signals /\ [Fresh(tok) EXCEPT !.checking = TRUE] \in Signals
       /\ Only(Sent("check", tok)) \in CallTables
       /\ PageOK(Fresh(tok), NoCalls)
       /\ PageOK([Fresh(tok) EXCEPT !.checking = TRUE], Only(Sent("check", tok)))
       /\ Known(tok) => /\ TokensOK(Fresh(tok), NoCalls)
                        /\ TokensOK([Fresh(tok) EXCEPT !.checking = TRUE], Only(Sent("check", tok)))
<1>1. 1 \in Slots
  BY WebSessionAssumption DEF Slots
<1> DEFINE F == [Fresh(NoToken) EXCEPT !.probing = TRUE]
<1>2. /\ F \in Signals /\ F.token = NoToken /\ F.probing = TRUE /\ F.checking = FALSE
      /\ F.loading = FALSE /\ F.changing = FALSE
  BY DEF Fresh, Signals
<1>3. ASSUME NEW tok \in Tokens \cup {NoToken}, NEW kind \in Kinds
      PROVE  /\ Only(Sent(kind, tok)) \in CallTables
             /\ Only(Sent(kind, tok))[1].kind = kind
             /\ Only(Sent(kind, tok))[1].tok = tok
             /\ Only(Sent(kind, tok))[1].got = "sent"
             /\ \A n \in Slots \ {1} : Only(Sent(kind, tok))[n].kind = "none"
  <2>1. Sent(kind, tok) \in Call
    BY DEF Sent, Call
  <2>2. NoCalls \in CallTables /\ \A n \in Slots : NoCalls[n].kind = "none"
    BY DEF NoCalls, CallTables, Free
  <2>3. /\ Only(Sent(kind, tok)) \in CallTables
        /\ Only(Sent(kind, tok))[1] = Sent(kind, tok)
        /\ \A n \in Slots \ {1} : Only(Sent(kind, tok))[n] = NoCalls[n]
    BY <1>1, <2>1, <2>2 DEF Only, CallTables
  <2> QED
    BY <2>2, <2>3 DEF Sent
<1>4. NoCalls \in CallTables /\ \A n \in Slots : NoCalls[n] = Free
  BY DEF NoCalls, CallTables
<1> HIDE DEF F
<1> DEFINE P == Only(Sent("probe", NoToken))
<1> HIDE DEF P
<1>5. /\ P \in CallTables /\ P[1].kind = "probe" /\ P[1].got = "sent"
      /\ \A n \in Slots \ {1} : P[n].kind = "none"
  <2>1. "probe" \in Kinds
    BY DEF Kinds
  <2> QED
    BY <1>3, <2>1 DEF P
<1>6. PageOK(F, P) /\ TokensOK(F, P)
  BY <1>1, <1>2, <1>5, WebSessionAssumption DEF PageOK, TokensOK, CallOK, Within, Has, Known
<1>7. ASSUME NEW tok \in Tokens
      PROVE  /\ Fresh(tok) \in Signals /\ [Fresh(tok) EXCEPT !.checking = TRUE] \in Signals
             /\ Only(Sent("check", tok)) \in CallTables
             /\ PageOK(Fresh(tok), NoCalls)
             /\ PageOK([Fresh(tok) EXCEPT !.checking = TRUE], Only(Sent("check", tok)))
             /\ Known(tok) => /\ TokensOK(Fresh(tok), NoCalls)
                              /\ TokensOK([Fresh(tok) EXCEPT !.checking = TRUE], Only(Sent("check", tok)))
  <2> DEFINE H == [Fresh(tok) EXCEPT !.checking = TRUE]
  <2> DEFINE K == Only(Sent("check", tok))
  <2> HIDE DEF K
  <2>1. tok # NoToken
    BY WebSessionAssumption
  <2>2. /\ H \in Signals /\ H.token = tok /\ H.checking = TRUE
        /\ H.probing = FALSE /\ H.loading = FALSE /\ H.changing = FALSE
    BY DEF Fresh, Signals
  <2>3. /\ K \in CallTables /\ K[1].kind = "check" /\ K[1].got = "sent" /\ K[1].tok = tok
        /\ \A n \in Slots \ {1} : K[n].kind = "none"
    <3>1. "check" \in Kinds
      BY DEF Kinds
    <3> QED
      BY <1>3, <3>1 DEF K
  <2>4. /\ Fresh(tok) \in Signals /\ Fresh(tok).token = tok /\ Fresh(tok).checking = FALSE
        /\ Fresh(tok).probing = FALSE /\ Fresh(tok).loading = FALSE /\ Fresh(tok).changing = FALSE
    BY DEF Fresh, Signals
  <2>5. \A n \in Slots : NoCalls[n].kind = "none"
    BY <1>4 DEF Free
  <2> HIDE DEF H
  <2>6. PageOK(H, K) /\ (Known(tok) => TokensOK(H, K))
    BY <1>1, <2>1, <2>2, <2>3 DEF PageOK, TokensOK, CallOK, Within, Has
  <2>7. PageOK(Fresh(tok), NoCalls) /\ (Known(tok) => TokensOK(Fresh(tok), NoCalls))
    BY <2>1, <2>4, <2>5 DEF PageOK, TokensOK, CallOK, Within, Has
  <2> QED
    BY <2>2, <2>3, <2>4, <2>6, <2>7 DEF H, K
<1> QED
  BY <1>2, <1>4, <1>5, <1>6, <1>7 DEF F, P

\* The same when the server is not involved.
LEMMA OneTabQuiet ==
  ASSUME IInv, UNCHANGED <<life, admin>>,
         stored' \in Tokens \cup {NoToken}, Known(stored'), NEW t \in Tabs,
         NEW p \in Signals, NEW c \in CallTables,
         app' = [app EXCEPT ![t] = p], calls' = [calls EXCEPT ![t] = c],
         PageOK(p, c), TokensOK(p, c)
  PROVE  IInv'
<1>1. SharedOK' /\ Onward
  BY DEF IInv, SharedOK, Known, Onward
<1>2. TokensOK(p, c)'
  BY DEF TokensOK, CallOK, Known, Ended
<1> QED
  BY <1>1, <1>2, OneTab

\* d is c with a request more, in slot n.
Took(c, d, n, kind, tok) ==
  /\ c[n].kind = "none"
  /\ d[n].kind = kind /\ d[n].tok = tok /\ d[n].got = "sent"
  /\ \A m \in Slots \ {n} : d[m] = c[m]

\* spawn takes a free slot.
LEMMA Spawned ==
  ASSUME IInv, NEW t \in Tabs, NEW kind \in Kinds, NEW tok \in Tokens \cup {NoToken},
         Spawn(t, kind, tok)
  PROVE  \E c \in CallTables, n \in Slots :
           calls' = [calls EXCEPT ![t] = c] /\ Took(calls[t], c, n, kind, tok)
<1>1. PICK n \in Slots : calls[t][n] = Free /\ calls' = [calls EXCEPT ![t][n] = Sent(kind, tok)]
  BY DEF Spawn
<1> DEFINE c == [calls[t] EXCEPT ![n] = Sent(kind, tok)]
<1>2. calls \in [Tabs -> CallTables]
  BY DEF IInv
<1>3. Sent(kind, tok) \in Call
  BY DEF Sent, Call
<1>4. c \in CallTables /\ c[n] = Sent(kind, tok) /\ \A m \in Slots \ {n} : c[m] = calls[t][m]
  BY <1>2, <1>3 DEF CallTables
<1>5. calls' = [calls EXCEPT ![t] = c]
  BY <1>1, <1>2 DEF CallTables
<1>6. calls[t][n].kind = "none"
  BY <1>1 DEF Free
<1>7. c[n].kind = kind /\ c[n].tok = tok /\ c[n].got = "sent"
  BY <1>4 DEF Sent
<1> QED
  BY <1>4, <1>5, <1>6, <1>7 DEF Took

\* A task that ends frees its slot.
LEMMA Freed ==
  ASSUME IInv, NEW t \in Tabs, NEW n \in Slots, Done(t, n)
  PROVE  \E c \in CallTables :
           /\ calls' = [calls EXCEPT ![t] = c]
           /\ c[n].kind = "none"
           /\ \A m \in Slots \ {n} : c[m] = calls[t][m]
<1> DEFINE c == [calls[t] EXCEPT ![n] = Free]
<1>1. calls \in [Tabs -> CallTables]
  BY DEF IInv
<1>2. c \in CallTables /\ c[n] = Free /\ \A m \in Slots \ {n} : c[m] = calls[t][m]
  BY <1>1 DEF CallTables
<1>3. calls' = [calls EXCEPT ![t] = c]
  BY <1>1 DEF Done, CallTables
<1>4. c[n].kind = "none"
  BY <1>2 DEF Free
<1> QED
  BY <1>2, <1>3, <1>4

-----------------------------------------------------------------------------
\* App goes to the login page or to the shell.
LEMMA Shown ==
  ASSUME IInv, UNCHANGED <<life, admin>>, NEW t \in Tabs,
         \/ ShowLogin(t) /\ stored' \in {stored, NoToken}
         \/ \E tok \in Tokens : /\ Known(tok) /\ ShowShell(t, tok)
                                /\ stored' \in {stored, tok}
  PROVE  IInv'
<1>1. stored' \in Tokens \cup {NoToken} /\ Known(stored')
  BY WebSessionAssumption DEF IInv, SharedOK, Known
<1>2. CASE ShowLogin(t)
  BY <1>1, <1>2, Pages, OneTabQuiet DEF ShowLogin
<1>3. CASE \E tok \in Tokens : Known(tok) /\ ShowShell(t, tok)
  <2>1. PICK tok \in Tokens : Known(tok) /\ ShowShell(t, tok)
    BY <1>3
  <2> QED
    BY <1>1, <2>1, Pages, OneTabQuiet DEF ShowShell
<1> QED
  BY <1>2, <1>3

\* What the user does.
LEMMA UserStep == ASSUME IInv, NEW t \in Tabs, User(t) PROVE IInv'
<1> DEFINE p == app[t]
<1> DEFINE c == calls[t]
<1>1. p \in Signals /\ c \in CallTables /\ PageOK(p, c) /\ TokensOK(p, c)
  BY DEF IInv
<1>2. UNCHANGED <<life, admin, stored>>
  BY DEF User, Load, RetryProbe, Submit, SubmitInvalid, Logout, ChangePassword, LeaveConfig
<1>3. stored' \in Tokens \cup {NoToken} /\ Known(stored')
  BY <1>2 DEF IInv, SharedOK, Known
<1>4. p.token \in Tokens \cup {NoToken}
  BY <1>1 DEF Signals
<1>5. CASE Load(t)
  <2>1. CASE stored = NoToken
    BY <1>2, <1>5, <2>1, Shown DEF Load
  <2>2. CASE stored # NoToken
    <3>1. stored \in Tokens /\ Known(stored)
      BY <2>2 DEF IInv, SharedOK
    <3>2. /\ app' = [app EXCEPT ![t] = [Fresh(stored) EXCEPT !.checking = TRUE]]
          /\ calls' = [calls EXCEPT ![t] = Only(Sent("check", stored))]
      BY <1>5, <2>2 DEF Load
    <3> QED
      BY <1>2, <1>3, <3>1, <3>2, Pages, OneTabQuiet
  <2> QED
    BY <2>1, <2>2
<1>6. ASSUME NEW q \in Signals, NEW d \in CallTables, NEW n \in Slots, NEW kind, NEW tok,
             app' = [app EXCEPT ![t] = q], calls' = [calls EXCEPT ![t] = d],
             q.token = p.token, Took(c, d, n, kind, tok), PageOK(q, d)
      PROVE  IInv'
  <2>1. TokensOK(q, d)
    BY <1>1, <1>6 DEF TokensOK, CallOK, Took
  <2> QED
    BY <1>2, <1>3, <1>6, <2>1, OneTabQuiet
<1>7. CASE RetryProbe(t)
  <2> DEFINE q == [p EXCEPT !.probing = TRUE]
  <2>1. /\ ~p.checking /\ p.token = NoToken /\ ~p.probing
        /\ Spawn(t, "probe", NoToken) /\ app' = [app EXCEPT ![t] = q]
    BY <1>7 DEF RetryProbe, Login
  <2>2. /\ q \in Signals /\ q.token = p.token /\ q.checking = p.checking /\ q.probing = TRUE
        /\ q.loading = p.loading /\ q.changing = p.changing
    BY <1>1 DEF Signals
  <2> HIDE DEF p, c, q
  <2>3. "probe" \in Kinds /\ NoToken \in Tokens \cup {NoToken}
    BY <1>4 DEF Kinds
  <2>4. PICK d \in CallTables, n \in Slots :
          calls' = [calls EXCEPT ![t] = d] /\ Took(c, d, n, "probe", NoToken)
    BY <2>1, <2>3, Spawned DEF c
  <2>5. PageOK(q, d)
    BY <1>1, <2>1, <2>2, <2>4 DEF PageOK, Within, Has, Took
  <2> QED
    BY <1>1, <1>6, <2>1, <2>2, <2>4, <2>5
<1>8. CASE Submit(t)
  <2> DEFINE q == [p EXCEPT !.loading = TRUE]
  <2>1. PICK kind \in {"login", "setup"} :
          /\ ~p.checking /\ p.token = NoToken
          /\ Spawn(t, kind, NoToken) /\ app' = [app EXCEPT ![t] = q]
    BY <1>8 DEF Submit, Login
  <2>2. /\ q \in Signals /\ q.token = p.token /\ q.checking = p.checking
        /\ q.probing = p.probing /\ q.changing = p.changing
        /\ q.needs = p.needs /\ q.error = p.error
    BY <1>1 DEF Signals
  <2> HIDE DEF p, c, q
  <2>3. kind \in Kinds /\ NoToken \in Tokens \cup {NoToken}
    BY <1>4 DEF Kinds
  <2>4. PICK d \in CallTables, n \in Slots :
          calls' = [calls EXCEPT ![t] = d] /\ Took(c, d, n, kind, NoToken)
    BY <2>1, <2>3, Spawned DEF c
  <2>5. PageOK(q, d)
    BY <1>1, <2>1, <2>2, <2>4 DEF PageOK, Within, Has, Took
  <2> QED
    BY <1>1, <1>6, <2>1, <2>2, <2>4, <2>5
<1>9. CASE SubmitInvalid(t)
  <2> DEFINE q == [p EXCEPT !.error = TRUE]
  <2>1. /\ ~p.checking /\ p.token = NoToken
        /\ app' = [app EXCEPT ![t] = q] /\ calls' = [calls EXCEPT ![t] = c]
    BY <1>9 DEF SubmitInvalid, Login, IInv
  <2>2. /\ q \in Signals /\ q.token = p.token /\ q.checking = p.checking /\ q.error = TRUE
        /\ q.probing = p.probing /\ q.changing = p.changing /\ q.loading = p.loading
    BY <1>1 DEF Signals
  <2> HIDE DEF p, c, q
  <2>3. PageOK(q, c) /\ TokensOK(q, c)
    BY <1>1, <2>1, <2>2 DEF PageOK, TokensOK, CallOK
  <2> QED
    BY <1>1, <1>2, <1>3, <2>1, <2>2, <2>3, OneTabQuiet
<1>10. CASE Logout(t)
  <2>1. ~p.checking /\ p.token # NoToken /\ Spawn(t, "logout", p.token)
    BY <1>10 DEF Logout, Shell
  <2>2. app' = [app EXCEPT ![t] = p]
    BY <1>10 DEF Logout, IInv
  <2> HIDE DEF p, c
  <2>3. "logout" \in Kinds /\ p.token \in Tokens \cup {NoToken}
    BY <1>4 DEF Kinds
  <2>4. PICK d \in CallTables, n \in Slots :
          calls' = [calls EXCEPT ![t] = d] /\ Took(c, d, n, "logout", p.token)
    BY <2>1, <2>3, Spawned DEF c
  <2>5. PageOK(p, d)
    BY <1>1, <2>1, <2>2, <2>4 DEF PageOK, Within, Has, Took
  <2> QED
    BY <1>1, <1>6, <2>1, <2>2, <2>4, <2>5
<1>11. CASE ChangePassword(t)
  <2> DEFINE q == [p EXCEPT !.changing = TRUE]
  <2>1. /\ ~p.checking /\ p.token # NoToken
        /\ Spawn(t, "change", p.token) /\ app' = [app EXCEPT ![t] = q]
    BY <1>11 DEF ChangePassword, Shell
  <2>2. /\ q \in Signals /\ q.token = p.token /\ q.checking = p.checking
        /\ q.probing = p.probing /\ q.loading = p.loading
    BY <1>1 DEF Signals
  <2> HIDE DEF p, c, q
  <2>3. "change" \in Kinds /\ p.token \in Tokens \cup {NoToken}
    BY <1>4 DEF Kinds
  <2>4. PICK d \in CallTables, n \in Slots :
          calls' = [calls EXCEPT ![t] = d] /\ Took(c, d, n, "change", p.token)
    BY <2>1, <2>3, Spawned DEF c
  <2>5. PageOK(q, d)
    BY <1>1, <2>1, <2>2, <2>4 DEF PageOK, Within, Has, Took
  <2> QED
    BY <1>1, <1>6, <2>1, <2>2, <2>4, <2>5
<1>12. CASE LeaveConfig(t)
  <2> DEFINE q == [p EXCEPT !.changing = FALSE]
  <2> DEFINE d == [n \in Slots |-> IF c[n].kind = "change" THEN Free ELSE c[n]]
  <2>1. /\ ~p.checking /\ p.token # NoToken
        /\ app' = [app EXCEPT ![t] = q] /\ calls' = [calls EXCEPT ![t] = d]
    BY <1>12 DEF LeaveConfig, Shell
  <2>2. /\ q \in Signals /\ q.token = p.token /\ q.checking = p.checking
        /\ q.probing = p.probing /\ q.loading = p.loading /\ q.changing = FALSE
    BY <1>1 DEF Signals
  <2>3. /\ d \in CallTables
        /\ \A n \in Slots : d[n].kind = "none" \/ d[n] = c[n]
    BY <1>1 DEF CallTables, Free
  <2> HIDE DEF p, c, q, d
  <2>4. PageOK(q, d)
    BY <1>1, <2>1, <2>2, <2>3 DEF PageOK, Within
  <2>5. TokensOK(q, d)
    BY <1>1, <2>2, <2>3 DEF TokensOK, CallOK
  <2> QED
    BY <1>2, <1>3, <2>1, <2>2, <2>3, <2>4, <2>5, OneTabQuiet
<1> QED
  BY <1>5, <1>7, <1>8, <1>9, <1>10, <1>11, <1>12 DEF User

-----------------------------------------------------------------------------
\* Tokens are issued and sessions end: both go forward.
LEMMA LifeSteps ==
  ASSUME life \in [Tokens -> Server!States],
         \/ UNCHANGED life
         \/ \E x \in Tokens : Server!Issue(x)
         \/ \E T \in SUBSET Tokens : Server!End(T)
  PROVE  Onward
BY DEF Onward, Server!Issue, Server!End, Server!States

\* What a tab knows about tokens stays true.
LEMMA TokensStayOK ==
  ASSUME Onward, NEW p, NEW c, TokensOK(p, c)
  PROVE  TokensOK(p, c)'
BY DEF TokensOK, CallOK, Known, Ended, Onward

\* d is c with slot n answered.
Answered(c, d, n) ==
  /\ d[n].kind = c[n].kind
  /\ d[n].kind \in {"check", "logout", "change"} => d[n].tok = c[n].tok
  /\ \A m \in Slots \ {n} : d[m] = c[m]

\* A step that only answers a request of tab t.
LEMMA AnsweredTab ==
  ASSUME IInv, Onward, admin' \in BOOLEAN, UNCHANGED <<stored, app>>,
         NEW t \in Tabs, NEW n \in Slots, NEW d \in CallTables,
         calls' = [calls EXCEPT ![t] = d], Answered(calls[t], d, n), CallOK(d[n])'
  PROVE  IInv'
<1>1. PICK p \in Signals, c \in CallTables : p = app[t] /\ c = calls[t]
  BY DEF IInv
<1>2. PageOK(p, c) /\ TokensOK(p, c)
  BY <1>1 DEF IInv
<1>3. TokensOK(p, c)'
  BY <1>2, TokensStayOK
<1>4. app' = [app EXCEPT ![t] = p]
  BY <1>1 DEF IInv
<1>5. TokensOK(p, d)'
  BY <1>1, <1>3 DEF TokensOK, Answered
<1>6. PageOK(p, d)
  <2>1. \A m \in Slots : /\ d[m].kind = c[m].kind
                         /\ d[m].kind \in {"check", "logout", "change"} => d[m].tok = c[m].tok
    BY <1>1 DEF Answered
  <2> QED
    BY <1>2, <2>1 DEF PageOK, Within, Has
<1>7. SharedOK'
  BY DEF IInv, SharedOK, Onward, Known
<1> QED
  BY <1>4, <1>5, <1>6, <1>7, OneTab

\* What the server does with a request, and what the network does to it.
LEMMA NetworkStep ==
  ASSUME IInv, NEW t \in Tabs, NEW n \in Slots, Network(t, n) PROVE IInv'
<1>1. PICK p \in Signals, c \in CallTables : p = app[t] /\ c = calls[t]
  BY DEF IInv
<1>2. PageOK(p, c) /\ TokensOK(p, c) /\ SharedOK
  BY <1>1 DEF IInv
<1>3. UNCHANGED <<stored, app>> /\ admin' \in BOOLEAN
  BY DEF Network, Serve, Fail, IInv, SharedOK
<1>4. Onward
  <2>1. UNCHANGED life \/ (\E x \in Tokens : Server!Issue(x))
          \/ (\E T \in SUBSET Tokens : Server!End(T))
    BY DEF Network, Serve, Fail, AllLive
  <2> QED
    BY <1>2, <2>1, LifeSteps DEF SharedOK
<1>5. c[n].kind # "none" /\ c[n] \in Call
  <2>1. c[n].got = "sent" \/ c[n] # Free
    BY <1>1 DEF Network, Serve, Fail
  <2> QED
    BY <2>1 DEF CallTables, Call, Kinds, Free
<1>6. c[n].kind \in {"check", "logout", "change"} => c[n].tok = p.token /\ p.token \in Tokens
  BY <1>2, <1>5 DEF PageOK, Within, Signals
<1>7. ASSUME NEW got \in Answers, calls' = [calls EXCEPT ![t][n].got = got],
             c[n].kind = "login" => got # "ok",
             c[n].kind = "check" /\ got = "denied" => Ended(c[n].tok)',
             c[n].kind = "change" /\ got = "ok" => Ended(c[n].tok)'
      PROVE  IInv'
  <2> DEFINE d == [c EXCEPT ![n].got = got]
  <2>1. calls' = [calls EXCEPT ![t] = d]
    BY <1>1, <1>7
  <2>2. /\ d \in CallTables /\ d[n].kind = c[n].kind /\ d[n].tok = c[n].tok /\ d[n].got = got
        /\ \A m \in Slots \ {n} : d[m] = c[m]
    BY <1>5 DEF CallTables, Call
  <2> HIDE DEF d
  <2>3. Answered(calls[t], d, n)
    BY <1>1, <2>2 DEF Answered
  <2>4. CallOK(d[n])'
    BY <1>7, <2>2 DEF CallOK, Ended
  <2> QED
    BY <1>3, <1>4, <2>1, <2>2, <2>3, <2>4, AnsweredTab
<1>8. CASE Fail(t, n)
  BY <1>7, <1>8 DEF Fail, Respond, Answers
<1>9. CASE Serve(t, n)
  <2>1. CASE /\ c[n].kind \in {"probe", "setup", "logout"}
             /\ \E got \in Answers : Respond(t, n, got)
    BY <1>7, <2>1 DEF Respond
  <2>2. CASE c[n].kind = "check" /\ UNCHANGED life
             /\ Respond(t, n, IF Live(c[n].tok) THEN "ok" ELSE "denied")
    <3>1. c[n].tok \in Tokens /\ life[c[n].tok] # "unissued" /\ c[n].tok # NoToken
      BY <1>2, <1>6, <2>2, WebSessionAssumption DEF TokensOK, CallOK, Known
    <3>2. ~Live(c[n].tok) => Ended(c[n].tok)'
      BY <1>2, <2>2, <3>1 DEF Live, Ended, SharedOK, Server!States
    <3> QED
      BY <1>7, <2>2, <3>2 DEF Respond, Answers
  <2>3. CASE c[n].kind = "change" /\ Server!End(IF Live(c[n].tok) THEN AllLive ELSE {})
             /\ Respond(t, n, IF Live(c[n].tok) THEN "ok" ELSE "denied")
    <3>1. Live(c[n].tok) => Ended(c[n].tok)'
      BY <1>6, <2>3 DEF Live, Ended, AllLive, Server!End
    <3> QED
      BY <1>7, <2>3, <3>1 DEF Respond, Answers
  <2>4. CASE c[n].kind = "login" /\ Respond(t, n, "denied")
    BY <1>7, <2>4 DEF Respond, Answers
  <2>5. CASE /\ c[n].kind = "login"
             /\ \E tok \in Tokens :
                  /\ Server!Issue(tok)
                  /\ calls' = [calls EXCEPT ![t][n].got = "ok", ![t][n].tok = tok]
    <3>1. PICK tok \in Tokens :
            /\ Server!Issue(tok)
            /\ calls' = [calls EXCEPT ![t][n].got = "ok", ![t][n].tok = tok]
      BY <2>5
    <3> DEFINE d == [c EXCEPT ![n].got = "ok", ![n].tok = tok]
    <3>2. calls' = [calls EXCEPT ![t] = d]
      BY <1>1, <3>1 DEF IInv, CallTables
    <3>3. /\ d \in CallTables /\ d[n].kind = c[n].kind /\ d[n].tok = tok /\ d[n].got = "ok"
          /\ \A m \in Slots \ {n} : d[m] = c[m]
      BY <1>5 DEF CallTables, Call, Answers
    <3> HIDE DEF d
    <3>4. Answered(calls[t], d, n)
      BY <1>1, <2>5, <3>3 DEF Answered
    <3>5. CallOK(d[n])'
      BY <1>2, <2>5, <3>1, <3>3 DEF CallOK, Known, Server!Issue, SharedOK
    <3> QED
      BY <1>3, <1>4, <3>2, <3>3, <3>4, <3>5, AnsweredTab
  <2> QED
    BY <1>1, <1>9, <2>1, <2>2, <2>3, <2>4, <2>5 DEF Serve, Answers
<1> QED
  BY <1>8, <1>9 DEF Network

\* The page that hears an answer is the one that asked.
LEMMA Asked ==
  ASSUME NEW p \in Signals, NEW c \in CallTables, PageOK(p, c), NEW n \in Slots
  PROVE  /\ c[n].kind = "check" => p.checking /\ p.token \in Tokens
         /\ c[n].kind \in {"probe", "login", "setup"} => ~p.checking /\ p.token = NoToken
         /\ c[n].kind \in {"logout", "change"} => ~p.checking /\ p.token \in Tokens
BY DEF PageOK, Within, Signals

\* What the tasks of a tab do with the answers.
LEMMA TaskStep ==
  ASSUME IInv, NEW t \in Tabs, NEW n \in Slots, Task(t, n) PROVE IInv'
<1>1. PICK p \in Signals, c \in CallTables : p = app[t] /\ c = calls[t]
  BY DEF IInv
<1>2. PageOK(p, c) /\ TokensOK(p, c) /\ SharedOK
  BY <1>1 DEF IInv
<1>3. UNCHANGED <<life, admin>>
  BY DEF Task, Checked, Probed, LoggedIn, SetUp, LoggedOut, Changed
<1>4. Known(p.token) /\ Known(stored) /\ stored \in Tokens \cup {NoToken}
  BY <1>2 DEF TokensOK, SharedOK
<1>5. ForgetToken(t) => IInv'
  BY <1>3, Shown DEF ForgetToken
<1>6. ASSUME NEW q \in Signals, app' = [app EXCEPT ![t] = q], Done(t, n), UNCHANGED stored,
             q.token = p.token,
             \A d \in CallTables :
               d[n].kind = "none" /\ (\A m \in Slots \ {n} : d[m] = c[m]) => PageOK(q, d)
      PROVE  IInv'
  <2>1. PICK d \in CallTables :
          /\ calls' = [calls EXCEPT ![t] = d]
          /\ d[n].kind = "none" /\ \A m \in Slots \ {n} : d[m] = c[m]
    BY <1>1, <1>6, Freed
  <2>2. PageOK(q, d)
    BY <1>6, <2>1
  <2>3. TokensOK(q, d)
    BY <1>2, <1>6, <2>1 DEF TokensOK, CallOK
  <2>4. stored' \in Tokens \cup {NoToken} /\ Known(stored')
    BY <1>3, <1>4, <1>6 DEF Known
  <2> QED
    BY <1>3, <1>6, <2>1, <2>2, <2>3, <2>4, OneTabQuiet
<1>7. CASE Checked(t, n)
  <2>1. p.token \in Tokens
    BY <1>1, <1>2, <1>7, Asked DEF Checked, Hears
  <2>2. ForgetToken(t) \/ (ShowShell(t, p.token) /\ UNCHANGED stored)
    BY <1>1, <1>7 DEF Checked
  <2> QED
    BY <1>3, <1>4, <1>5, <2>1, <2>2, Shown
<1>8. CASE Probed(t, n)
  <2>1. PICK q \in Signals :
          /\ app' = [app EXCEPT ![t] = q]
          /\ q.token = p.token /\ q.checking = p.checking /\ q.probing = FALSE
          /\ q.loading = p.loading /\ q.changing = p.changing
          /\ q.needs = "unknown" => q.error
    <3> DEFINE new == CASE c[n].got = "ok" -> "yes" [] c[n].got = "denied" -> "no"
                        [] OTHER -> p.needs
    <3> DEFINE q == [p EXCEPT !.probing = FALSE, !.needs = new, !.error = c[n].got = "failed"]
    <3>1. c[n].got \in Answers
      BY <1>1, <1>8 DEF Probed, Hears
    <3>2. new \in {"unknown", "yes", "no"} /\ (new = "unknown" => c[n].got = "failed")
      BY <3>1 DEF Answers, Signals
    <3>3. app' = [app EXCEPT ![t] = q]
      BY <1>1, <1>8 DEF Probed
    <3> HIDE DEF new
    <3>4. /\ q \in Signals
          /\ q.token = p.token /\ q.checking = p.checking /\ q.probing = FALSE
          /\ q.loading = p.loading /\ q.changing = p.changing
          /\ q.needs = new /\ q.error = (c[n].got = "failed")
      BY <3>2 DEF Signals
    <3> QED
      BY <3>2, <3>3, <3>4
  <2>2. c[n].kind = "probe" /\ Done(t, n) /\ UNCHANGED stored
    BY <1>1, <1>8 DEF Probed, Hears
  <2>3. ~p.checking /\ p.token = NoToken
    BY <1>2, <2>2, Asked
  <2>4. ASSUME NEW d \in CallTables, d[n].kind = "none", \A m \in Slots \ {n} : d[m] = c[m]
        PROVE  PageOK(q, d)
    BY <1>2, <2>1, <2>2, <2>3, <2>4 DEF PageOK, Within, Has
  <2> QED
    BY <1>6, <2>1, <2>2, <2>4
<1>9. ASSUME c[n].kind \in {"login", "setup"}, Done(t, n), UNCHANGED stored,
             app' = [app EXCEPT ![t].loading = FALSE, ![t].error = TRUE]
      PROVE  IInv'
  <2> DEFINE q == [p EXCEPT !.loading = FALSE, !.error = TRUE]
  <2>1. app' = [app EXCEPT ![t] = q]
    BY <1>1, <1>9
  <2>2. /\ q \in Signals
        /\ q.token = p.token /\ q.checking = p.checking /\ q.probing = p.probing
        /\ q.loading = FALSE /\ q.changing = p.changing /\ q.error = TRUE
    BY DEF Signals
  <2>3. ~p.checking /\ p.token = NoToken
    BY <1>2, <1>9, Asked
  <2> HIDE DEF q
  <2>4. ASSUME NEW d \in CallTables, d[n].kind = "none", \A m \in Slots \ {n} : d[m] = c[m]
        PROVE  PageOK(q, d)
    BY <1>2, <1>9, <2>2, <2>3, <2>4 DEF PageOK, Within, Has
  <2> QED
    BY <1>6, <1>9, <2>1, <2>2, <2>4
<1>10. CASE LoggedIn(t, n)
  <2>1. c[n].kind = "login"
    BY <1>1, <1>10 DEF LoggedIn, Hears
  <2>2. CASE c[n].got = "ok"
    <3>1. c[n].tok \in Tokens /\ Known(c[n].tok)
      BY <1>2, <2>1, <2>2 DEF TokensOK, CallOK
    <3>2. stored' = c[n].tok /\ ShowShell(t, c[n].tok)
      BY <1>1, <1>10, <2>2 DEF LoggedIn, ShowShell
    <3> QED
      BY <1>3, <3>1, <3>2, Shown
  <2>3. CASE c[n].got # "ok"
    BY <1>1, <1>9, <1>10, <2>1, <2>3 DEF LoggedIn
  <2> QED
    BY <2>2, <2>3
<1>11. CASE SetUp(t, n)
  <2>1. c[n].kind = "setup" /\ UNCHANGED stored
    BY <1>1, <1>11 DEF SetUp, Hears
  <2>2. CASE c[n].got = "ok"
    <3> DEFINE d == [c EXCEPT ![n] = Sent("login", NoToken)]
    <3>1. calls' = [calls EXCEPT ![t] = d] /\ app' = [app EXCEPT ![t] = p]
      BY <1>1, <1>11, <2>2 DEF SetUp, IInv
    <3>2. Sent("login", NoToken) \in Call
      BY DEF Sent, Call, Kinds
    <3>3. /\ d \in CallTables /\ d[n].kind = "login" /\ d[n].got = "sent"
          /\ \A m \in Slots \ {n} : d[m] = c[m]
      BY <3>2 DEF CallTables, Sent
    <3>4. ~p.checking /\ p.token = NoToken
      BY <1>2, <2>1, Asked
    <3> HIDE DEF d
    <3>5. PageOK(p, d)
      BY <1>2, <2>1, <3>3, <3>4 DEF PageOK, Within, Has
    <3>6. TokensOK(p, d)
      BY <1>2, <3>3 DEF TokensOK, CallOK
    <3>7. stored' \in Tokens \cup {NoToken} /\ Known(stored')
      BY <1>3, <1>4, <2>1 DEF Known
    <3> QED
      BY <1>3, <3>1, <3>3, <3>5, <3>6, <3>7, OneTabQuiet
  <2>3. CASE c[n].got # "ok"
    BY <1>1, <1>9, <1>11, <2>1, <2>3 DEF SetUp
  <2> QED
    BY <2>2, <2>3
<1>12. CASE LoggedOut(t, n)
  BY <1>5, <1>12 DEF LoggedOut
<1>13. CASE Changed(t, n)
  <2>1. c[n].kind = "change"
    BY <1>1, <1>13 DEF Changed, Hears
  <2>2. CASE ForgetToken(t)
    BY <1>5, <2>2
  <2>3. CASE ~ForgetToken(t)
    <3> DEFINE q == [p EXCEPT !.changing = FALSE]
    <3>1. app' = [app EXCEPT ![t] = q] /\ Done(t, n) /\ UNCHANGED stored
      BY <1>1, <1>13, <2>3 DEF Changed
    <3>2. /\ q \in Signals
          /\ q.token = p.token /\ q.checking = p.checking /\ q.probing = p.probing
          /\ q.loading = p.loading /\ q.changing = FALSE
      BY DEF Signals
    <3>3. ~p.checking /\ p.token \in Tokens /\ p.token # NoToken
      BY <1>2, <2>1, Asked, WebSessionAssumption
    <3> HIDE DEF q
    <3>4. ASSUME NEW d \in CallTables, d[n].kind = "none", \A m \in Slots \ {n} : d[m] = c[m]
          PROVE  PageOK(q, d)
      BY <1>2, <3>2, <3>3, <3>4 DEF PageOK, Within, Has
    <3> QED
      BY <1>6, <3>1, <3>2, <3>4
  <2> QED
    BY <2>2, <2>3
<1> QED
  BY <1>7, <1>8, <1>10, <1>11, <1>12, <1>13 DEF Task

\* What happens to sessions elsewhere.
LEMMA ElsewhereStep == ASSUME IInv, Elsewhere PROVE IInv'
<1>1. SharedOK
  BY DEF IInv
<1>2. UNCHANGED <<stored, app, calls>> /\ admin' \in BOOLEAN
  BY <1>1 DEF Elsewhere, SharedOK
<1>3. Onward
  <2>1. UNCHANGED life \/ \E T \in SUBSET Tokens : Server!End(T)
    BY DEF Elsewhere, AllLive
  <2> QED
    BY <1>1, <2>1, LifeSteps DEF SharedOK
<1>4. ASSUME NEW t \in Tabs PROVE TokensOK(app[t], calls[t])'
  <2>1. PICK p, c : p = app[t] /\ c = calls[t]
    OBVIOUS
  <2>2. TokensOK(p, c)'
    BY <1>3, <2>1, TokensStayOK DEF IInv
  <2> QED
    BY <1>2, <2>1, <2>2 DEF TokensOK, CallOK, Known, Ended
<1>5. SharedOK'
  BY <1>1, <1>2, <1>3 DEF SharedOK, Onward, Known
<1> QED
  BY <1>2, <1>4, <1>5 DEF IInv

-----------------------------------------------------------------------------
\* The invariant holds when the tabs are opened for the first time ...
LEMMA InitIInv == Init => IInv
<1> SUFFICES ASSUME Init PROVE IInv
  OBVIOUS
<1>1. SharedOK
  BY WebSessionAssumption DEF Init, SharedOK, Known, Server!Init, Server!States
<1>2. \A t \in Tabs : /\ app[t] = [Fresh(NoToken) EXCEPT !.probing = TRUE]
                      /\ calls[t] = Only(Sent("probe", NoToken))
  BY DEF Init
<1>3. app \in [Tabs -> Signals] /\ calls \in [Tabs -> CallTables]
  BY Pages DEF Init
<1> QED
  BY <1>1, <1>2, <1>3, Pages DEF IInv

\* ... and whatever users, tabs, the network and the server do keeps it.
LEMMA NextIInv == IInv /\ [Next]_vars => IInv'
<1> SUFFICES ASSUME IInv, [Next]_vars PROVE IInv'
  OBVIOUS
<1>1. CASE UNCHANGED vars
  BY <1>1 DEF vars, IInv, SharedOK, Known, PageOK, TokensOK, CallOK, Ended
<1> QED
  BY <1>1, UserStep, NetworkStep, TaskStep, ElsewhereStep DEF Next

\* The invariant holds in every reachable state.
LEMMA SpecIInv == Spec => []IInv
BY InitIInv, NextIInv, PTL DEF Spec

\* Signals, requests and tokens keep their types, and a request made for a
\* session carries the token of the tab that waits for it.
THEOREM WebTypeOK == Spec => []TypeOK
<1>1. IInv => TypeOK
  <2> SUFFICES ASSUME IInv PROVE TypeOK
    OBVIOUS
  <2>1. ASSUME NEW t \in Tabs, NEW n \in Slots,
               calls[t][n].kind \in {"check", "logout", "change"}
        PROVE  calls[t][n].tok = app[t].token /\ app[t].token # NoToken
    BY <2>1, WebSessionAssumption DEF IInv, PageOK, Within
  <2> QED
    BY <2>1 DEF IInv, SharedOK, CallTables, TypeOK
<1> QED
  BY <1>1, SpecIInv, PTL

\* login.rs:137: every spinner and every disabled form of App, Login and
\* Config has a request in flight that will switch it off.
THEOREM NoIdleSpinner == Spec => []SpinnerHasRequest
<1>1. IInv => SpinnerHasRequest
  BY DEF IInv, PageOK, Has, Within, SpinnerHasRequest, Pending, Login
<1> QED
  BY <1>1, SpecIInv, PTL

\* main.rs:37: only the end of its session, or its user, signs a tab out.
THEOREM OnlySignedOutForCause == Spec => SignedOutForCause
<1> DEFINE Cause(t) ==
      (Shell(t) /\ ~Shell(t)') \/ (Checking(t) /\ Login(t)') =>
       \/ life[app[t].token] = "ended"
       \/ \E n \in Slots : LoggedOut(t, n)
       \/ Load(t)
<1>1. ASSUME IInv, NEW t \in Tabs, NEW q \in Tabs, User(q) PROVE Cause(t)
  <2>1. Load(q) \/ (app'[t].checking = app[t].checking /\ app'[t].token = app[t].token)
    BY <1>1 DEF User, RetryProbe, Submit, SubmitInvalid, Logout, ChangePassword, LeaveConfig,
                IInv, Signals
  <2>2. q # t /\ Load(q) => app'[t] = app[t]
    BY <1>1 DEF Load, ShowLogin, IInv
  <2> QED
    BY <2>1, <2>2 DEF Shell, Checking, Login
<1>2. ASSUME IInv, NEW t \in Tabs, NEW q \in Tabs, NEW n \in Slots, Task(q, n) PROVE Cause(t)
  <2>1. CASE q # t
    <3>1. app'[t] = app[t]
      BY <1>2, <2>1 DEF Task, Checked, Probed, LoggedIn, SetUp, LoggedOut, Changed,
                        ForgetToken, ShowLogin, ShowShell, IInv
    <3> QED
      BY <3>1 DEF Shell, Checking, Login
  <2>2. CASE q = t
    <3>1. PageOK(app[t], calls[t]) /\ app[t] \in Signals /\ calls[t] \in CallTables
      BY <1>2 DEF IInv
    <3>2. CASE LoggedOut(t, n)
      BY <3>2
    <3>3. CASE Checked(t, n)
      <4>1. calls[t][n].tok = app[t].token /\ app[t].checking /\ app[t].token \in Tokens
        BY <3>1, <3>3, Asked DEF Checked, Hears, PageOK
      <4>2. CASE calls[t][n].got = "denied"
        <5>1. Ended(calls[t][n].tok)
          BY <1>2, <3>3, <4>2 DEF IInv, TokensOK, CallOK, Checked, Hears
        <5> QED
          BY <4>1, <5>1 DEF Ended
      <4>3. CASE calls[t][n].got # "denied"
        <5>1. app' = [app EXCEPT ![t] = Fresh(app[t].token)]
          BY <3>3, <4>3 DEF Checked, ShowShell
        <5>2. app'[t].token = app[t].token /\ app'[t].token # NoToken
          BY <1>2, <4>1, <5>1, WebSessionAssumption DEF IInv, Fresh
        <5> QED
          BY <4>1, <5>2 DEF Shell, Checking, Login
      <4> QED
        BY <4>2, <4>3
    <3>4. CASE Changed(t, n)
      <4>1. calls[t][n].tok = app[t].token /\ ~app[t].checking
        BY <3>1, <3>4, Asked DEF Changed, Hears, PageOK
      <4>2. CASE calls[t][n].got = "ok"
        <5>1. Ended(calls[t][n].tok)
          BY <1>2, <3>4, <4>2 DEF IInv, TokensOK, CallOK, Changed, Hears
        <5> QED
          BY <4>1, <5>1 DEF Ended
      <4>3. CASE calls[t][n].got # "ok"
        <5>1. app' = [app EXCEPT ![t].changing = FALSE]
          BY <3>4, <4>3 DEF Changed
        <5>2. app'[t].token = app[t].token /\ app'[t].checking = app[t].checking
          BY <1>2, <5>1 DEF IInv, Signals
        <5> QED
          BY <4>1, <5>2 DEF Shell, Checking, Login
      <4> QED
        BY <4>2, <4>3
    <3>5. CASE Probed(t, n) \/ LoggedIn(t, n) \/ SetUp(t, n)
      <4>1. ~app[t].checking /\ app[t].token = NoToken
        BY <3>1, <3>5, Asked DEF Probed, LoggedIn, SetUp, Hears
      <4> QED
        BY <4>1 DEF Shell, Checking
    <3> QED
      BY <1>2, <2>2, <3>2, <3>3, <3>4, <3>5 DEF Task
  <2> QED
    BY <2>1, <2>2
<1>3. ASSUME UNCHANGED app, NEW t \in Tabs PROVE Cause(t)
  BY <1>3 DEF Shell, Checking, Login
<1>4. IInv /\ [Next]_vars =>
        [\A t \in Tabs : (Shell(t) /\ ~Shell(t)') \/ (Checking(t) /\ Login(t)') =>
       \/ life[app[t].token] = "ended"
       \/ \E n \in Slots : LoggedOut(t, n)
       \/ Load(t)]_vars
  <2> SUFFICES ASSUME IInv, [Next]_vars, NEW t \in Tabs PROVE Cause(t)
    OBVIOUS
  <2>1. ASSUME NEW q \in Tabs, NEW n \in Slots, Network(q, n) PROVE UNCHANGED app
    BY <2>1 DEF Network, Serve, Fail
  <2>2. Elsewhere \/ UNCHANGED vars => UNCHANGED app
    BY DEF Elsewhere, vars
  <2> QED
    BY <1>1, <1>2, <1>3, <2>1, <2>2 DEF Next
<1> QED
  BY <1>4, SpecIInv, PTL DEF Spec, SignedOutForCause
=============================================================================
