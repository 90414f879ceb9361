-------------------------- MODULE SessionLifecycle --------------------------
(***************************************************************************)
(* What the server promises of a session token, whatever the requests do   *)
(* in between: a token is issued at most once, its session ends at most    *)
(* once, and a session that has ended (logout, expiry, password change)    *)
(* never comes back.                                                       *)
(***************************************************************************)
CONSTANT Tokens

VARIABLE life  \* life[t]: where token t is in its life

States == {"unissued", "live", "ended"}

Init == life = [t \in Tokens |-> "unissued"]

Issue(t) ==
  /\ life[t] = "unissued"
  /\ life' = [life EXCEPT ![t] = "live"]

\* Any set of live sessions may end in one step.
End(T) ==
  /\ \A t \in T : life[t] = "live"
  /\ life' = [t \in Tokens |-> IF t \in T THEN "ended" ELSE life[t]]

Next == (\E t \in Tokens : Issue(t)) \/ (\E T \in SUBSET Tokens : End(T))

Spec == Init /\ [][Next]_life
=============================================================================
