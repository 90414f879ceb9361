----------------------------- MODULE MCSubscribe -----------------------------
(***************************************************************************)
(* Subscribe for TLC: one subscriber against one administrator.            *)
(***************************************************************************)
EXTENDS Subscribe

CONSTANTS r1, w1, home
=============================================================================
