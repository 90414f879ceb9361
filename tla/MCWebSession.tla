---------------------------- MODULE MCWebSession ----------------------------
(***************************************************************************)
(* WebSession for TLC: two tabs of one browser, two tokens.                *)
(***************************************************************************)
EXTENDS WebSession

CONSTANTS a, b, t1, t2
=============================================================================
