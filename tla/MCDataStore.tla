---------------------------- MODULE MCDataStore ----------------------------
(***************************************************************************)
(* DataStore for TLC: two writes, which both go through the same page.     *)
(***************************************************************************)
EXTENDS DataStore

CONSTANTS w1, w2
=============================================================================
