------------------------------ MODULE MCStartup ------------------------------
(***************************************************************************)
(* Startup for TLC.  One second is two ticks.  Of the lifetimes, 2 expires *)
(* sessions within the run, 10 is out of chrono's range for every moment   *)
(* of it, and 14 is more than a TimeDelta holds.                           *)
(***************************************************************************)
EXTENDS Startup

CONSTANTS t1, t2

Earliest == -3
=============================================================================
