------------------------------ MODULE MCCatalog ------------------------------
(***************************************************************************)
(* Catalog for TLC.                                                        *)
(***************************************************************************)
EXTENDS Catalog

CONSTANTS w1, w2, home, work
=============================================================================
