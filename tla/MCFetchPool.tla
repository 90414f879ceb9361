---------------------------- MODULE MCFetchPool ----------------------------
(***************************************************************************)
(* FetchPool for TLC.  The remote sources are interchangeable when every   *)
(* slot may select every row set, so the safety runs permute them.         *)
(***************************************************************************)
EXTENDS FetchPool

CONSTANTS r1, r2, r3, f1, f2, s1, s2, s3

RemoteSymmetry == Permutations(Sources \ Singles)

\* Every SELECT may return any rows.
AnyRows == [r \in Reqs |-> SUBSET Sources]

\* For liveness: one request with two rows, which can wait for a permit while
\* its own task holds the only one, among requests that compete with one row.
OneWideRequest == [r \in Reqs |-> IF r = r1 THEN {{s1, s2}} ELSE {{s1}}]
=============================================================================
