------------------------------ MODULE MCDecoys ------------------------------
(* A small instance of the three decoys for TLC. *)
EXTENDS Decoys, TLC

\* Only the identity of a set matters. The sources differ (one of them is a
\* trusted proxy), and the clients are numbered.
SetSymmetry == Permutations(SetIds)
=============================================================================
