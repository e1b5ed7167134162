----------------------------- MODULE MCTracker -----------------------------
(* A small instance of the tracker for TLC. *)
EXTENDS Tracker, TLC

TrackerSymmetry == Permutations(IPs)
=============================================================================
