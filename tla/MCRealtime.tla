----------------------------- MODULE MCRealtime -----------------------------
(* A small instance of Realtime for TLC. *)
EXTENDS Realtime, TLC

CONSTANTS home, trip, s1

Symmetry == Permutations(Groups)
=============================================================================
