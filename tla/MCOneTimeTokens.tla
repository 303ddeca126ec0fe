-------------------------- MODULE MCOneTimeTokens ---------------------------
(* A small instance of OneTimeTokens for TLC. *)
EXTENDS OneTimeTokens, TLC

CONSTANTS ann, bob

EveryKind == AllKinds
Symmetry == Permutations(Users)
=============================================================================
