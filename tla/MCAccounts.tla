----------------------------- MODULE MCAccounts -----------------------------
(* A small instance of Accounts for TLC. *)
EXTENDS Accounts, TLC

CONSTANTS e1, e2, n1, empty, google, github

(* Any two requests; and three about one profile, or about one reset code, or *)
(* about a user who signs up twice.                                           *)
SomePlans ==
  {<<AllKinds, AllKinds, {}>>,
   <<{"signUp"}, {"patch", "rename"}, {"rename"}>>,
   <<{"askReset"}, {"reset", "changePassword"}, {"reset"}>>,
   <<{"signUp"}, {"oauth"}, {"createPassword"}>>}

Symmetry == Permutations(Emails)
=============================================================================
