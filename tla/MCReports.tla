----------------------------- MODULE MCReports ------------------------------
(* Reports with the constants of its model-checking runs.                   *)
EXTENDS Reports, TLC

CONSTANTS ann, bob, cat

JoinAndRecord == {"joinByCode", "addExpense", "settleUp"}
ExpenseKinds == {"addExpense"}
BothSigns == {10, -10}

Nothing == [u \in Users |-> 0]
Only(u, a) == [Nothing EXCEPT ![u] = a]

(* bob alone; ann in part; bob for more, against a split of ann's below nothing. *)
MixedDivisions ==
  {[charged |-> Only(bob, 10), credited |-> Nothing],
   [charged |-> Only(ann, 4), credited |-> Nothing],
   [charged |-> Only(bob, 13), credited |-> Only(ann, 3)]}

(* One user, for the whole amount. *)
WholeDivisions == {[charged |-> Only(u, 10), credited |-> Nothing] : u \in Users}

Symmetry == Permutations(Users)
=============================================================================
