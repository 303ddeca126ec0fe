--------------------------- MODULE MCGroupLedger ----------------------------
(* GroupLedger with the constants of its model-checking runs.               *)
EXTENDS GroupLedger

CONSTANTS ann, bob, cat

MembershipKinds == {"create", "addMember", "joinByCode", "toggleHidden"}
MoneyKinds      == {"addMember", "joinByCode", "addExpense", "settleUp", "getDebts"}

Nothing == [u \in Users |-> 0]

(* ann alone, for more than the amount; bob in part, against a split of ann's *)
(* below nothing.                                                            *)
MoneyDivisions ==
  {[charged |-> [Nothing EXCEPT ![ann] = 7], credited |-> Nothing],
   [charged |-> [Nothing EXCEPT ![bob] = 3], credited |-> [Nothing EXCEPT ![ann] = 1]]}
=============================================================================
