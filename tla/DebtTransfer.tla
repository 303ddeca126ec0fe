---------------------------- MODULE DebtTransfer ----------------------------
(***************************************************************************)
(* What a list of suggested payments promises a group, whatever algorithm  *)
(* produces it: money goes from a member who owes to a member who is owed, *)
(* and never more than the one owes or the other is owed.                  *)
(***************************************************************************)
EXTENDS Integers

CONSTANTS
  Members,   \* users of the group
  Balances   \* possible starting balances; negative: the member owes

VARIABLE left   \* what each member still owes (< 0) or is still owed (> 0)

Init == left \in [Members -> Balances]

Transfer(d, c, a) ==
  /\ left[d] + a <= 0
  /\ left[c] - a >= 0
  /\ left' = [left EXCEPT ![d] = @ + a, ![c] = @ - a]

(* a ranges over what the debtor can pay. *)
Next == \E d, c \in Members : \E a \in 1..(-left[d]) : Transfer(d, c, a)

Spec == Init /\ [][Next]_left

=============================================================================
