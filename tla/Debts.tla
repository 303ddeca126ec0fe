------------------------------- MODULE Debts --------------------------------
(***************************************************************************)
(* getDebts of src/src/modules/finance/services/group-expenses.service.ts: *)
(* from the net balance of each member, the payments that settle a group.  *)
(*                                                                         *)
(* The code computes with floating-point amounts of money.  Here an amount *)
(* is an integer number of units, Cent of which make 0.01.  The code       *)
(* compares with 0.01 strictly; a sum of decimals that should be 0.01 is a *)
(* little less, equal or a little more, so at that value exactly, and only *)
(* there, a comparison may go either way.  toFixed(2) likewise returns one *)
(* of the nearest cents.                                                   *)
(***************************************************************************)
EXTENDS Integers, Sequences, FiniteSets, Functions

CONSTANTS
  Members,   \* users with an expense, a split or a settlement in the group
  Balances,  \* possible net balances, in units
  Cent       \* units in a cent

ASSUME MembersAssumption  == IsFiniteSet(Members)
ASSUME BalancesAssumption == Balances \subseteq Int
ASSUME CentAssumption     == Cent \in Nat \ {0}

VARIABLES
  pc,         \* "partition", "settle", "done"
  debtors,    \* ids of those who owe, the largest debt first
  creditors,  \* ids of those who are owed, the largest credit first
  left,       \* amount of each debtor, creditor or unlisted member
  i, j,       \* current debtor and creditor, from 1
  debts       \* payments suggested so far

vars == <<pc, debtors, creditors, left, i, j, debts>>

Abs(a) == IF a < 0 THEN -a ELSE a

-----------------------------------------------------------------------------
(* Separating and sorting.  An operator named Bug... is a seeded fault that      *)
(* stands beside the definition it would replace; nothing uses it.           *)

(* The orders sort may leave the ids of S in: by key, equal keys in any order *)
(* (the order of the rows the query returned).                               *)
Orders(S, Key(_)) ==
  {s \in Bijection(1..Cardinality(S), S) :
     \A p, q \in DOMAIN s : p < q => Key(s[p]) <= Key(s[q])}

(* Sets that hold every member of Sure and none outside Possible. *)
Between(Sure, Possible) == {Sure \cup X : X \in SUBSET (Possible \ Sure)}

OrdersOfDebtors ==
  UNION {Orders(S, LAMBDA m : left[m]) :
           S \in Between({m \in Members : left[m] < -Cent}, {m \in Members : left[m] <= -Cent})}

OrdersOfCreditors ==
  UNION {Orders(S, LAMBDA m : -left[m]) :
           S \in Between({m \in Members : left[m] > Cent}, {m \in Members : left[m] >= Cent})}

Init ==
  /\ pc = "partition"
  /\ left \in [Members -> Balances]
  /\ debtors = <<>> /\ creditors = <<>>
  /\ i = 1 /\ j = 1
  /\ debts = <<>>

Partition ==
  /\ pc = "partition"
  /\ pc' = "settle"
  /\ debtors' \in OrdersOfDebtors
  /\ creditors' \in OrdersOfCreditors
  /\ UNCHANGED <<left, i, j, debts>>

-----------------------------------------------------------------------------
(* The greedy loop *)

Lower(a, b) == IF a < b THEN a ELSE b

(* Number(amount.toFixed(2)) *)
Cents(a) == {c * Cent : c \in {x \in {a \div Cent, a \div Cent + 1} : 2 * Abs(x * Cent - a) <= Cent}}

BugSkipOne(k, a) == IF a < Cent THEN {k + 2} ELSE {k}

BugNoTolerance(k, a) == IF a < 0 THEN {k + 1} ELSE {k}

BugExactZero(k, a) == IF a = 0 THEN {k + 1} ELSE {k}

BugWideTolerance(k, a) == IF a < 3 * Cent THEN {k + 1} ELSE {k}

(* The index after k, once the amount at k has become a: a settled one is left. *)
Advance(k, a) ==
  (IF a <= Cent THEN {k + 1} ELSE {}) \cup (IF a >= Cent THEN {k} ELSE {})

BugWholeDebt(d, c) == Abs(left[d])

Payment(d, c) == Lower(Abs(left[d]), left[c])

Settle ==
  /\ pc = "settle"
  /\ i <= Len(debtors) /\ j <= Len(creditors)
  /\ LET d == debtors[i]
         c == creditors[j]
         a == Payment(d, c)
     IN  /\ \E published \in Cents(a) :
              debts' = Append(debts, [from |-> d, to |-> c, amount |-> published])
         /\ left' = [left EXCEPT ![d] = @ + a, ![c] = @ - a]
         /\ i' \in Advance(i, Abs(left[d] + a))
         /\ j' \in Advance(j, left[c] - a)
  /\ UNCHANGED <<pc, debtors, creditors>>

BugBothExhausted == i > Len(debtors) /\ j > Len(creditors)

Exhausted == i > Len(debtors) \/ j > Len(creditors)

Finish ==
  /\ pc = "settle"
  /\ Exhausted
  /\ pc' = "done"
  /\ UNCHANGED <<debtors, creditors, left, i, j, debts>>

Done == pc = "done" /\ UNCHANGED vars

Next == Partition \/ Settle \/ Finish \/ Done

(* The loop runs to its end without an await: nothing can stop it. *)
Spec == Init /\ [][Next]_vars /\ WF_vars(Partition \/ Settle \/ Finish)

-----------------------------------------------------------------------------
(* Properties *)

Payments == [from : Members, to : Members, amount : Int]

(* The locals of getDebts: two lists of distinct members, who owe or are owed *)
(* (or are even), two indices at most one past their list, and the payments. *)
TypeOK ==
  /\ pc \in {"partition", "settle", "done"}
  /\ left \in [Members -> Int]
  /\ debtors \in Seq(Members) /\ creditors \in Seq(Members)
  /\ i \in 1..(Len(debtors) + 1) /\ j \in 1..(Len(creditors) + 1)
  /\ debts \in Seq(Payments)

(* Each payment settles the debtor or the creditor it names, so there is      *)
(* always at least one fewer than there are debtors and creditors.           *)
FewPayments == debts = <<>> \/ Len(debts) < Len(debtors) + Len(creditors)

(* A suggested payment is at least a cent: a transfer that toFixed would      *)
(* print as 0.00 is never suggested.                                         *)
NoEmptyPayment == \A k \in DOMAIN debts : debts[k].amount >= Cent

(* After the last payment either nobody owes more than a cent or nobody is    *)
(* owed more than a cent, although pennies are dropped on the way and the    *)
(* balances of a group need not add up to zero.                              *)
OneSideIsSettled ==
  pc = "done" => \/ \A m \in Members : left[m] >= -Cent
                 \/ \A m \in Members : left[m] <= Cent

(* No debtor is told to pay the same creditor twice. *)
PairsAreDistinct ==
  \A k, l \in DOMAIN debts :
    k # l => debts[k].from # debts[l].from \/ debts[k].to # debts[l].to

(* A step of the loop is a payment the members would accept. *)
Promise == INSTANCE DebtTransfer
ImplementsPromise == Promise!Spec

(* getDebts returns: the loop ends for every set of balances. *)
Returns == <>(pc = "done")
=============================================================================
