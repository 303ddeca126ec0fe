---------------------------- MODULE DebtsProofs -----------------------------
(***************************************************************************)
(* Theorems about Debts, for every set of members, every set of integer    *)
(* balances and every number of units in a cent.                           *)
(*                                                                         *)
(* The inductive invariant says, besides the types, what the two indices   *)
(* mean: whoever is listed at or after an index still owes (is owed) at    *)
(* least a cent, and whoever owes (is owed) more than a cent is listed at  *)
(* or after it.  For the pairs it adds at which indices each payment was   *)
(* made.                                                                   *)
(***************************************************************************)
EXTENDS Debts, FiniteSetTheorems, TLAPS

Distinct(s) == \A p, q \in 1..Len(s) : p # q => s[p] # s[q]

Lists ==
  /\ Distinct(debtors)
  /\ Distinct(creditors)
  /\ \A p \in 1..Len(debtors), q \in 1..Len(creditors) : debtors[p] # creditors[q]

Signs ==
  /\ \A p \in 1..Len(debtors) : left[debtors[p]] <= 0
  /\ \A q \in 1..Len(creditors) : left[creditors[q]] >= 0

Ahead ==
  /\ \A p \in i..Len(debtors) : left[debtors[p]] <= -Cent
  /\ \A q \in j..Len(creditors) : left[creditors[q]] >= Cent

Pending ==
  pc # "partition" => \A m \in Members :
    /\ left[m] < -Cent => \E p \in i..Len(debtors) : debtors[p] = m
    /\ left[m] > Cent => \E q \in j..Len(creditors) : creditors[q] = m

Counted ==
  /\ Len(debts) <= (i - 1) + (j - 1)
  /\ FewPayments

Stage ==
  /\ pc = "partition" => debtors = <<>> /\ creditors = <<>> /\ debts = <<>> /\ i = 1 /\ j = 1
  /\ pc = "done" => i > Len(debtors) \/ j > Len(creditors)

IInv == TypeOK /\ Lists /\ Signs /\ Ahead /\ Pending /\ Counted /\ NoEmptyPayment /\ Stage

-----------------------------------------------------------------------------
(* What sort returns *)

(* A sorted list of S, which Orders takes from the bijections, lists every    *)
(* element of S once.                                                        *)
LEMMA BijectionLists ==
  ASSUME NEW S, S \subseteq Members, NEW s \in Bijection(1..Cardinality(S), S)
  PROVE  /\ s \in Seq(Members)
         /\ Distinct(s)
         /\ \A p \in 1..Len(s) : s[p] \in S
         /\ \A m \in S : \E p \in 1..Len(s) : s[p] = m
PROOF
<1>1. IsFiniteSet(S)
  BY FS_Subset, MembersAssumption
<1>2. Cardinality(S) \in Nat
  BY <1>1, FS_CardinalityType
<1>3. /\ s \in [1..Cardinality(S) -> S]
      /\ \A p, q \in 1..Cardinality(S) : s[p] = s[q] => p = q
      /\ \A m \in S : \E p \in 1..Cardinality(S) : s[p] = m
  BY DEF Bijection, Injection, Surjection, IsInjective
<1>4. s \in Seq(Members) /\ Len(s) = Cardinality(S)
  BY <1>2, <1>3
<1>5. QED
  BY <1>3, <1>4 DEF Distinct

(* The debtors listed are those who owe more than a cent, and maybe some who  *)
(* owe exactly one.                                                          *)
LEMMA DebtorsList ==
  ASSUME TypeOK, NEW s \in OrdersOfDebtors
  PROVE  /\ s \in Seq(Members)
         /\ Distinct(s)
         /\ \A p \in 1..Len(s) : left[s[p]] <= -Cent
         /\ \A m \in Members : left[m] < -Cent => \E p \in 1..Len(s) : s[p] = m
PROOF
<1> DEFINE Sure == {m \in Members : left[m] < -Cent}
           Possible == {m \in Members : left[m] <= -Cent}
<1>1. PICK S \in Between(Sure, Possible) :
       s \in Bijection(1..Cardinality(S), S)
  BY DEF OrdersOfDebtors, Orders
<1>2. Sure \subseteq S /\ S \subseteq Possible
  BY CentAssumption DEF Between, TypeOK
<1>3. S \subseteq Members
  BY <1>2
<1>4. QED
  <2>1. /\ s \in Seq(Members)
        /\ Distinct(s)
        /\ \A p \in 1..Len(s) : s[p] \in S
        /\ \A m \in S : \E p \in 1..Len(s) : s[p] = m
    BY <1>1, <1>3, BijectionLists
  <2>2. QED
    BY <1>2, <2>1

(* The creditors listed are those who are owed more than a cent, and maybe    *)
(* some who are owed exactly one.                                            *)
LEMMA CreditorsList ==
  ASSUME TypeOK, NEW s \in OrdersOfCreditors
  PROVE  /\ s \in Seq(Members)
         /\ Distinct(s)
         /\ \A p \in 1..Len(s) : left[s[p]] >= Cent
         /\ \A m \in Members : left[m] > Cent => \E p \in 1..Len(s) : s[p] = m
PROOF
<1> DEFINE Sure == {m \in Members : left[m] > Cent}
           Possible == {m \in Members : left[m] >= Cent}
<1>1. PICK S \in Between(Sure, Possible) :
       s \in Bijection(1..Cardinality(S), S)
  BY DEF OrdersOfCreditors, Orders
<1>2. Sure \subseteq S /\ S \subseteq Possible
  BY CentAssumption DEF Between, TypeOK
<1>3. S \subseteq Members
  BY <1>2
<1>4. QED
  <2>1. /\ s \in Seq(Members)
        /\ Distinct(s)
        /\ \A p \in 1..Len(s) : s[p] \in S
        /\ \A m \in S : \E p \in 1..Len(s) : s[p] = m
    BY <1>1, <1>3, BijectionLists
  <2>2. QED
    BY <1>2, <2>1

-----------------------------------------------------------------------------
(* One iteration of the loop *)

(* The published amount of a payment of at least a cent is at least a cent. *)
LEMMA CentsBound ==
  ASSUME NEW a \in Nat, a >= Cent, NEW n \in Cents(a)
  PROVE  n \in Int /\ n >= Cent
PROOF
<1>1. PICK c \in {a \div Cent, a \div Cent + 1} : n = c * Cent
  BY DEF Cents
<1>2. a \div Cent \in Nat /\ a = Cent * (a \div Cent) + (a % Cent) /\ a % Cent \in 0..(Cent - 1)
  BY CentAssumption
<1>3. a \div Cent >= 1
  <2>1. a \div Cent # 0
    <3>1. SUFFICES ASSUME a \div Cent = 0 PROVE FALSE
      OBVIOUS
    <3>2. Cent * (a \div Cent) = 0
      BY <3>1, CentAssumption
    <3>3. QED
      BY <1>2, <3>2, CentAssumption
  <2>2. QED
    BY <1>2, <2>1
<1>4. c \in Nat /\ c >= 1
  BY <1>1, <1>2, <1>3
<1>5. PICK k \in Nat : c = k + 1
  BY <1>4
<1>6. c * Cent = k * Cent + Cent /\ k * Cent >= 0
  BY <1>5, CentAssumption
<1>7. QED
  BY <1>1, <1>4, <1>6, CentAssumption

(* The payment of an iteration, and what is left of its debtor and creditor:  *)
(* one of them is even, and an index moves on just when its member is (nearly) *)
(* even.                                                                     *)
LEMMA Iteration ==
  ASSUME IInv, Settle
  PROVE  /\ pc = "settle"
         /\ i \in 1..Len(debtors) /\ j \in 1..Len(creditors)
         /\ debtors[i] \in Members /\ creditors[j] \in Members /\ debtors[i] # creditors[j]
         /\ Payment(debtors[i], creditors[j]) \in Int
         /\ Payment(debtors[i], creditors[j]) >= Cent
         /\ left' = [left EXCEPT ![debtors[i]] = @ + Payment(debtors[i], creditors[j]),
                                ![creditors[j]] = @ - Payment(debtors[i], creditors[j])]
         /\ left'[debtors[i]] = left[debtors[i]] + Payment(debtors[i], creditors[j])
         /\ left'[creditors[j]] = left[creditors[j]] - Payment(debtors[i], creditors[j])
         /\ \A m \in Members \ {debtors[i], creditors[j]} : left'[m] = left[m]
         /\ left'[debtors[i]] <= 0 /\ left'[creditors[j]] >= 0
         /\ \/ i' = i + 1 /\ left'[debtors[i]] >= -Cent
            \/ i' = i /\ left'[debtors[i]] <= -Cent
         /\ \/ j' = j + 1 /\ left'[creditors[j]] <= Cent
            \/ j' = j /\ left'[creditors[j]] >= Cent
         /\ i' = i + 1 \/ j' = j + 1
PROOF
<1> DEFINE d == debtors[i]
           c == creditors[j]
           a == Payment(d, c)
<1>1. i \in 1..Len(debtors) /\ j \in 1..Len(creditors) /\ pc = "settle"
  BY DEF IInv, TypeOK, Settle
<1>2. d \in Members /\ c \in Members /\ left \in [Members -> Int]
  BY <1>1 DEF IInv, TypeOK
<1>3. d # c
  BY <1>1 DEF IInv, Lists
<1>4. left[d] <= -Cent /\ left[c] >= Cent
  <2>1. i \in i..Len(debtors) /\ j \in j..Len(creditors)
    BY <1>1
  <2>2. QED
    BY <2>1 DEF IInv, Ahead
<1>5. a \in Int /\ a >= Cent /\ a <= -left[d] /\ a <= left[c] /\ (a = -left[d] \/ a = left[c])
  BY <1>2, <1>4, CentAssumption DEF Payment, Lower, Abs
<1>6. left' = [left EXCEPT ![d] = @ + a, ![c] = @ - a]
  BY DEF Settle
<1>7. /\ left'[d] = left[d] + a /\ left'[c] = left[c] - a
      /\ \A m \in Members \ {d, c} : left'[m] = left[m]
  BY <1>2, <1>3, <1>6
<1>8. i' \in Advance(i, Abs(left[d] + a)) /\ j' \in Advance(j, left[c] - a)
  BY DEF Settle
<1>9. Abs(left[d] + a) = -left'[d] /\ left'[d] <= 0 /\ left'[c] >= 0
  BY <1>2, <1>5, <1>7 DEF Abs
<1>10. \/ i' = i + 1 /\ left'[d] >= -Cent
       \/ i' = i /\ left'[d] <= -Cent
  BY <1>2, <1>5, <1>7, <1>8, <1>9, CentAssumption DEF Advance
<1>11. \/ j' = j + 1 /\ left'[c] <= Cent
       \/ j' = j /\ left'[c] >= Cent
  BY <1>2, <1>5, <1>7, <1>8, CentAssumption DEF Advance
<1>12. left'[d] = 0 \/ left'[c] = 0
  BY <1>2, <1>5, <1>7
<1>13. i' = i + 1 \/ j' = j + 1
  BY <1>10, <1>11, <1>12, CentAssumption
<1>14. QED
  BY <1>1, <1>2, <1>3, <1>5, <1>6, <1>7, <1>9, <1>10, <1>11, <1>13

-----------------------------------------------------------------------------
(* The invariant *)

LEMMA InitIInv == Init => IInv
PROOF
<1>1. SUFFICES ASSUME Init PROVE IInv
  OBVIOUS
<1> USE <1>1 DEF Init
<1>2. TypeOK
  <2>1. left \in [Members -> Int]
    BY BalancesAssumption
  <2>2. debtors \in Seq(Members) /\ creditors \in Seq(Members) /\ debts \in Seq(Payments)
    OBVIOUS
  <2>3. QED
    BY <2>1, <2>2 DEF TypeOK
<1>3. Len(debtors) = 0 /\ Len(creditors) = 0 /\ Len(debts) = 0 /\ DOMAIN debts = {}
  OBVIOUS
<1>4. Lists /\ Signs /\ Ahead /\ Pending /\ Stage
  BY <1>3 DEF Lists, Distinct, Signs, Ahead, Pending, Stage
<1>5. Counted /\ NoEmptyPayment
  BY <1>3 DEF Counted, FewPayments, NoEmptyPayment
<1>6. QED
  BY <1>2, <1>4, <1>5 DEF IInv

LEMMA PartitionIInv == IInv /\ Partition => IInv'
PROOF
<1>1. SUFFICES ASSUME IInv, Partition PROVE IInv'
  OBVIOUS
<1>2. /\ debtors' \in OrdersOfDebtors /\ creditors' \in OrdersOfCreditors
      /\ left' = left /\ debts' = <<>> /\ i' = 1 /\ j' = 1 /\ pc' = "settle"
  BY <1>1 DEF IInv, Stage, Partition
<1>3. /\ debtors' \in Seq(Members) /\ Distinct(debtors')
      /\ \A p \in 1..Len(debtors') : left[debtors'[p]] <= -Cent
      /\ \A m \in Members : left[m] < -Cent => \E p \in 1..Len(debtors') : debtors'[p] = m
  BY <1>1, <1>2, DebtorsList DEF IInv
<1>4. /\ creditors' \in Seq(Members) /\ Distinct(creditors')
      /\ \A q \in 1..Len(creditors') : left[creditors'[q]] >= Cent
      /\ \A m \in Members : left[m] > Cent => \E q \in 1..Len(creditors') : creditors'[q] = m
  BY <1>1, <1>2, CreditorsList DEF IInv
<1>5. left \in [Members -> Int]
  BY <1>1 DEF IInv, TypeOK
<1>6. TypeOK'
  BY <1>2, <1>3, <1>4, <1>5 DEF TypeOK
<1>7. Lists'
  <2>1. \A p \in 1..Len(debtors'), q \in 1..Len(creditors') : debtors'[p] # creditors'[q]
    <3>1. SUFFICES ASSUME NEW p \in 1..Len(debtors'), NEW q \in 1..Len(creditors'),
                          debtors'[p] = creditors'[q]
                   PROVE  FALSE
      OBVIOUS
    <3>2. left[debtors'[p]] <= -Cent /\ left[debtors'[p]] >= Cent
      BY <1>3, <1>4, <3>1
    <3>3. debtors'[p] \in Members
      BY <1>3
    <3>4. QED
      BY <1>5, <3>2, <3>3, CentAssumption
  <2>2. QED
    BY <1>3, <1>4, <2>1 DEF Lists, Distinct
<1>8. Signs'
  <2>1. ASSUME NEW p \in 1..Len(debtors') PROVE left[debtors'[p]] <= 0
    <3>1. debtors'[p] \in Members
      BY <1>3
    <3>2. QED
      BY <1>3, <1>5, <3>1, CentAssumption
  <2>2. ASSUME NEW q \in 1..Len(creditors') PROVE left[creditors'[q]] >= 0
    <3>1. creditors'[q] \in Members
      BY <1>4
    <3>2. QED
      BY <1>4, <1>5, <3>1, CentAssumption
  <2>3. QED
    BY <1>2, <2>1, <2>2 DEF Signs
<1>9. Ahead' /\ Pending' /\ Stage'
  BY <1>2, <1>3, <1>4 DEF Ahead, Pending, Stage
<1>10. Counted' /\ NoEmptyPayment'
  BY <1>2 DEF Counted, FewPayments, NoEmptyPayment
<1>11. QED
  BY <1>6, <1>7, <1>8, <1>9, <1>10 DEF IInv

LEMMA SettleIInv == IInv /\ Settle => IInv'
PROOF
<1>1. SUFFICES ASSUME IInv, Settle PROVE IInv'
  OBVIOUS
<1> DEFINE d == debtors[i]
           c == creditors[j]
           a == Payment(d, c)
<1>2. /\ pc' = pc /\ pc = "settle" /\ debtors' = debtors /\ creditors' = creditors
      /\ i \in 1..Len(debtors) /\ j \in 1..Len(creditors)
      /\ d \in Members /\ c \in Members /\ d # c
  BY <1>1, Iteration DEF Settle
<1>3. /\ debtors \in Seq(Members) /\ creditors \in Seq(Members)
      /\ left \in [Members -> Int] /\ debts \in Seq(Payments)
  BY <1>1 DEF IInv, TypeOK
<1>4. PICK n \in Cents(a) : debts' = Append(debts, [from |-> d, to |-> c, amount |-> n])
  BY <1>1 DEF Settle
<1>5. n \in Int /\ n >= Cent
  BY <1>1, <1>4, Iteration, CentsBound, CentAssumption
<1>6. [from |-> d, to |-> c, amount |-> n] \in Payments
  BY <1>2, <1>5 DEF Payments
<1>7. left' \in [Members -> Int]
  <2>1. a \in Int /\ left' = [left EXCEPT ![d] = @ + a, ![c] = @ - a]
    BY <1>1, Iteration
  <2>2. QED
    BY <1>2, <1>3, <2>1
<1>8. /\ i' = i \/ i' = i + 1
      /\ j' = j \/ j' = j + 1
      /\ i' = i + 1 \/ j' = j + 1
  BY <1>1, Iteration
<1>9. TypeOK'
  <2>1. debts' \in Seq(Payments)
    BY <1>3, <1>4, <1>6
  <2>2. Len(debtors) \in Nat /\ Len(creditors) \in Nat
    BY <1>3
  <2>3. i \in 1..Len(debtors) /\ j \in 1..Len(creditors)
    BY <1>2
  <2>4. i' \in 1..(Len(debtors) + 1)
    BY <1>8, <2>2, <2>3
  <2>5. j' \in 1..(Len(creditors) + 1)
    BY <1>8, <2>2, <2>3
  <2>6. QED
    BY <1>2, <1>3, <1>7, <2>1, <2>4, <2>5 DEF TypeOK
<1>10. Lists'
  BY <1>1, <1>2 DEF IInv, Lists, Distinct
<1>11. Signs'
  <2>1. ASSUME NEW p \in 1..Len(debtors) PROVE left'[debtors[p]] <= 0
    <3>1. debtors[p] \in Members /\ debtors[p] # c /\ left[debtors[p]] <= 0
      BY <1>1, <1>2, <1>3 DEF IInv, Lists, Signs
    <3>2. QED
      BY <1>1, <3>1, Iteration
  <2>2. ASSUME NEW q \in 1..Len(creditors) PROVE left'[creditors[q]] >= 0
    <3>1. creditors[q] \in Members /\ creditors[q] # d /\ left[creditors[q]] >= 0
      BY <1>1, <1>2, <1>3 DEF IInv, Lists, Signs
    <3>2. QED
      BY <1>1, <3>1, Iteration
  <2>3. QED
    BY <1>2, <2>1, <2>2 DEF Signs
<1>12. Ahead'
  <2>1. ASSUME NEW p \in i'..Len(debtors) PROVE left'[debtors[p]] <= -Cent
    <3>1. p \in i..Len(debtors) /\ p \in 1..Len(debtors)
      BY <1>2, <1>8
    <3>2. debtors[p] \in Members /\ debtors[p] # c /\ left[debtors[p]] <= -Cent
      BY <1>1, <1>2, <1>3, <3>1 DEF IInv, Lists, Ahead
    <3>3. CASE p = i
      BY <1>1, <1>2, <3>3, Iteration
    <3>4. CASE p # i
      <4>1. debtors[p] # d
        BY <1>1, <1>2, <3>1, <3>4 DEF IInv, Lists, Distinct
      <4>2. QED
        BY <1>1, <3>2, <4>1, Iteration
    <3>5. QED
      BY <3>3, <3>4
  <2>2. ASSUME NEW q \in j'..Len(creditors) PROVE left'[creditors[q]] >= Cent
    <3>1. q \in j..Len(creditors) /\ q \in 1..Len(creditors)
      BY <1>2, <1>8
    <3>2. creditors[q] \in Members /\ creditors[q] # d /\ left[creditors[q]] >= Cent
      BY <1>1, <1>2, <1>3, <3>1 DEF IInv, Lists, Ahead
    <3>3. CASE q = j
      BY <1>1, <1>2, <3>3, Iteration
    <3>4. CASE q # j
      <4>1. creditors[q] # c
        BY <1>1, <1>2, <3>1, <3>4 DEF IInv, Lists, Distinct
      <4>2. QED
        BY <1>1, <3>2, <4>1, Iteration
    <3>5. QED
      BY <3>3, <3>4
  <2>3. QED
    BY <1>2, <2>1, <2>2 DEF Ahead
<1>13. Pending'
  <2>1. SUFFICES ASSUME NEW m \in Members
                 PROVE  /\ left'[m] < -Cent => \E p \in i'..Len(debtors) : debtors[p] = m
                        /\ left'[m] > Cent => \E q \in j'..Len(creditors) : creditors[q] = m
    BY <1>2 DEF Pending
  <2>2. /\ left[m] < -Cent => \E p \in i..Len(debtors) : debtors[p] = m
        /\ left[m] > Cent => \E q \in j..Len(creditors) : creditors[q] = m
    BY <1>1, <1>2 DEF IInv, Pending
  <2>3. left'[m] \in Int /\ Cent \in Int /\ Cent > 0
    BY <1>7, CentAssumption
  <2>4. CASE m = d
    <3>1. left'[d] <= 0 /\ (i' = i \/ left'[d] >= -Cent)
      BY <1>1, Iteration
    <3>2. QED
      BY <1>2, <2>3, <2>4, <3>1
  <2>5. CASE m = c
    <3>1. left'[c] >= 0 /\ (j' = j \/ left'[c] <= Cent)
      BY <1>1, Iteration
    <3>2. QED
      BY <1>2, <2>3, <2>5, <3>1
  <2>6. CASE m # d /\ m # c
    <3>1. left'[m] = left[m]
      BY <1>1, <2>6, Iteration
    <3>2. QED
      BY <1>2, <1>8, <2>2, <2>6, <3>1
  <2>7. QED
    BY <2>4, <2>5, <2>6
<1>14. Len(debts') = Len(debts) + 1 /\ Len(debts) \in Nat
  BY <1>3, <1>4
<1>15. Counted'
  <2>1. Len(debts) <= (i - 1) + (j - 1)
    BY <1>1 DEF IInv, Counted
  <2>2. Len(debtors) \in Nat /\ Len(creditors) \in Nat /\ i \in Int /\ j \in Int
    BY <1>2, <1>3
  <2>3. Len(debts') <= (i' - 1) + (j' - 1)
    BY <1>8, <1>14, <2>1, <2>2
  <2>4. Len(debts') < Len(debtors) + Len(creditors)
    BY <1>2, <1>14, <2>1, <2>2
  <2>5. QED
    BY <1>2, <2>3, <2>4 DEF Counted, FewPayments
<1>16. NoEmptyPayment'
  <2>1. \A k \in DOMAIN debts : debts[k].amount >= Cent
    BY <1>1 DEF IInv, NoEmptyPayment
  <2>2. ASSUME NEW k \in 1..(Len(debts) + 1) PROVE debts'[k].amount >= Cent
    <3>1. CASE k = Len(debts) + 1
      <4>1. debts'[k] = [from |-> d, to |-> c, amount |-> n]
        BY <1>3, <1>4, <3>1
      <4>2. QED
        BY <1>5, <4>1
    <3>2. CASE k # Len(debts) + 1
      <4>1. k \in DOMAIN debts /\ debts'[k] = debts[k]
        BY <1>3, <1>4, <1>14, <3>2
      <4>2. QED
        BY <2>1, <4>1
    <3>3. QED
      BY <3>1, <3>2
  <2>3. DOMAIN debts' = 1..(Len(debts) + 1)
    BY <1>3, <1>4
  <2>4. QED
    BY <2>2, <2>3 DEF NoEmptyPayment
<1>17. Stage'
  BY <1>2 DEF Stage
<1>18. QED
  BY <1>9, <1>10, <1>11, <1>12, <1>13, <1>15, <1>16, <1>17 DEF IInv

LEMMA NextIInv == IInv /\ [Next]_vars => IInv'
PROOF
<1>1. SUFFICES ASSUME IInv, [Next]_vars PROVE IInv'
  OBVIOUS
<1>2. CASE Partition
  BY <1>1, <1>2, PartitionIInv
<1>3. CASE Settle
  BY <1>1, <1>3, SettleIInv
<1>4. CASE Finish
  BY <1>1, <1>4 DEF IInv, Finish, Exhausted, TypeOK, Lists, Distinct, Signs, Ahead, Pending,
                    Counted, FewPayments, NoEmptyPayment, Stage
<1>5. CASE UNCHANGED vars
  BY <1>1, <1>5 DEF IInv, vars, TypeOK, Lists, Distinct, Signs, Ahead, Pending,
                    Counted, FewPayments, NoEmptyPayment, Stage
<1>6. QED
  BY <1>1, <1>2, <1>3, <1>4, <1>5 DEF Next, Done

-----------------------------------------------------------------------------
(* Theorems *)

(* The invariant holds in every reachable state. *)
THEOREM Invariance == Spec => []IInv
PROOF
<1>1. QED
  BY InitIInv, NextIInv, PTL DEF Spec

(* The locals of getDebts keep their types, whatever the balances. *)
THEOREM TypeCorrect == Spec => []TypeOK
PROOF
<1>1. IInv => TypeOK
  BY DEF IInv
<1>2. QED
  BY <1>1, Invariance, PTL

(* getDebts suggests fewer payments than there are debtors and creditors, in  *)
(* a group of any size.                                                      *)
THEOREM PaymentsAreFew == Spec => []FewPayments
PROOF
<1>1. IInv => FewPayments
  BY DEF IInv, Counted
<1>2. QED
  BY <1>1, Invariance, PTL

(* getDebts never suggests a payment of less than a cent. *)
THEOREM PaymentsAreNotEmpty == Spec => []NoEmptyPayment
PROOF
<1>1. IInv => NoEmptyPayment
  BY DEF IInv
<1>2. QED
  BY <1>1, Invariance, PTL

(* When getDebts returns, nobody owes, or nobody is owed, more than a cent.   *)
THEOREM SettlesOneSide == Spec => []OneSideIsSettled
PROOF
<1>1. IInv => OneSideIsSettled
  <2>1. SUFFICES ASSUME IInv, pc = "done" PROVE OneSideIsSettled
    BY DEF OneSideIsSettled
  <2>2. left \in [Members -> Int] /\ i \in Int /\ j \in Int
        /\ Len(debtors) \in Nat /\ Len(creditors) \in Nat
    BY <2>1 DEF IInv, TypeOK
  <2>3. CASE i > Len(debtors)
    <3>1. \A m \in Members : ~(left[m] < -Cent)
      BY <2>1, <2>2, <2>3 DEF IInv, Pending
    <3>2. QED
      BY <2>2, <3>1, CentAssumption DEF OneSideIsSettled
  <2>4. CASE j > Len(creditors)
    <3>1. \A m \in Members : ~(left[m] > Cent)
      BY <2>1, <2>2, <2>4 DEF IInv, Pending
    <3>2. QED
      BY <2>2, <3>1, CentAssumption DEF OneSideIsSettled
  <2>5. QED
    BY <2>1, <2>3, <2>4 DEF IInv, Stage
<1>2. QED
  BY <1>1, Invariance, PTL

(* getDebts implements DebtTransfer: every iteration is a payment from one    *)
(* who owes to one who is owed, within what both have left.                  *)
THEOREM Refinement == Spec => ImplementsPromise
PROOF
<1>1. Init => Promise!Init
  BY DEF Init, Promise!Init
<1>2. IInv /\ [Next]_vars => [Promise!Next]_left
  <2>1. SUFFICES ASSUME IInv, Next PROVE Promise!Next \/ UNCHANGED left
    BY DEF vars
  <2>2. CASE Settle
    <3> DEFINE d == debtors[i]
               c == creditors[j]
               a == Payment(d, c)
    <3>1. d \in Members /\ c \in Members /\ a \in Int /\ a >= Cent
      BY <2>1, <2>2, Iteration
    <3>2. left' = [left EXCEPT ![d] = @ + a, ![c] = @ - a]
      BY <2>1, <2>2, Iteration
    <3>3. left[d] + a <= 0 /\ left[c] - a >= 0
      BY <2>1, <2>2, Iteration
    <3>4. left[d] \in Int
      BY <2>1, <3>1 DEF IInv, TypeOK
    <3>5. a \in 1..(-left[d])
      BY <3>1, <3>3, <3>4, CentAssumption
    <3>6. Promise!Transfer(d, c, a)
      BY <3>2, <3>3 DEF Promise!Transfer
    <3>7. QED
      BY <3>1, <3>5, <3>6 DEF Promise!Next
  <2>3. CASE Partition \/ Finish \/ Done
    BY <2>3 DEF Partition, Finish, Done, vars
  <2>4. QED
    BY <2>1, <2>2, <2>3 DEF Next
<1>3. QED
  BY <1>1, <1>2, Invariance, PTL DEF Spec, Promise!Spec, ImplementsPromise

-----------------------------------------------------------------------------
(* Who pays whom *)

(* Payment k was made at indices p and q, which the loop has left since.      *)
MadeAt(k, p, q) ==
  /\ debts[k].from = debtors[p] /\ debts[k].to = creditors[q]
  /\ p <= i /\ q <= j /\ (p < i \/ q < j)

Matched ==
  \A k \in 1..Len(debts) : \E p \in 1..Len(debtors), q \in 1..Len(creditors) : MadeAt(k, p, q)

PInv == IInv /\ Matched /\ PairsAreDistinct

(* The next payment is between another pair: the lists hold nobody twice and  *)
(* one of the two indices has moved since each earlier payment.               *)
LEMMA SettlePInv == PInv /\ Settle => Matched' /\ PairsAreDistinct'
PROOF
<1>1. SUFFICES ASSUME PInv, Settle PROVE Matched' /\ PairsAreDistinct'
  OBVIOUS
<1> DEFINE d == debtors[i]
           c == creditors[j]
<1>2. /\ debtors' = debtors /\ creditors' = creditors
      /\ i \in 1..Len(debtors) /\ j \in 1..Len(creditors)
      /\ i' = i \/ i' = i + 1
      /\ j' = j \/ j' = j + 1
      /\ i' = i + 1 \/ j' = j + 1
  BY <1>1, Iteration DEF PInv, Settle
<1>3. /\ debts \in Seq(Payments) /\ Len(debts) \in Nat /\ Len(debtors) \in Nat /\ Len(creditors) \in Nat
      /\ i \in Int /\ j \in Int
  BY <1>1, <1>2 DEF PInv, IInv, TypeOK
<1>4. PICK n \in Cents(Payment(d, c)) : debts' = Append(debts, [from |-> d, to |-> c, amount |-> n])
  BY <1>1 DEF Settle
<1>5. /\ Len(debts') = Len(debts) + 1 /\ DOMAIN debts' = 1..(Len(debts) + 1) /\ DOMAIN debts = 1..Len(debts)
      /\ \A k \in 1..Len(debts) : debts'[k] = debts[k]
      /\ debts'[Len(debts) + 1].from = d /\ debts'[Len(debts) + 1].to = c
  BY <1>3, <1>4
<1>6. Matched'
  <2>1. SUFFICES ASSUME NEW k \in 1..(Len(debts) + 1)
                 PROVE \E p \in 1..Len(debtors), q \in 1..Len(creditors) :
                         /\ debts'[k].from = debtors[p] /\ debts'[k].to = creditors[q]
                         /\ p <= i' /\ q <= j' /\ (p < i' \/ q < j')
    BY <1>2, <1>5 DEF Matched, MadeAt
  <2>2. CASE k = Len(debts) + 1
    <3>1. debts'[k].from = debtors[i] /\ debts'[k].to = creditors[j]
      BY <1>5, <2>2
    <3>2. i <= i' /\ j <= j' /\ (i < i' \/ j < j')
      BY <1>2, <1>3
    <3>3. QED
      BY <1>2, <3>1, <3>2
  <2>3. CASE k # Len(debts) + 1
    <3>1. k \in 1..Len(debts) /\ debts'[k] = debts[k]
      BY <1>3, <1>5, <2>3
    <3>2. PICK p \in 1..Len(debtors), q \in 1..Len(creditors) : MadeAt(k, p, q)
      BY <1>1, <3>1 DEF PInv, Matched
    <3>3. p <= i' /\ q <= j' /\ (p < i' \/ q < j')
      BY <1>2, <1>3, <3>2 DEF MadeAt
    <3>4. QED
      BY <3>1, <3>2, <3>3 DEF MadeAt
  <2>4. QED
    BY <2>2, <2>3
<1>7. ASSUME NEW k \in 1..Len(debts) PROVE debts[k].from # d \/ debts[k].to # c
  <2>1. PICK p \in 1..Len(debtors), q \in 1..Len(creditors) : MadeAt(k, p, q)
    BY <1>1, <1>7 DEF PInv, Matched
  <2>2. p # i \/ q # j
    BY <1>3, <2>1 DEF MadeAt
  <2>3. QED
    BY <1>1, <1>2, <2>1, <2>2 DEF PInv, IInv, Lists, Distinct, MadeAt
<1>8. PairsAreDistinct'
  <2>1. SUFFICES ASSUME NEW k \in 1..(Len(debts) + 1), NEW l \in 1..(Len(debts) + 1), k # l
                 PROVE debts'[k].from # debts'[l].from \/ debts'[k].to # debts'[l].to
    BY <1>5 DEF PairsAreDistinct
  <2>2. CASE k = Len(debts) + 1
    <3>1. l \in 1..Len(debts)
      BY <1>3, <2>1, <2>2
    <3>2. QED
      BY <1>5, <1>7, <2>2, <3>1
  <2>3. CASE l = Len(debts) + 1
    <3>1. k \in 1..Len(debts)
      BY <1>3, <2>1, <2>3
    <3>2. QED
      BY <1>5, <1>7, <2>3, <3>1
  <2>4. CASE k # Len(debts) + 1 /\ l # Len(debts) + 1
    <3>1. k \in 1..Len(debts) /\ l \in 1..Len(debts)
      BY <1>3, <2>4
    <3>2. QED
      BY <1>1, <1>5, <2>1, <3>1 DEF PInv, PairsAreDistinct
  <2>5. QED
    BY <2>2, <2>3, <2>4
<1>9. QED
  BY <1>6, <1>8

(* No debtor is told to pay the same creditor twice, however the amounts and  *)
(* the roundings fall.                                                        *)
THEOREM PairsDiffer == Spec => []PairsAreDistinct
PROOF
<1>1. Init => PInv
  <2>1. SUFFICES ASSUME Init PROVE Matched /\ PairsAreDistinct
    BY InitIInv DEF PInv
  <2>2. Len(debts) = 0 /\ DOMAIN debts = {}
    BY <2>1 DEF Init
  <2>3. QED
    BY <2>2 DEF Matched, PairsAreDistinct
<1>2. PInv /\ [Next]_vars => PInv'
  <2>1. SUFFICES ASSUME PInv, [Next]_vars PROVE Matched' /\ PairsAreDistinct'
    BY NextIInv DEF PInv
  <2>2. CASE Partition
    <3>1. debts' = <<>>
      BY <2>1, <2>2 DEF Partition, PInv, IInv, Stage
    <3>2. Len(debts') = 0 /\ DOMAIN debts' = {}
      BY <3>1
    <3>3. QED
      BY <3>2 DEF Matched, PairsAreDistinct
  <2>3. CASE Settle
    BY <2>1, <2>3, SettlePInv
  <2>4. CASE Finish \/ Done \/ UNCHANGED vars
    <3>1. UNCHANGED <<debts, debtors, creditors, i, j>>
      BY <2>4 DEF Finish, Done, vars
    <3>2. Matched'
      BY <2>1, <3>1 DEF PInv, Matched, MadeAt
    <3>3. PairsAreDistinct'
      BY <2>1, <3>1 DEF PInv, PairsAreDistinct
    <3>4. QED
      BY <3>2, <3>3
  <2>5. QED
    BY <2>1, <2>2, <2>3, <2>4 DEF Next
<1>3. PInv => PairsAreDistinct
  BY DEF PInv
<1>4. QED
  BY <1>1, <1>2, <1>3, PTL DEF Spec
=============================================================================
