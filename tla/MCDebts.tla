------------------------------ MODULE MCDebts -------------------------------
(* Debts with the constants of its model-checking run.                      *)
EXTENDS Debts

CONSTANTS ann, bob, cat, dan

(* With two units in a cent: both sides of 0.01 and halves of a cent, and      *)
(* amounts far enough apart that a debt is split over two creditors.         *)
HalfCents == {-7, -4, -3, -2, -1, 0, 1, 2, 3, 5, 6}
=============================================================================
