SPECIFICATION Spec
CONSTANTS
  ann = ann
  bob = bob
  cat = cat
  dan = dan
  Members = {ann, bob, cat, dan}
  Balances <- HalfCents
  Cent = 2
INVARIANTS TypeOK FewPayments NoEmptyPayment OneSideIsSettled PairsAreDistinct
PROPERTIES ImplementsPromise Returns
