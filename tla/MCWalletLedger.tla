--------------------------- MODULE MCWalletLedger ---------------------------
(* WalletLedger with the constants of its model-checking runs.             *)
EXTENDS WalletLedger, TLC

CONSTANTS w1, w2, food, pay

AllKinds      == ReqKinds
RowKinds      == {"createTx", "updateTx", "removeTx", "removeWallet", "removeCategory"}
RemoveKinds   == {"createTx", "removeTx"}

BothTypes == food :> Expense @@ pay :> Income
OneType   == food :> Expense

EitherSign == {1, -2}
=============================================================================
