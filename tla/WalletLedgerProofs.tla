------------------------- MODULE WalletLedgerProofs -------------------------
(***************************************************************************)
(* Proofs about WalletLedger: the shape of its variables, the silence of   *)
(* refused requests, the revival of deleted rows, the signs of amounts and *)
(* the balances of wallets, for every set of wallets, categories and       *)
(* amounts and any number of requests.                                     *)
(*                                                                         *)
(* TypeOK is not inductive: that a balance statement names a wallet rests  *)
(* on the way the request came there.  MayBeAt says which requests reach   *)
(* which statement, and with what they loaded before it.  Silence adds     *)
(* that a request before its first write has left no trace.  Books says    *)
(* how far each balance is from the rows in the middle of the requests.    *)
(***************************************************************************)
EXTENDS WalletLedger, Sums

WalletKinds   == {"createWallet", "updateWallet", "removeWallet"}
CategoryKinds == {"createCategory", "updateCategory", "removeCategory"}

(* A request names the row its route is about. *)
Shaped(q) ==
  /\ q.kind \in {"updateTx", "removeTx"} => q.tx \in TxIds
  /\ q.kind \in WalletKinds => q.wallet \in Wallets
  /\ q.kind \in CategoryKinds => q.category \in Categories

(* Request q, which has loaded transaction o if it loads one, can be at s. *)
MayBeAt(q, o, s) ==
  /\ s = "idle" => q.kind = "none"
  /\ s = "findTx" => q.kind \in {"updateTx", "removeTx"}
  /\ s = "findCategory" =>
       /\ q.kind \in {"createTx", "updateTx", "updateCategory", "removeCategory"}
       /\ q.category \in Categories
  /\ s = "findWallet" =>
       /\ q.kind \in {"createTx", "updateTx", "updateWallet", "removeWallet"}
       /\ q.wallet \in Wallets
       /\ q.kind = "updateTx" => o.wallet \in Wallets
  /\ s \in {"group", "insertTx"} => q.kind = "createTx"
  /\ s \in {"readBalance", "writeBalance"} =>
       \/ q.kind = "createTx" /\ q.wallet \in Wallets
       \/ q.kind \in {"updateTx", "removeTx"} /\ o.wallet \in Wallets
  /\ s = "saveTx" => q.kind = "updateTx"
  /\ s = "softRemoveTx" => q.kind = "removeTx"
  /\ s = "insertWallet" => q.kind = "createWallet"
  /\ s = "saveWallet" => q.kind = "updateWallet"
  /\ s = "deleteWallet" => q.kind = "removeWallet"
  /\ s = "insertCategory" => q.kind = "createCategory"
  /\ s = "saveCategory" => q.kind = "updateCategory"
  /\ s = "deleteCategory" => q.kind = "removeCategory"

Placed(r) ==
  /\ Shaped(req[r])
  /\ MayBeAt(req[r], old[r], pc[r])
  /\ req[r].kind # "updateTx" => step[r] = 1

(* The inductive invariant behind TypeOK. *)
Control == TypeOK /\ \A r \in Reqs : Placed(r)

Places == Statements \cup Ended \cup {"idle"}

-----------------------------------------------------------------------------
(* Requests and the places they go to *)

(* What a client can send has the fields its route needs. *)
LEMMA RequestShape ==
  ASSUME TypeOK, NEW k \in Kinds, NEW q \in Requests(k)
  PROVE  q \in Request /\ q.kind = k /\ Shaped(q)
PROOF
<1>1. /\ Known(categories) \subseteq Categories /\ Fresh(categories, "category") \subseteq Categories
      /\ Known(wallets) \subseteq Wallets /\ Fresh(wallets, "wallet") \subseteq Wallets
      /\ Known(txs) \subseteq TxIds
  BY DEF TypeOK, Known, Fresh
<1>2. k \in ReqKinds
  BY KindsAssumption
<1>3. PICK ts \in SUBSET (TxIds \cup {0}), as \in SUBSET (Amounts \cup {0}), cs \in SUBSET CategoryRefs,
           ws \in SUBSET WalletRefs, gs \in SUBSET {"none", "bare", "split"}, tys \in SUBSET Types :
        /\ q \in Bodies(k, ts, as, cs, ws, gs, tys)
        /\ k \in {"updateTx", "removeTx"} => ts \subseteq TxIds
        /\ k \in WalletKinds => ws \subseteq Wallets
        /\ k \in CategoryKinds => cs \subseteq Categories
  <2> USE DEF Requests, Types, WalletRefs, CategoryRefs, WalletKinds, CategoryKinds
  <2>1. CASE k = "createTx"
    BY <1>1, <2>1, ModesAssumption
  <2>2. CASE k = "updateTx"
    BY <1>1, <2>2
  <2>3. CASE k = "removeTx"
    BY <1>1, <2>3
  <2>4. CASE k = "createWallet"
    BY <1>1, <2>4
  <2>5. CASE k = "updateWallet"
    BY <1>1, <2>5
  <2>6. CASE k = "removeWallet"
    BY <1>1, <2>6
  <2>7. CASE k = "createCategory"
    BY <1>1, <2>7
  <2>8. CASE k = "updateCategory"
    BY <1>1, <2>8
  <2>9. CASE k = "removeCategory"
    BY <1>1, <2>9
  <2>10. QED
    BY <1>2, <2>1, <2>2, <2>3, <2>4, <2>5, <2>6, <2>7, <2>8, <2>9 DEF ReqKinds
<1>4. /\ q = [kind |-> k, tx |-> q.tx, amount |-> q.amount, category |-> q.category,
             wallet |-> q.wallet, group |-> q.group, type |-> q.type]
      /\ q.tx \in ts /\ q.amount \in as /\ q.category \in cs /\ q.wallet \in ws
      /\ q.group \in gs /\ q.type \in tys
  BY <1>3 DEF Bodies
<1>5. q.tx \in 0..MaxRequests /\ q.amount \in Int
  <2>1. q.tx \in TxIds \cup {0} /\ q.amount \in Amounts \cup {0}
    BY <1>3, <1>4
  <2>2. \A t \in TxIds \cup {0} : t \in 0..MaxRequests
    BY BoundsAssumption DEF TxIds, Reqs
  <2>3. \A a \in Amounts \cup {0} : a \in Int
    BY AmountsAssumption
  <2>4. QED
    BY <2>1, <2>2, <2>3
<1>6. QED
  BY <1>2, <1>3, <1>4, <1>5 DEF Request, Shaped

(* The lookups of create and update lead only where those requests belong. *)
LEMMA WalletLookupPlace ==
  ASSUME NEW q \in Request, NEW o \in TxAsLoaded, NEW p \in TxAsLoaded,
         q.kind \in {"createTx", "updateTx"}, q.kind = "updateTx" => p = o
  PROVE  WalletLookup(q, o) \in Places /\ MayBeAt(q, p, WalletLookup(q, o))
PROOF
<1>1. o.wallet \in Wallets \cup {NoRef} /\ q.wallet \in Wallets \cup {NoRef}
  BY DEF Request, TxAsLoaded, WalletRefs
<1>2. CASE q.kind = "updateTx"
  BY <1>1, <1>2 DEF WalletLookup, MayBeAt, Places, Statements, Ended
<1>3. CASE q.kind = "createTx"
  BY <1>1, <1>3 DEF WalletLookup, MayBeAt, Places, Statements, Ended
<1>4. QED
  BY <1>2, <1>3

LEMMA CategoryLookupPlace ==
  ASSUME NEW q \in Request, NEW o \in TxAsLoaded, NEW p \in TxAsLoaded,
         q.kind \in {"createTx", "updateTx"}, q.kind = "updateTx" => p = o
  PROVE  CategoryLookup(q, o) \in Places /\ MayBeAt(q, p, CategoryLookup(q, o))
PROOF
<1>1. CASE CategoryLookup(q, o) = WalletLookup(q, o)
  BY <1>1, WalletLookupPlace
<1>2. CASE CategoryLookup(q, o) # WalletLookup(q, o)
  BY <1>2 DEF CategoryLookup, MayBeAt, Places, Statements, Ended, Request, CategoryRefs
<1>3. QED
  BY <1>1, <1>2

LEMMA AfterTxPlace ==
  ASSUME NEW q \in Request, NEW o \in TxAsLoaded, q.kind \in {"updateTx", "removeTx"}
  PROVE  AfterTx(q, o) \in Places /\ MayBeAt(q, o, AfterTx(q, o))
PROOF
<1>1. CASE q.kind = "updateTx"
  BY <1>1, CategoryLookupPlace DEF AfterTx
<1>2. CASE q.kind = "removeTx"
  BY <1>2 DEF AfterTx, MayBeAt, Places, Statements, Ended, TxAsLoaded, WalletRefs
<1>3. QED
  BY <1>1, <1>2

LEMMA AfterCategoryPlace ==
  ASSUME NEW q \in Request, NEW o \in TxAsLoaded,
         q.kind \in {"createTx", "updateTx", "updateCategory", "removeCategory"}
  PROVE  AfterCategory(q, o) \in Places /\ MayBeAt(q, o, AfterCategory(q, o))
PROOF
<1>1. CASE q.kind \in {"createTx", "updateTx"}
  BY <1>1, WalletLookupPlace DEF AfterCategory
<1>2. CASE q.kind \in {"updateCategory", "removeCategory"}
  BY <1>2 DEF AfterCategory, MayBeAt, Places, Statements, Ended
<1>3. QED
  BY <1>1, <1>2

LEMMA AfterWalletPlace ==
  ASSUME NEW q \in Request, NEW o \in TxAsLoaded, MayBeAt(q, o, "findWallet")
  PROVE  AfterWallet(q) \in Places /\ MayBeAt(q, o, AfterWallet(q))
BY DEF AfterWallet, MayBeAt, Places, Statements, Ended

LEMMA FirstPlace ==
  ASSUME NEW q \in Request, Shaped(q), q.kind \in ReqKinds, NEW o \in TxAsLoaded
  PROVE  FirstStatement(q) \in Places /\ MayBeAt(q, o, FirstStatement(q))
PROOF
<1>1. NoTx \in TxAsLoaded
  BY DEF NoTx, TxAsLoaded, CategoryRefs, WalletRefs, Types
<1>2. CASE q.kind = "createTx"
  BY <1>1, <1>2, CategoryLookupPlace DEF FirstStatement
<1>3. CASE q.kind # "createTx"
  BY <1>3 DEF FirstStatement, MayBeAt, Places, Statements, Shaped, ReqKinds, WalletKinds, CategoryKinds
<1>4. QED
  BY <1>2, <1>3

-----------------------------------------------------------------------------
(* Balance adjustments *)

LEMMA AmountsAreIntegers ==
  ASSUME NEW a \in Int, NEW ty \in Types, NEW o \in TxAsLoaded
  PROVE  SignedAmount(a, ty) \in Int /\ Reversal(o) \in Int /\ RemovalDelta(o) \in Int
BY DEF SignedAmount, Reversal, RemovalDelta, Magnitude, TxAsLoaded

(* A request at a balance statement is at one of its adjustments, which names *)
(* a wallet and an amount.                                                   *)
LEMMA Paying ==
  ASSUME Control, NEW r \in Reqs, pc[r] \in {"readBalance", "writeBalance"}
  PROVE  /\ step[r] \in 1..Len(Adjustments(r))
         /\ Len(Adjustments(r)) = IF req[r].kind = "updateTx" THEN 2 ELSE 1
         /\ Adjusted(r) \in Wallets
         /\ Delta(r) \in Int
PROOF
<1>1. /\ req[r] \in Request /\ old[r] \in TxAsLoaded /\ type[r] \in Types /\ step[r] \in 1..2
      /\ req[r].kind # "updateTx" => step[r] = 1
      /\ \/ req[r].kind = "createTx" /\ req[r].wallet \in Wallets
         \/ req[r].kind \in {"updateTx", "removeTx"} /\ old[r].wallet \in Wallets
  BY DEF Control, TypeOK, Placed, MayBeAt
<1>2. req[r].amount \in Int /\ req[r].wallet \in Wallets \cup {NoRef}
  BY <1>1 DEF Request, WalletRefs
<1>3. /\ SignedAmount(req[r].amount, type[r]) \in Int
      /\ Reversal(old[r]) \in Int /\ RemovalDelta(old[r]) \in Int
  BY <1>1, <1>2, AmountsAreIntegers
<1>4. CASE req[r].kind = "createTx"
  <2>1. req[r].wallet # NoRef
    BY <1>1, <1>4, RefsAssumption
  <2>2. Adjustments(r) = <<[wallet |-> req[r].wallet, delta |-> SignedAmount(req[r].amount, type[r])]>>
    BY <1>4, <2>1 DEF Adjustments
  <2>3. QED
    BY <1>1, <1>3, <1>4, <2>2 DEF Adjusted, Delta
<1>5. CASE req[r].kind = "updateTx"
  <2>1. Adjustments(r) = <<[wallet |-> RevertedWallet(r), delta |-> Reversal(old[r])],
                           [wallet |-> NewWallet(r), delta |-> SignedAmount(req[r].amount, type[r])]>>
    BY <1>5 DEF Adjustments
  <2>2. RevertedWallet(r) \in Wallets /\ NewWallet(r) \in Wallets
    BY <1>1, <1>2, <1>5 DEF RevertedWallet, NewWallet
  <2>3. QED
    BY <1>1, <1>3, <1>5, <2>1, <2>2 DEF Adjusted, Delta
<1>6. CASE req[r].kind = "removeTx"
  <2>1. Adjustments(r) = <<[wallet |-> old[r].wallet, delta |-> RemovalDelta(old[r])]>>
    BY <1>6 DEF Adjustments
  <2>2. QED
    BY <1>1, <1>3, <1>6, <2>1 DEF Adjusted, Delta
<1>7. QED
  BY <1>1, <1>4, <1>5, <1>6

(* The wallets a request may adjust, null included. *)
LEMMA AdjustmentWallets ==
  ASSUME Control, NEW r \in Reqs
  PROVE  {a.wallet : a \in Range(Adjustments(r))} \subseteq WalletRefs
PROOF
<1>1. req[r].wallet \in WalletRefs /\ old[r].wallet \in WalletRefs
  BY DEF Control, TypeOK, Request, TxAsLoaded
<1>2. NewWallet(r) \in WalletRefs /\ RevertedWallet(r) \in WalletRefs
  BY <1>1 DEF NewWallet, RevertedWallet
<1>3. \A n \in DOMAIN Adjustments(r) : Adjustments(r)[n].wallet \in WalletRefs
  <2>1. CASE req[r].kind = "createTx"
    BY <1>1, <2>1 DEF Adjustments
  <2>2. CASE req[r].kind = "updateTx"
    BY <1>2, <2>2 DEF Adjustments
  <2>3. CASE req[r].kind = "removeTx"
    BY <1>1, <2>3 DEF Adjustments
  <2>4. CASE req[r].kind \notin {"createTx", "updateTx", "removeTx"}
    BY <2>4 DEF Adjustments
  <2>5. QED
    BY <2>1, <2>2, <2>3, <2>4
<1>4. QED
  BY <1>3 DEF Range

(* After an adjustment comes the next one, or the statement that follows them. *)
LEMMA NextAdjustmentPlace ==
  ASSUME Control, NEW r \in Reqs, pc[r] \in {"readBalance", "writeBalance"}, NextAdjustment(r)
  PROVE  /\ step' \in [Reqs -> 1..2]
         /\ \A q \in Reqs \ {r} : step'[q] = step[q]
         /\ req[r].kind # "updateTx" => step'[r] = 1
         /\ \E s \in {"readBalance", "saveTx", "softRemoveTx", "done"} :
              Goto(r, s) /\ MayBeAt(req[r], old[r], s)
PROOF
<1>1. /\ step \in [Reqs -> 1..2] /\ MayBeAt(req[r], old[r], pc[r])
      /\ req[r].kind # "updateTx" => step[r] = 1
  BY DEF Control, TypeOK, Placed
<1>2. /\ step[r] \in 1..Len(Adjustments(r))
      /\ Len(Adjustments(r)) = IF req[r].kind = "updateTx" THEN 2 ELSE 1
  BY Paying
<1>3. MayBeAt(req[r], old[r], "readBalance")
  BY <1>1 DEF MayBeAt
<1>4. CASE step[r] < Len(Adjustments(r))
  BY <1>1, <1>2, <1>3, <1>4 DEF NextAdjustment
<1>5. CASE ~(step[r] < Len(Adjustments(r)))
  <2>1. UNCHANGED step /\ Goto(r, AfterBalances(r))
    BY <1>5 DEF NextAdjustment
  <2>2. /\ AfterBalances(r) \in {"saveTx", "softRemoveTx", "done"}
        /\ MayBeAt(req[r], old[r], AfterBalances(r))
    BY DEF AfterBalances, MayBeAt
  <2>3. QED
    BY <1>1, <2>1, <2>2
<1>6. QED
  BY <1>4, <1>5

-----------------------------------------------------------------------------
(* Control is inductive *)

(* A statement of r moves r alone. *)
LEMMA OnlyMoves ==
  ASSUME Control, TypeOK', NEW r \in Reqs, NEW s \in Places,
         UNCHANGED <<req, old, step>>, Goto(r, s), MayBeAt(req[r], old[r], s)
  PROVE  Control'
PROOF
<1>1. pc' = [pc EXCEPT ![r] = s] /\ pc \in [Reqs -> Places]
  BY DEF Goto, Control, TypeOK, Places
<1>2. ASSUME NEW q \in Reqs PROVE Placed(q)'
  <2>1. Placed(q)
    BY DEF Control
  <2>2. MayBeAt(req[q], old[q], pc'[q])
    BY <1>1, <2>1 DEF Placed
  <2>3. QED
    BY <2>1, <2>2 DEF Placed
<1>3. QED
  BY <1>2 DEF Control

LEMMA GotoType ==
  ASSUME TypeOK, NEW r \in Reqs, NEW s \in Places, Goto(r, s)
  PROVE  pc' \in [Reqs -> Statements \cup Ended \cup {"idle"}]
BY DEF Goto, TypeOK, Places

LEMMA InitControl == Init => Control
PROOF
<1>1. SUFFICES ASSUME Init PROVE Control
  OBVIOUS
<1> USE <1>1 DEF Init
<1>2. Blank \in Request /\ NoTx \in TxAsLoaded
  BY BoundsAssumption DEF Blank, NoTx, Request, TxAsLoaded, WalletRefs, CategoryRefs, Types
<1>3. wallets \in [Wallets -> WalletRow] /\ opening \in [Wallets -> Int]
  BY DEF WalletRow, RowStates
<1>4. categories \in [Categories -> CategoryRow]
  BY RefsAssumption DEF CategoryRow, RowStates, Types
<1>5. txs \in [TxIds -> TxRow]
  BY DEF TxRow, RowStates, WalletRefs, CategoryRefs
<1>6. TypeOK
  BY <1>2, <1>3, <1>4, <1>5 DEF TypeOK, Types
<1>7. ASSUME NEW r \in Reqs PROVE Placed(r)
  BY DEF Placed, Shaped, MayBeAt, Blank, WalletKinds, CategoryKinds
<1>8. QED
  BY <1>6, <1>7 DEF Control

LEMMA StartControl == ASSUME Control, NEW r \in Reqs, Start(r) PROVE Control'
PROOF
<1>0. PICK k \in Kinds : \E q \in Requests(k) :
        req' = [req EXCEPT ![r] = q] /\ Goto(r, FirstStatement(q))
  BY DEF Start
<1>1. PICK q \in Requests(k) : req' = [req EXCEPT ![r] = q] /\ Goto(r, FirstStatement(q))
  BY <1>0
<1>2. q \in Request /\ q.kind \in ReqKinds /\ Shaped(q)
  BY RequestShape, KindsAssumption DEF Control
<1>3. UNCHANGED <<wallets, categories, txs, groupExpenses, old, type, step, snap,
                  wrote, drifted, opening, bystanders>>
  BY DEF Start, db, hist
<1>4. TypeOK /\ old[r] \in TxAsLoaded
  BY DEF Control, TypeOK
<1>5. FirstStatement(q) \in Places /\ MayBeAt(q, old[r], FirstStatement(q))
  BY <1>2, <1>4, FirstPlace
<1>6. TypeOK'
  BY <1>1, <1>2, <1>3, <1>4, <1>5, GotoType DEF TypeOK
<1>7. req[r].kind = "none"
  BY DEF Start, Control, Placed, MayBeAt
<1>8. ASSUME NEW x \in Reqs PROVE Placed(x)'
  <2>1. Placed(x)
    BY DEF Control
  <2>2. CASE x = r
    <3>1. req'[r] = q /\ pc'[r] = FirstStatement(q) /\ old'[r] = old[r] /\ step'[r] = step[r]
      BY <1>1, <1>3, <1>4 DEF Goto, TypeOK
    <3>2. step[r] = 1
      BY <1>7, <2>1, <2>2 DEF Placed
    <3>3. QED
      BY <1>2, <1>5, <2>2, <3>1, <3>2 DEF Placed
  <2>3. CASE x # r
    <3>1. req'[x] = req[x] /\ pc'[x] = pc[x] /\ old'[x] = old[x] /\ step'[x] = step[x]
      BY <1>1, <1>3, <1>4, <2>3 DEF Goto, TypeOK
    <3>2. QED
      BY <2>1, <3>1 DEF Placed
  <2>4. QED
    BY <2>2, <2>3
<1>9. QED
  BY <1>6, <1>8 DEF Control

LEMMA FindTxControl == ASSUME Control, NEW r \in Reqs, FindTx(r) PROVE Control'
PROOF
<1>1. /\ req[r] \in Request /\ req[r].kind \in {"updateTx", "removeTx"}
      /\ req[r].tx \in TxIds /\ TypeOK /\ step' = step /\ req' = req
  BY DEF FindTx, Control, TypeOK, Placed, Shaped, MayBeAt
<1>2. CASE ~Live(txs, req[r].tx)
  <2>1. Goto(r, "failed") /\ UNCHANGED <<old, type>>
    BY <1>2 DEF FindTx
  <2>2. TypeOK'
    BY <1>1, <2>1, GotoType DEF FindTx, db, hist, TypeOK, Places, Ended
  <2>3. MayBeAt(req[r], old[r], "failed")
    BY DEF MayBeAt
  <2>4. QED
    BY <1>1, <2>1, <2>2, <2>3, OnlyMoves DEF Places, Ended
<1>3. CASE Live(txs, req[r].tx)
  <2> DEFINE o == LoadTx(req[r].tx)
  <2>1. /\ old' = [old EXCEPT ![r] = o]
        /\ type' = [type EXCEPT ![r] = o.type]
        /\ Goto(r, AfterTx(req[r], o))
    BY <1>3 DEF FindTx
  <2>2. o \in TxAsLoaded
    <3>1. txs[req[r].tx] \in TxRow
      BY <1>1 DEF TypeOK
    <3>2. \A c \in Categories : categories[c].type \in Types
      BY <1>1 DEF TypeOK, CategoryRow
    <3>3. QED
      BY <3>1, <3>2 DEF LoadTx, TxAsLoaded, TxRow, WalletRefs, CategoryRefs, Types
  <2>3. AfterTx(req[r], o) \in Places /\ MayBeAt(req[r], o, AfterTx(req[r], o))
    BY <1>1, <2>2, AfterTxPlace
  <2>4. TypeOK'
    <3>1. o.type \in Types
      BY <2>2 DEF TxAsLoaded
    <3>2. QED
      BY <1>1, <2>1, <2>2, <2>3, <3>1, GotoType DEF FindTx, db, hist, TypeOK
  <2>5. ASSUME NEW x \in Reqs PROVE Placed(x)'
    <3>1. Placed(x)
      BY DEF Control
    <3>2. CASE x = r
      <4>1. old'[r] = o /\ pc'[r] = AfterTx(req[r], o)
        BY <1>1, <2>1 DEF Goto, TypeOK
      <4>2. QED
        BY <1>1, <2>3, <3>1, <3>2, <4>1 DEF Placed
    <3>3. CASE x # r
      <4>1. old'[x] = old[x] /\ pc'[x] = pc[x]
        BY <1>1, <2>1, <3>3 DEF Goto, TypeOK
      <4>2. QED
        BY <1>1, <3>1, <4>1 DEF Placed
    <3>4. QED
      BY <3>2, <3>3
  <2>6. QED
    BY <2>4, <2>5 DEF Control
<1>4. QED
  BY <1>2, <1>3

LEMMA FindCategoryControl == ASSUME Control, NEW r \in Reqs, FindCategory(r) PROVE Control'
PROOF
<1>1. /\ TypeOK /\ req[r] \in Request /\ old[r] \in TxAsLoaded /\ req[r].category \in Categories
      /\ req[r].kind \in {"createTx", "updateTx", "updateCategory", "removeCategory"}
  BY DEF FindCategory, Control, TypeOK, Placed, MayBeAt
<1>2. PICK s \in Places : Goto(r, s) /\ MayBeAt(req[r], old[r], s) /\ type' \in [Reqs -> Types]
  <2>1. CASE ~Live(categories, req[r].category)
    BY <1>1, <2>1 DEF FindCategory, TypeOK, MayBeAt, Places, Ended
  <2>2. CASE Live(categories, req[r].category)
    <3>1. categories[req[r].category].type \in Types
      BY <1>1 DEF TypeOK, CategoryRow
    <3>2. AfterCategory(req[r], old[r]) \in Places /\ MayBeAt(req[r], old[r], AfterCategory(req[r], old[r]))
      BY <1>1, AfterCategoryPlace
    <3>3. QED
      BY <1>1, <2>2, <3>1, <3>2 DEF FindCategory, TypeOK
  <2>3. QED
    BY <2>1, <2>2
<1>3. TypeOK'
  BY <1>1, <1>2, GotoType DEF FindCategory, db, hist, TypeOK
<1>4. QED
  BY <1>2, <1>3, OnlyMoves DEF FindCategory

LEMMA FindWalletControl == ASSUME Control, NEW r \in Reqs, FindWallet(r) PROVE Control'
PROOF
<1>1. TypeOK /\ req[r] \in Request /\ old[r] \in TxAsLoaded /\ MayBeAt(req[r], old[r], "findWallet")
  BY DEF FindWallet, Control, TypeOK, Placed
<1>2. MayBeAt(req[r], old[r], "failed") /\ "failed" \in Places
  BY DEF MayBeAt, Places, Ended
<1>3. AfterWallet(req[r]) \in Places /\ MayBeAt(req[r], old[r], AfterWallet(req[r]))
  BY <1>1, AfterWalletPlace
<1>4. PICK s \in Places : Goto(r, s) /\ MayBeAt(req[r], old[r], s)
  BY <1>2, <1>3 DEF FindWallet
<1>5. TypeOK'
  BY <1>1, <1>4, GotoType DEF FindWallet, db, hist, TypeOK
<1>6. QED
  BY <1>4, <1>5, OnlyMoves DEF FindWallet

LEMMA GroupControl == ASSUME Control, NEW r \in Reqs, FindGroupAndAddExpense(r) PROVE Control'
PROOF
<1>1. TypeOK /\ MayBeAt(req[r], old[r], "group")
  BY DEF FindGroupAndAddExpense, Control, Placed
<1>2. PICK s \in {"failed", "insertTx"} : Goto(r, s)
  BY DEF FindGroupAndAddExpense
<1>3. s \in Places /\ MayBeAt(req[r], old[r], s)
  BY <1>1, <1>2 DEF MayBeAt, Places, Statements, Ended
<1>4. groupExpenses' \subseteq TxIds
  BY <1>1 DEF FindGroupAndAddExpense, TypeOK, TxIds
<1>5. TypeOK'
  BY <1>1, <1>2, <1>3, <1>4, GotoType DEF FindGroupAndAddExpense, hist, TypeOK
<1>6. QED
  BY <1>2, <1>3, <1>5, OnlyMoves DEF FindGroupAndAddExpense

LEMMA InsertTxControl == ASSUME Control, NEW r \in Reqs, InsertTx(r) PROVE Control'
PROOF
<1>1. TypeOK /\ req[r] \in Request /\ type[r] \in Types /\ MayBeAt(req[r], old[r], "insertTx")
  BY DEF InsertTx, Control, TypeOK, Placed
<1>2. AfterInsert(req[r]) \in Places /\ MayBeAt(req[r], old[r], AfterInsert(req[r]))
  BY <1>1 DEF AfterInsert, MayBeAt, Places, Statements, Ended, Request, WalletRefs
<1>3. SignedAmount(req[r].amount, type[r]) \in Int
  BY <1>1, AmountsAreIntegers DEF Request, SignedAmount, Magnitude
<1>4. txs' \in [TxIds -> TxRow]
  BY <1>1, <1>3 DEF InsertTx, TypeOK, TxRow, RowStates, Request, TxIds
<1>5. TypeOK'
  BY <1>1, <1>2, <1>4, GotoType DEF InsertTx, Wrote, TypeOK
<1>6. QED
  BY <1>2, <1>5, OnlyMoves DEF InsertTx

(* A balance statement moves r and its counter of adjustments. *)
LEMMA StepMoves ==
  ASSUME Control, TypeOK', NEW r \in Reqs, NEW s \in Places,
         UNCHANGED <<req, old>>, Goto(r, s), MayBeAt(req[r], old[r], s),
         \A q \in Reqs \ {r} : step'[q] = step[q],
         req[r].kind # "updateTx" => step'[r] = 1
  PROVE  Control'
PROOF
<1>1. pc' = [pc EXCEPT ![r] = s] /\ pc \in [Reqs -> Places]
  BY DEF Goto, Control, TypeOK, Places
<1>2. ASSUME NEW q \in Reqs PROVE Placed(q)'
  <2>1. Placed(q)
    BY DEF Control
  <2>2. MayBeAt(req[q], old[q], pc'[q])
    BY <1>1, <2>1 DEF Placed
  <2>3. req[q].kind # "updateTx" => step'[q] = 1
    BY <2>1 DEF Placed
  <2>4. QED
    BY <2>1, <2>2, <2>3 DEF Placed
<1>3. QED
  BY <1>2 DEF Control

LEMMA ReadBalanceControl == ASSUME Control, NEW r \in Reqs, ReadBalance(r) PROVE Control'
PROOF
<1>1. /\ TypeOK /\ Adjusted(r) \in Wallets /\ MayBeAt(req[r], old[r], "readBalance")
      /\ req[r].kind # "updateTx" => step[r] = 1
  BY Paying DEF ReadBalance, Control, Placed
<1>2. CASE Live(wallets, Adjusted(r))
  <2>1. /\ snap' = [snap EXCEPT ![r] = wallets[Adjusted(r)].balance]
        /\ Goto(r, "writeBalance") /\ UNCHANGED <<step, drifted>>
    BY <1>2 DEF ReadBalance
  <2>2. "writeBalance" \in Places /\ MayBeAt(req[r], old[r], "writeBalance")
    BY <1>1 DEF Places, Statements, MayBeAt
  <2>3. wallets[Adjusted(r)].balance \in Int
    BY <1>1 DEF TypeOK, WalletRow
  <2>4. TypeOK'
    BY <1>1, <2>1, <2>2, <2>3, GotoType DEF ReadBalance, db, TypeOK
  <2>5. QED
    BY <2>1, <2>2, <2>4, OnlyMoves DEF ReadBalance
<1>3. CASE ~Live(wallets, Adjusted(r))
  <2>1. NextAdjustment(r) /\ Drift({Adjusted(r)}) /\ UNCHANGED snap
    BY <1>3 DEF ReadBalance
  <2>2. PICK s \in {"readBalance", "saveTx", "softRemoveTx", "done"} :
          Goto(r, s) /\ MayBeAt(req[r], old[r], s)
    BY <2>1, NextAdjustmentPlace DEF ReadBalance
  <2>3. /\ step' \in [Reqs -> 1..2]
        /\ \A q \in Reqs \ {r} : step'[q] = step[q]
        /\ req[r].kind # "updateTx" => step'[r] = 1
    BY <2>1, NextAdjustmentPlace DEF ReadBalance
  <2>4. s \in Places
    BY <2>2 DEF Places, Statements, Ended
  <2>5. drifted' \subseteq Wallets
    BY <1>1, <2>1 DEF Drift, TypeOK
  <2>6. TypeOK'
    BY <1>1, <2>1, <2>2, <2>3, <2>4, <2>5, GotoType DEF ReadBalance, db, TypeOK
  <2>7. QED
    BY <2>2, <2>3, <2>4, <2>6, StepMoves DEF ReadBalance
<1>4. QED
  BY <1>2, <1>3

LEMMA WriteBalanceControl == ASSUME Control, NEW r \in Reqs, WriteBalance(r) PROVE Control'
PROOF
<1>1. TypeOK /\ Adjusted(r) \in Wallets /\ Delta(r) \in Int /\ snap[r] \in Int
  BY Paying DEF WriteBalance, Control, TypeOK
<1>2. NextAdjustment(r) /\ Drift(IF LosesBalance(r) THEN {Adjusted(r)} ELSE {})
  BY DEF WriteBalance
<1>3. PICK s \in {"readBalance", "saveTx", "softRemoveTx", "done"} :
        Goto(r, s) /\ MayBeAt(req[r], old[r], s)
  BY <1>2, NextAdjustmentPlace DEF WriteBalance
<1>4. /\ step' \in [Reqs -> 1..2]
      /\ \A q \in Reqs \ {r} : step'[q] = step[q]
      /\ req[r].kind # "updateTx" => step'[r] = 1
  BY <1>2, NextAdjustmentPlace DEF WriteBalance
<1>5. s \in Places
  BY <1>3 DEF Places, Statements, Ended
<1>6. NewBalance(r) \in Int
  BY <1>1 DEF NewBalance
<1>7. wallets' \in [Wallets -> WalletRow]
  BY <1>1, <1>6 DEF WriteBalance, TypeOK, WalletRow, RowStates
<1>8. drifted' \subseteq Wallets /\ wrote' \subseteq Reqs
  BY <1>1, <1>2 DEF WriteBalance, Drift, Wrote, TypeOK
<1>9. TypeOK'
  BY <1>1, <1>3, <1>4, <1>5, <1>7, <1>8, GotoType DEF WriteBalance, TypeOK
<1>10. QED
  BY <1>3, <1>4, <1>5, <1>9, StepMoves DEF WriteBalance

(* Every other write of r ends it. *)
LEMMA Ends ==
  ASSUME Control, TypeOK', NEW r \in Reqs, UNCHANGED <<req, old, step>>, Goto(r, "done")
  PROVE  Control'
BY OnlyMoves DEF Places, Ended, MayBeAt

LEMMA DoneType ==
  ASSUME TypeOK, NEW r \in Reqs, Goto(r, "done")
  PROVE  pc' \in [Reqs -> Statements \cup Ended \cup {"idle"}]
BY GotoType DEF Places, Ended

LEMMA SaveTxControl == ASSUME Control, NEW r \in Reqs, SaveTx(r) PROVE Control'
PROOF
<1> DEFINE t == req[r].tx
<1>1. /\ TypeOK /\ req[r] \in Request /\ old[r] \in TxAsLoaded /\ type[r] \in Types
      /\ t \in TxIds /\ txs[t] \in TxRow
  BY DEF SaveTx, Control, TypeOK, Placed, Shaped, MayBeAt
<1>2. NewWallet(r) \in WalletRefs /\ NewCategory(r) \in CategoryRefs
  BY <1>1 DEF NewWallet, NewCategory, Request, TxAsLoaded
<1>3. SignedAmount(req[r].amount, type[r]) \in Int
  BY <1>1, AmountsAreIntegers DEF Request, SignedAmount, Magnitude
<1>4. txs' \in [TxIds -> TxRow]
  BY <1>1, <1>2, <1>3 DEF SaveTx, TypeOK, TxRow, RowStates
<1>5. drifted' \subseteq Wallets
  <2>1. {old[r].wallet, NewWallet(r), txs[t].wallet} \subseteq WalletRefs
    BY <1>1, <1>2 DEF TxAsLoaded, TxRow
  <2>2. Drift(IF Outdated(r, t) THEN {old[r].wallet, NewWallet(r), txs[t].wallet} ELSE {})
    BY DEF SaveTx
  <2>3. drifted \subseteq Wallets
    BY <1>1 DEF TypeOK
  <2>4. QED
    BY <2>1, <2>2, <2>3 DEF Drift, WalletRefs
<1>6. TypeOK'
  BY <1>1, <1>4, <1>5, DoneType DEF SaveTx, Wrote, TypeOK
<1>7. QED
  BY <1>6, Ends DEF SaveTx

LEMMA DeletingType ==
  ASSUME TypeOK, NEW r \in Reqs, NEW x \in Rows, Deleting(r, x)
  PROVE  bystanders' \in [Rows -> SUBSET Reqs]
BY DEF Deleting, InFlight, TypeOK

LEMMA SoftRemoveTxControl == ASSUME Control, NEW r \in Reqs, SoftRemoveTx(r) PROVE Control'
PROOF
<1> DEFINE t == req[r].tx
<1>1. /\ TypeOK /\ old[r] \in TxAsLoaded /\ t \in TxIds /\ txs[t] \in TxRow
  BY DEF SoftRemoveTx, Control, TypeOK, Placed, Shaped, MayBeAt
<1>2. txs' \in [TxIds -> TxRow]
  BY <1>1 DEF SoftRemoveTx, TypeOK, TxRow, RowStates
<1>3. drifted' \subseteq Wallets
  <2>1. {old[r].wallet, txs[t].wallet} \subseteq WalletRefs
    BY <1>1 DEF TxAsLoaded, TxRow
  <2>2. Drift(IF Outdated(r, t) THEN {old[r].wallet, txs[t].wallet} ELSE {})
    BY DEF SoftRemoveTx
  <2>3. drifted \subseteq Wallets
    BY <1>1 DEF TypeOK
  <2>4. QED
    BY <2>1, <2>2, <2>3 DEF Drift, WalletRefs
<1>4. bystanders' \in [Rows -> SUBSET Reqs]
  BY <1>1, DeletingType DEF SoftRemoveTx, Rows, TxIds
<1>5. TypeOK'
  BY <1>1, <1>2, <1>3, <1>4, DoneType DEF SoftRemoveTx, Wrote, TypeOK
<1>6. QED
  BY <1>5, Ends DEF SoftRemoveTx

LEMMA InsertWalletControl == ASSUME Control, NEW r \in Reqs, InsertWallet(r) PROVE Control'
PROOF
<1>1. TypeOK /\ req[r].amount \in Int /\ req[r].wallet \in Wallets
  BY DEF InsertWallet, Control, TypeOK, Placed, Shaped, MayBeAt, Request, WalletKinds
<1>2. wallets' \in [Wallets -> WalletRow] /\ opening' \in [Wallets -> Int]
  BY <1>1 DEF InsertWallet, TypeOK, WalletRow, RowStates
<1>3. TypeOK'
  BY <1>1, <1>2, DoneType DEF InsertWallet, Wrote, TypeOK
<1>4. QED
  BY <1>3, Ends DEF InsertWallet

LEMMA SaveWalletControl == ASSUME Control, NEW r \in Reqs, SaveWallet(r) PROVE Control'
PROOF
<1>1. TypeOK /\ req[r].amount \in Int /\ req[r].wallet \in Wallets
  BY DEF SaveWallet, Control, TypeOK, Placed, Shaped, MayBeAt, Request, WalletKinds
<1>2. wallets' \in [Wallets -> WalletRow] /\ drifted' \subseteq Wallets
  BY <1>1 DEF SaveWallet, TypeOK, WalletRow, RowStates, Drift
<1>3. TypeOK'
  BY <1>1, <1>2, DoneType DEF SaveWallet, Wrote, TypeOK
<1>4. QED
  BY <1>3, Ends DEF SaveWallet

LEMMA DeleteWalletControl == ASSUME Control, NEW r \in Reqs, DeleteWallet(r) PROVE Control'
PROOF
<1>1. TypeOK /\ req[r].wallet \in Wallets
  BY DEF DeleteWallet, Control, Placed, Shaped, MayBeAt, WalletKinds
<1>2. wallets' \in [Wallets -> WalletRow]
  BY <1>1 DEF DeleteWallet, TypeOK, WalletRow, RowStates
<1>3. bystanders' \in [Rows -> SUBSET Reqs]
  BY <1>1, DeletingType DEF DeleteWallet, Rows
<1>4. TypeOK'
  BY <1>1, <1>2, <1>3, DoneType DEF DeleteWallet, Wrote, TypeOK
<1>5. QED
  BY <1>4, Ends DEF DeleteWallet

LEMMA InsertCategoryControl == ASSUME Control, NEW r \in Reqs, InsertCategory(r) PROVE Control'
PROOF
<1>1. TypeOK /\ req[r].type \in Types /\ req[r].category \in Categories
  BY DEF InsertCategory, Control, TypeOK, Placed, Shaped, MayBeAt, Request, CategoryKinds
<1>2. categories' \in [Categories -> CategoryRow]
  BY <1>1 DEF InsertCategory, TypeOK, CategoryRow, RowStates
<1>3. TypeOK'
  BY <1>1, <1>2, DoneType DEF InsertCategory, Wrote, TypeOK
<1>4. QED
  BY <1>3, Ends DEF InsertCategory

LEMMA SaveCategoryControl == ASSUME Control, NEW r \in Reqs, SaveCategory(r) PROVE Control'
PROOF
<1>1. TypeOK /\ req[r].type \in Types /\ req[r].category \in Categories
  BY DEF SaveCategory, Control, TypeOK, Placed, Shaped, MayBeAt, Request, CategoryKinds
<1>2. categories' \in [Categories -> CategoryRow]
  BY <1>1 DEF SaveCategory, TypeOK, CategoryRow, RowStates
<1>3. TypeOK'
  BY <1>1, <1>2, DoneType DEF SaveCategory, Wrote, TypeOK
<1>4. QED
  BY <1>3, Ends DEF SaveCategory

LEMMA DeleteCategoryControl == ASSUME Control, NEW r \in Reqs, DeleteCategory(r) PROVE Control'
PROOF
<1>1. TypeOK /\ req[r].category \in Categories
  BY DEF DeleteCategory, Control, Placed, Shaped, MayBeAt, CategoryKinds
<1>2. categories' \in [Categories -> CategoryRow]
  BY <1>1 DEF DeleteCategory, TypeOK, CategoryRow, RowStates
<1>3. bystanders' \in [Rows -> SUBSET Reqs]
  BY <1>1, DeletingType DEF DeleteCategory, Rows
<1>4. TypeOK'
  BY <1>1, <1>2, <1>3, DoneType DEF DeleteCategory, Wrote, TypeOK
<1>5. QED
  BY <1>4, Ends DEF DeleteCategory

LEMMA AbortControl == ASSUME Control, NEW r \in Reqs, Abort(r) PROVE Control'
PROOF
<1>1. TypeOK /\ "aborted" \in Places /\ MayBeAt(req[r], old[r], "aborted")
  BY DEF Control, Places, Ended, MayBeAt
<1>2. drifted' \subseteq Wallets
  <2>1. {a.wallet : a \in Range(Adjustments(r))} \subseteq WalletRefs
    BY AdjustmentWallets
  <2>2. Drift(IF r \in wrote THEN {a.wallet : a \in Range(Adjustments(r))} ELSE {})
    BY DEF Abort
  <2>3. drifted \subseteq Wallets
    BY <1>1 DEF TypeOK
  <2>4. QED
    BY <2>1, <2>2, <2>3 DEF Drift, WalletRefs
<1>3. TypeOK'
  BY <1>1, <1>2, GotoType DEF Abort, db, TypeOK
<1>4. QED
  BY <1>1, <1>3, OnlyMoves DEF Abort

LEMMA NextControl == Control /\ [Next]_vars => Control'
PROOF
<1>1. SUFFICES ASSUME Control, [Next]_vars PROVE Control'
  OBVIOUS
<1>2. CASE UNCHANGED vars
  BY <1>1, <1>2 DEF vars, Control, TypeOK, Placed
<1>3. CASE Rest
  BY <1>1, <1>3 DEF Rest, vars, Control, TypeOK, Placed
<1>4. ASSUME NEW r \in Reqs, Start(r) \/ Statement(r) \/ Abort(r) PROVE Control'
  <2>1. CASE Start(r) \/ Abort(r)
    BY <1>1, <2>1, StartControl, AbortControl
  <2>2. CASE FindTx(r) \/ FindCategory(r) \/ FindWallet(r) \/ FindGroupAndAddExpense(r)
    BY <1>1, <2>2, FindTxControl, FindCategoryControl, FindWalletControl, GroupControl
  <2>3. CASE InsertTx(r) \/ ReadBalance(r) \/ WriteBalance(r) \/ SaveTx(r) \/ SoftRemoveTx(r)
    BY <1>1, <2>3, InsertTxControl, ReadBalanceControl, WriteBalanceControl, SaveTxControl,
       SoftRemoveTxControl
  <2>4. CASE InsertWallet(r) \/ SaveWallet(r) \/ DeleteWallet(r)
    BY <1>1, <2>4, InsertWalletControl, SaveWalletControl, DeleteWalletControl
  <2>5. CASE InsertCategory(r) \/ SaveCategory(r) \/ DeleteCategory(r)
    BY <1>1, <2>5, InsertCategoryControl, SaveCategoryControl, DeleteCategoryControl
  <2>6. QED
    BY <1>4, <2>1, <2>2, <2>3, <2>4, <2>5 DEF Statement
<1>5. QED
  BY <1>1, <1>2, <1>3, <1>4 DEF Next

THEOREM ControlHolds == Spec => []Control
PROOF
<1>1. QED
  BY InitControl, NextControl, PTL DEF Spec

(* Rows and locals keep their shape whatever requests are served, in whatever *)
(* order their statements interleave.                                        *)
THEOREM TypeCorrect == Spec => []TypeOK
PROOF
<1>1. Control => TypeOK
  BY DEF Control
<1>2. QED
  BY <1>1, ControlHolds, PTL

-----------------------------------------------------------------------------
(* Refused requests.  A request that can still fail has written nothing, and  *)
(* its transaction is not there: no other request can name it yet.           *)

BeforeWrites == {"idle", "findTx", "findCategory", "findWallet", "group", "failed"}

Quiet(r) ==
  /\ pc[r] \in BeforeWrites => r \notin wrote /\ r \notin groupExpenses
  /\ pc[r] \in BeforeWrites \cup {"insertTx"} => txs[r].state = "absent"

NamesTx(r) == req[r].kind \in {"updateTx", "removeTx"} => txs[req[r].tx].state # "absent"

Silence == Control /\ \A r \in Reqs : Quiet(r) /\ NamesTx(r)

(* A statement of r leaves the other requests alone: it makes no row of        *)
(* theirs, and none disappears.                                              *)
LeavesAlone(r) ==
  /\ \A q \in Reqs \ {r} : pc'[q] = pc[q] /\ req'[q] = req[q]
  /\ wrote' \subseteq wrote \cup {r} /\ groupExpenses' \subseteq groupExpenses \cup {r}
  /\ \A t \in TxIds : txs[t].state # "absent" => txs'[t].state # "absent"
  /\ \A t \in TxIds \ {r} : txs[t].state = "absent" => txs'[t].state = "absent"

LEMMA SilenceOfOne ==
  ASSUME Silence, Control', NEW r \in Reqs, LeavesAlone(r), Quiet(r)', NamesTx(r)'
  PROVE  Silence'
PROOF
<1>1. ASSUME NEW q \in Reqs PROVE Quiet(q)' /\ NamesTx(q)'
  <2>1. CASE q = r
    BY <2>1
  <2>2. CASE q # r
    <3>1. Quiet(q) /\ NamesTx(q) /\ pc'[q] = pc[q] /\ req'[q] = req[q]
      BY <2>2 DEF Silence, LeavesAlone
    <3>2. req[q].kind \in {"updateTx", "removeTx"} => req[q].tx \in TxIds
      BY DEF Silence, Control, Placed, Shaped
    <3>3. q \in TxIds \ {r}
      BY <2>2 DEF TxIds
    <3>4. Quiet(q)'
      BY <2>2, <3>1, <3>3 DEF Quiet, LeavesAlone
    <3>5. NamesTx(q)'
      BY <3>1, <3>2 DEF NamesTx, LeavesAlone
    <3>6. QED
      BY <3>4, <3>5
  <2>3. QED
    BY <2>1, <2>2
<1>2. QED
  BY <1>1 DEF Silence

(* The statements before the first write. *)
LEMMA LookupSilence ==
  ASSUME Silence, Control', NEW r \in Reqs,
         FindTx(r) \/ FindCategory(r) \/ FindWallet(r) \/ FindGroupAndAddExpense(r)
  PROVE  Silence'
PROOF
<1>1. /\ pc[r] \in BeforeWrites /\ UNCHANGED <<req, txs, wrote>>
      /\ \/ UNCHANGED groupExpenses
         \/ groupExpenses' = groupExpenses \cup {r} /\ pc' = [pc EXCEPT ![r] = "insertTx"]
  BY DEF FindTx, FindCategory, FindWallet, FindGroupAndAddExpense, BeforeWrites, db, hist, Goto
<1>2. /\ pc \in [Reqs -> Statements \cup Ended \cup {"idle"}]
      /\ \E s : Goto(r, s)
  BY DEF FindTx, FindCategory, FindWallet, FindGroupAndAddExpense, Silence, Control, TypeOK
<1>3. LeavesAlone(r)
  BY <1>1, <1>2 DEF LeavesAlone, Goto
<1>4. Quiet(r) /\ NamesTx(r)
  BY DEF Silence
<1>5. Quiet(r)'
  <2>1. CASE UNCHANGED groupExpenses
    BY <1>1, <1>4, <2>1 DEF Quiet
  <2>2. CASE pc' = [pc EXCEPT ![r] = "insertTx"]
    BY <1>1, <1>2, <1>4, <2>2 DEF Quiet, BeforeWrites
  <2>3. QED
    BY <1>1, <2>1, <2>2
<1>6. NamesTx(r)'
  BY <1>1, <1>4 DEF NamesTx
<1>7. QED
  BY <1>3, <1>5, <1>6, SilenceOfOne

LEMMA StartSilence == ASSUME Silence, Control', NEW r \in Reqs, Start(r) PROVE Silence'
PROOF
<1>1. PICK k \in Kinds : \E q \in Requests(k) :
        req' = [req EXCEPT ![r] = q] /\ Goto(r, FirstStatement(q))
  BY DEF Start
<1>2. PICK q \in Requests(k) : req' = [req EXCEPT ![r] = q] /\ Goto(r, FirstStatement(q))
  BY <1>1
<1>3. /\ TypeOK /\ UNCHANGED <<txs, wrote, groupExpenses>>
      /\ pc[r] \in BeforeWrites /\ Quiet(r)
  BY DEF Start, Silence, Control, BeforeWrites, db, hist
<1>4. req'[r] = q
  BY <1>2, <1>3 DEF TypeOK
<1>5. LeavesAlone(r)
  BY <1>2, <1>3 DEF LeavesAlone, Goto, TypeOK
<1>6. Quiet(r)'
  BY <1>3 DEF Quiet
<1>7. NamesTx(r)'
  <2>1. q.kind = k
    BY <1>3, RequestShape
  <2>2. CASE k \in {"updateTx", "removeTx"}
    <3>1. q.tx \in Known(txs)
      BY <2>2 DEF Requests, Bodies
    <3>2. QED
      BY <1>3, <1>4, <3>1 DEF Known, NamesTx
  <2>3. QED
    BY <1>4, <2>1, <2>2 DEF NamesTx
<1>8. QED
  BY <1>5, <1>6, <1>7, SilenceOfOne

(* A write, and whatever follows it, leaves r where it can no longer fail. *)
LEMMA WriteSilence ==
  ASSUME Silence, Control', NEW r \in Reqs, UNCHANGED <<req, groupExpenses>>,
         wrote' \subseteq wrote \cup {r},
         NEW s, Goto(r, s), s \notin BeforeWrites \cup {"insertTx"},
         \/ UNCHANGED txs
         \/ \E t \in TxIds : /\ t = r \/ txs[t].state # "absent"
                            /\ \E row : txs' = [txs EXCEPT ![t] = row] /\ row.state # "absent"
  PROVE  Silence'
PROOF
<1>1. TypeOK /\ NamesTx(r)
  BY DEF Silence, Control
<1>2. LeavesAlone(r)
  BY <1>1 DEF LeavesAlone, Goto, TypeOK
<1>3. pc'[r] = s
  BY <1>1 DEF Goto, TypeOK
<1>4. Quiet(r)'
  BY <1>3 DEF Quiet
<1>5. NamesTx(r)'
  <2>1. req[r].kind \in {"updateTx", "removeTx"} => req[r].tx \in TxIds
    BY DEF Silence, Control, Placed, Shaped
  <2>2. QED
    BY <1>1, <1>2, <2>1 DEF NamesTx, LeavesAlone
<1>6. QED
  BY <1>2, <1>4, <1>5, SilenceOfOne

LEMMA BalanceSilence ==
  ASSUME Silence, Control', NEW r \in Reqs, ReadBalance(r) \/ WriteBalance(r)
  PROVE  Silence'
PROOF
<1>1. /\ UNCHANGED <<req, groupExpenses, txs>> /\ wrote' \subseteq wrote \cup {r}
      /\ pc[r] \in {"readBalance", "writeBalance"}
  BY DEF ReadBalance, WriteBalance, Wrote, db
<1>2. Goto(r, "writeBalance") \/ NextAdjustment(r)
  BY DEF ReadBalance, WriteBalance
<1>3. PICK s \in {"readBalance", "writeBalance", "saveTx", "softRemoveTx", "done"} : Goto(r, s)
  <2>1. CASE NextAdjustment(r)
    BY <1>1, <2>1, NextAdjustmentPlace DEF Silence
  <2>2. QED
    BY <1>2, <2>1
<1>4. s \notin BeforeWrites \cup {"insertTx"}
  BY DEF BeforeWrites
<1>5. QED
  BY <1>1, <1>3, <1>4, WriteSilence

LEMMA TxSilence ==
  ASSUME Silence, Control', NEW r \in Reqs, InsertTx(r) \/ SaveTx(r) \/ SoftRemoveTx(r)
  PROVE  Silence'
PROOF
<1>1. UNCHANGED <<req, groupExpenses>> /\ wrote' \subseteq wrote \cup {r} /\ TypeOK
  BY DEF InsertTx, SaveTx, SoftRemoveTx, Wrote, Silence, Control
<1>2. PICK s \in {"readBalance", "done"} : Goto(r, s)
  BY DEF InsertTx, AfterInsert, SaveTx, SoftRemoveTx
<1>3. s \notin BeforeWrites \cup {"insertTx"}
  BY DEF BeforeWrites
<1>4. CASE InsertTx(r)
  <2> DEFINE row == [state |-> "live", amount |-> SignedAmount(req[r].amount, type[r]),
                     category |-> req[r].category, wallet |-> req[r].wallet]
  <2>1. txs' = [txs EXCEPT ![r] = row] /\ row.state # "absent"
    BY <1>4 DEF InsertTx
  <2>2. QED
    BY <1>1, <1>2, <1>3, <2>1, WriteSilence DEF TxIds
<1>5. CASE SaveTx(r) \/ SoftRemoveTx(r)
  <2>1. req[r].tx \in TxIds /\ txs[req[r].tx].state # "absent"
    BY <1>5 DEF SaveTx, SoftRemoveTx, Silence, Control, Placed, Shaped, MayBeAt, NamesTx
  <2>2. txs[req[r].tx] \in TxRow
    BY <1>1, <2>1 DEF TypeOK
  <2>3. \E row : txs' = [txs EXCEPT ![req[r].tx] = row] /\ row.state # "absent"
    BY <1>5, <2>2 DEF SaveTx, SoftRemoveTx, TxRow
  <2>4. QED
    BY <1>1, <1>2, <1>3, <2>1, <2>3, WriteSilence
<1>6. QED
  BY <1>4, <1>5

LEMMA OtherSilence ==
  ASSUME Silence, Control', NEW r \in Reqs,
         \/ InsertWallet(r) \/ SaveWallet(r) \/ DeleteWallet(r)
         \/ InsertCategory(r) \/ SaveCategory(r) \/ DeleteCategory(r) \/ Abort(r)
  PROVE  Silence'
PROOF
<1>1. UNCHANGED <<req, groupExpenses, txs>> /\ wrote' \subseteq wrote \cup {r}
  BY DEF InsertWallet, SaveWallet, DeleteWallet, InsertCategory, SaveCategory, DeleteCategory,
         Abort, Wrote, db
<1>2. PICK s \in {"done", "aborted"} : Goto(r, s)
  BY DEF InsertWallet, SaveWallet, DeleteWallet, InsertCategory, SaveCategory, DeleteCategory, Abort
<1>3. s \notin BeforeWrites \cup {"insertTx"}
  BY DEF BeforeWrites
<1>4. QED
  BY <1>1, <1>2, <1>3, WriteSilence

LEMMA NextSilence == Silence /\ [Next]_vars => Silence'
PROOF
<1>1. SUFFICES ASSUME Silence, [Next]_vars PROVE Silence'
  OBVIOUS
<1>2. Control'
  BY <1>1, NextControl DEF Silence
<1>3. CASE UNCHANGED vars \/ Rest
  BY <1>1, <1>2, <1>3 DEF Rest, vars, Silence, Quiet, NamesTx
<1>4. ASSUME NEW r \in Reqs, Start(r) \/ Statement(r) \/ Abort(r) PROVE Silence'
  <2>1. CASE Start(r)
    BY <1>1, <1>2, <2>1, StartSilence
  <2>2. CASE FindTx(r) \/ FindCategory(r) \/ FindWallet(r) \/ FindGroupAndAddExpense(r)
    BY <1>1, <1>2, <2>2, LookupSilence
  <2>3. CASE ReadBalance(r) \/ WriteBalance(r)
    BY <1>1, <1>2, <2>3, BalanceSilence
  <2>4. CASE InsertTx(r) \/ SaveTx(r) \/ SoftRemoveTx(r)
    BY <1>1, <1>2, <2>4, TxSilence
  <2>5. CASE \/ InsertWallet(r) \/ SaveWallet(r) \/ DeleteWallet(r)
             \/ InsertCategory(r) \/ SaveCategory(r) \/ DeleteCategory(r) \/ Abort(r)
    BY <1>1, <1>2, <2>5, OtherSilence
  <2>6. QED
    BY <1>4, <2>1, <2>2, <2>3, <2>4, <2>5 DEF Statement
<1>5. QED
  BY <1>1, <1>3, <1>4 DEF Next

LEMMA InitSilence == Init => Silence
PROOF
<1>1. SUFFICES ASSUME Init PROVE Silence
  OBVIOUS
<1>2. Control
  BY <1>1, InitControl
<1>3. ASSUME NEW r \in Reqs PROVE Quiet(r) /\ NamesTx(r)
  BY <1>1 DEF Init, Quiet, NamesTx, Blank, TxIds
<1>4. QED
  BY <1>2, <1>3 DEF Silence

(* A request the handler answers with an error has changed nothing, whatever  *)
(* is served beside it: all its checks precede its first write.              *)
THEOREM RefusedRequestsAreSilent == Spec => []FailedRequestsAreSilent
PROOF
<1>1. Silence => FailedRequestsAreSilent
  BY DEF Silence, FailedRequestsAreSilent, Quiet, BeforeWrites
<1>2. QED
  BY <1>1, InitSilence, NextSilence, PTL DEF Spec

-----------------------------------------------------------------------------
(* Revival: a deleted row comes back only through a request that was being   *)
(* served when it was deleted.  The invariant says who holds what.  A request *)
(* names only rows that exist, one that inserts a row has its id for itself, *)
(* and one that will write a row back was in flight when the row was deleted, *)
(* if it was.                                                                *)

(* The rows request r names or has loaded exist. *)
Refers(r) ==
  /\ req[r].kind # "createWallet" /\ req[r].wallet # NoRef => wallets[req[r].wallet].state # "absent"
  /\ req[r].kind # "createCategory" /\ req[r].category # NoRef =>
       categories[req[r].category].state # "absent"
  /\ old[r].wallet # NoRef => wallets[old[r].wallet].state # "absent"

(* The id of a row r is about to insert is new, and nobody else's. *)
Reserves(r) ==
  /\ pc[r] = "insertWallet" =>
       /\ wallets[req[r].wallet].state = "absent"
       /\ \A q \in Reqs \ {r} : req[q].wallet # req[r].wallet
  /\ pc[r] = "insertCategory" =>
       /\ categories[req[r].category].state = "absent"
       /\ \A q \in Reqs \ {r} : req[q].category # req[r].category

HoldsTx == {"findCategory", "findWallet", "readBalance", "writeBalance", "saveTx"}

(* Request r has loaded row x and will write it back. *)
Holds(r, x) ==
  \/ pc[r] \in HoldsTx /\ req[r].kind = "updateTx" /\ x = req[r].tx
  \/ pc[r] = "writeBalance" /\ x = Adjusted(r)
  \/ pc[r] = "saveWallet" /\ x = req[r].wallet
  \/ pc[r] = "saveCategory" /\ x = req[r].category

Keeps(r) == \A x \in Rows : Holds(r, x) /\ Deleted(x) => r \in bystanders[x]

Revival == Silence /\ \A r \in Reqs : Refers(r) /\ Reserves(r) /\ Keeps(r)

-----------------------------------------------------------------------------
(* What a step of r does to the others: it leaves their locals, takes no id   *)
(* they are about to insert under, and touches rows only as the tables allow.*)

LocalFrame(r) ==
  \A q \in Reqs \ {r} : /\ pc'[q] = pc[q] /\ req'[q] = req[q] /\ old'[q] = old[q]
                        /\ type'[q] = type[q] /\ step'[q] = step[q]

NoIdTaken(r) ==
  \A q \in Reqs \ {r} : /\ pc[q] = "insertWallet" => req'[r].wallet # req[q].wallet
                        /\ pc[q] = "insertCategory" => req'[r].category # req[q].category

RowsFrame(r) ==
  /\ \A w \in Wallets : wallets[w].state # "absent" => wallets'[w].state # "absent"
  /\ \A c \in Categories : categories[c].state # "absent" => categories'[c].state # "absent"
  /\ \A w \in Wallets : wallets[w].state = "absent" /\ wallets'[w].state # "absent" =>
       pc[r] = "insertWallet" /\ w = req[r].wallet
  /\ \A c \in Categories : categories[c].state = "absent" /\ categories'[c].state # "absent" =>
       pc[r] = "insertCategory" /\ c = req[r].category
  /\ \A x \in Rows : Deleted(x)' => \/ Deleted(x) /\ bystanders'[x] = bystanders[x]
                                    \/ bystanders'[x] = InFlight \ {r}

Frame(r) == LocalFrame(r) /\ NoIdTaken(r) /\ RowsFrame(r)

(* What r adjusts depends on its own locals only. *)
LEMMA AdjustedStays ==
  ASSUME NEW q, req'[q] = req[q], old'[q] = old[q], type'[q] = type[q], step'[q] = step[q]
  PROVE  Adjusted(q)' = Adjusted(q)
BY DEF Adjusted, Adjustments, NewWallet, RevertedWallet

(* The fields the invariant speaks of are ids or null. *)
LEMMA FieldTypes ==
  ASSUME Control, NEW r \in Reqs
  PROVE  /\ req[r].wallet \in Wallets \cup {NoRef} /\ req[r].category \in Categories \cup {NoRef}
         /\ old[r].wallet \in Wallets \cup {NoRef}
         /\ req[r].kind \in {"createWallet", "updateWallet", "removeWallet"} => req[r].wallet \in Wallets
         /\ req[r].kind \in {"createCategory", "updateCategory", "removeCategory"} =>
              req[r].category \in Categories
         /\ req[r].kind \in {"updateTx", "removeTx"} => req[r].tx \in TxIds
BY DEF Control, TypeOK, Placed, Shaped, Request, TxAsLoaded, WalletRefs, CategoryRefs,
       WalletKinds, CategoryKinds

(* A framed step preserves the invariant if it preserves it for r. *)
LEMMA RevivalOfOne ==
  ASSUME Revival, Silence', NEW r \in Reqs, Frame(r), Refers(r)', Reserves(r)', Keeps(r)'
  PROVE  Revival'
PROOF
<1>1. ASSUME NEW q \in Reqs, q # r PROVE Refers(q)' /\ Reserves(q)' /\ Keeps(q)'
  <2>1. /\ pc'[q] = pc[q] /\ req'[q] = req[q] /\ old'[q] = old[q]
        /\ type'[q] = type[q] /\ step'[q] = step[q]
    BY <1>1 DEF Frame, LocalFrame, NoIdTaken, RowsFrame
  <2>2. Refers(q) /\ Reserves(q) /\ Keeps(q) /\ Control
    BY DEF Revival, Silence
  <2>3. /\ req[q].wallet \in Wallets \cup {NoRef} /\ req[q].category \in Categories \cup {NoRef}
        /\ old[q].wallet \in Wallets \cup {NoRef}
    BY <2>2, FieldTypes
  <2>4. Refers(q)'
    BY <2>1, <2>2, <2>3 DEF Refers, Frame, RowsFrame
  <2>5. ASSUME pc[q] = "insertWallet"
        PROVE  /\ wallets'[req[q].wallet].state = "absent"
               /\ \A p \in Reqs \ {q} : req'[p].wallet # req[q].wallet
    <3>1. req[q].wallet \in Wallets
      BY <2>2, <2>5, FieldTypes DEF Control, Placed, MayBeAt
    <3>2. /\ wallets[req[q].wallet].state = "absent"
          /\ \A p \in Reqs \ {q} : req[p].wallet # req[q].wallet
      BY <2>2, <2>5 DEF Reserves
    <3>3. wallets'[req[q].wallet].state = "absent"
      BY <1>1, <3>1, <3>2 DEF Frame, LocalFrame, NoIdTaken, RowsFrame
    <3>4. \A p \in Reqs \ {q} : req'[p].wallet # req[q].wallet
      BY <1>1, <2>5, <3>2 DEF Frame, LocalFrame, NoIdTaken, RowsFrame
    <3>5. QED
      BY <3>3, <3>4
  <2>6. ASSUME pc[q] = "insertCategory"
        PROVE  /\ categories'[req[q].category].state = "absent"
               /\ \A p \in Reqs \ {q} : req'[p].category # req[q].category
    <3>1. req[q].category \in Categories
      BY <2>2, <2>6, FieldTypes DEF Control, Placed, MayBeAt
    <3>2. /\ categories[req[q].category].state = "absent"
          /\ \A p \in Reqs \ {q} : req[p].category # req[q].category
      BY <2>2, <2>6 DEF Reserves
    <3>3. categories'[req[q].category].state = "absent"
      BY <1>1, <3>1, <3>2 DEF Frame, LocalFrame, NoIdTaken, RowsFrame
    <3>4. \A p \in Reqs \ {q} : req'[p].category # req[q].category
      BY <1>1, <2>6, <3>2 DEF Frame, LocalFrame, NoIdTaken, RowsFrame
    <3>5. QED
      BY <3>3, <3>4
  <2>7. Reserves(q)'
    BY <2>1, <2>5, <2>6 DEF Reserves
  <2>8. Keeps(q)'
    <3>1. SUFFICES ASSUME NEW x \in Rows, Holds(q, x)', Deleted(x)' PROVE q \in bystanders'[x]
      BY DEF Keeps
    <3>2. Adjusted(q)' = Adjusted(q)
      BY <2>1, AdjustedStays
    <3>3. Holds(q, x)
      BY <2>1, <3>1, <3>2 DEF Holds
    <3>4. q \in InFlight \ {r}
      BY <1>1, <3>3 DEF Holds, HoldsTx, InFlight, Ended
    <3>5. QED
      BY <2>2, <3>1, <3>3, <3>4 DEF Frame, RowsFrame, Keeps
  <2>9. QED
    BY <2>4, <2>7, <2>8
<1>2. QED
  BY <1>1 DEF Revival

-----------------------------------------------------------------------------
(* Steps that change no row *)

LEMMA FrameOfLookup ==
  ASSUME Revival, NEW r \in Reqs, UNCHANGED <<req, wallets, categories, txs, bystanders>>,
         \A q \in Reqs \ {r} : /\ pc'[q] = pc[q] /\ old'[q] = old[q]
                              /\ type'[q] = type[q] /\ step'[q] = step[q]
  PROVE  Frame(r) /\ \A x \in Rows : Deleted(x)' = Deleted(x)
PROOF
<1>1. \A x \in Rows : Deleted(x)' = Deleted(x)
  BY DEF Deleted
<1>2. LocalFrame(r)
  BY DEF LocalFrame
<1>3. NoIdTaken(r)
  BY DEF Revival, Reserves, NoIdTaken
<1>4. RowsFrame(r)
  BY <1>1 DEF RowsFrame
<1>5. QED
  BY <1>1, <1>2, <1>3, <1>4 DEF Frame

(* The transaction that r has just loaded is live, and so is its wallet. *)
LEMMA FindTxRevival ==
  ASSUME Revival, Silence', NEW r \in Reqs, FindTx(r)
  PROVE  Revival'
PROOF
<1>1. /\ TypeOK /\ Control /\ UNCHANGED <<req, wallets, categories, txs, bystanders, step>>
      /\ Refers(r) /\ Reserves(r) /\ Keeps(r) /\ req[r].tx \in TxIds /\ pc[r] = "findTx"
  BY DEF FindTx, Revival, Silence, Control, Placed, Shaped, MayBeAt, db, hist
<1>2. CASE ~Live(txs, req[r].tx)
  <2>1. Goto(r, "failed") /\ UNCHANGED <<old, type>>
    BY <1>2 DEF FindTx
  <2>2. Frame(r)
    BY <1>1, <2>1, FrameOfLookup DEF Goto, TypeOK
  <2>3. pc'[r] = "failed"
    BY <1>1, <2>1 DEF Goto, TypeOK
  <2>4. Refers(r)' /\ Reserves(r)' /\ Keeps(r)'
    BY <1>1, <2>1, <2>3 DEF Refers, Reserves, Keeps, Holds, HoldsTx
  <2>5. QED
    BY <2>2, <2>4, RevivalOfOne
<1>3. CASE Live(txs, req[r].tx)
  <2> DEFINE o == LoadTx(req[r].tx)
  <2>1. /\ old' = [old EXCEPT ![r] = o] /\ type' = [type EXCEPT ![r] = o.type]
        /\ Goto(r, AfterTx(req[r], o))
    BY <1>3 DEF FindTx
  <2>0. \A q \in Reqs \ {r} : /\ pc'[q] = pc[q] /\ old'[q] = old[q]
                              /\ type'[q] = type[q] /\ step'[q] = step[q]
    BY <1>1, <2>1 DEF Goto, TypeOK
  <2>2. Frame(r) /\ \A x \in Rows : Deleted(x)' = Deleted(x)
    BY <1>1, <2>0, FrameOfLookup
  <2>3. pc'[r] = AfterTx(req[r], o) /\ old'[r] = o
    BY <1>1, <2>1 DEF Goto, TypeOK
  <2>4. AfterTx(req[r], o) \in {"failed", "findCategory", "findWallet", "readBalance", "insertTx", "group"}
    BY DEF AfterTx, CategoryLookup, WalletLookup
  <2>5. o.wallet # NoRef => wallets[o.wallet].state = "live"
    BY DEF LoadTx, Live
  <2>6. Refers(r)'
    BY <1>1, <2>3, <2>5 DEF Refers
  <2>7. Reserves(r)'
    BY <2>3, <2>4 DEF Reserves
  <2>8. ~Deleted(req[r].tx)
    BY <1>1, <1>3, IdsAssumption DEF Deleted, Live
  <2>9. Keeps(r)'
    <3>1. \A x \in Rows : Holds(r, x)' => x = req[r].tx
      BY <1>1, <2>3, <2>4 DEF Holds
    <3>2. QED
      BY <2>2, <2>8, <3>1 DEF Keeps
  <2>10. QED
    BY <2>2, <2>6, <2>7, <2>9, RevivalOfOne
<1>4. QED
  BY <1>2, <1>3

(* The other look-ups: r holds its transaction as before, and the row it has  *)
(* just found is not deleted.                                                *)
LEMMA LookupRevival ==
  ASSUME Revival, Silence', NEW r \in Reqs,
         UNCHANGED <<req, old, wallets, categories, txs, bystanders>>,
         \A q \in Reqs \ {r} : type'[q] = type[q] /\ step'[q] = step[q],
         pc[r] \in HoldsTx \ {"saveTx"} \/ req[r].kind # "updateTx",
         NEW s, Goto(r, s), s \notin {"insertWallet", "insertCategory"},
         \A x \in Rows : \/ s = "writeBalance" /\ x = Adjusted(r)'
                         \/ s = "saveWallet" /\ x = req[r].wallet
                         \/ s = "saveCategory" /\ x = req[r].category
                         => ~Deleted(x)
  PROVE  Revival'
PROOF
<1>1. TypeOK /\ Refers(r) /\ Keeps(r)
  BY DEF Revival, Silence, Control
<1>2. pc'[r] = s /\ \A q \in Reqs \ {r} : pc'[q] = pc[q]
  BY <1>1 DEF Goto, TypeOK
<1>3. Frame(r) /\ \A x \in Rows : Deleted(x)' = Deleted(x)
  BY <1>2, FrameOfLookup
<1>4. Refers(r)' /\ Reserves(r)'
  BY <1>1, <1>2 DEF Refers, Reserves
<1>5. Keeps(r)'
  <2>1. SUFFICES ASSUME NEW x \in Rows, Holds(r, x)', Deleted(x) PROVE r \in bystanders[x]
    BY <1>3 DEF Keeps
  <2>2. pc'[r] \in HoldsTx /\ req[r].kind = "updateTx" /\ x = req[r].tx
    BY <1>2, <2>1 DEF Holds
  <2>3. Holds(r, x)
    BY <2>2 DEF Holds
  <2>4. QED
    BY <1>1, <2>1, <2>3 DEF Keeps
<1>6. QED
  BY <1>3, <1>4, <1>5, RevivalOfOne

LEMMA FindCategoryRevival ==
  ASSUME Revival, Silence', NEW r \in Reqs, FindCategory(r)
  PROVE  Revival'
PROOF
<1>1. /\ UNCHANGED <<req, old, wallets, categories, txs, bystanders, step>> /\ pc[r] = "findCategory"
      /\ Control /\ TypeOK
  BY DEF FindCategory, Revival, Silence, Control, db, hist
<1>2. \A q \in Reqs \ {r} : type'[q] = type[q] /\ step'[q] = step[q]
  BY <1>1 DEF FindCategory, TypeOK
<1>3. /\ req[r].category \in Categories
      /\ req[r].kind \in {"createTx", "updateTx", "updateCategory", "removeCategory"}
  BY <1>1 DEF Control, Placed, MayBeAt
<1>4. PICK s : /\ Goto(r, s) /\ s \notin {"insertWallet", "insertCategory", "writeBalance", "saveWallet"}
               /\ s = "saveCategory" => Live(categories, req[r].category)
  <2>1. CASE ~Live(categories, req[r].category)
    BY <2>1 DEF FindCategory
  <2>2. CASE Live(categories, req[r].category)
    <3>1. AfterCategory(req[r], old[r]) \notin {"insertWallet", "insertCategory", "writeBalance", "saveWallet"}
      BY <1>3 DEF AfterCategory, WalletLookup
    <3>2. QED
      BY <2>2, <3>1 DEF FindCategory
  <2>3. QED
    BY <2>1, <2>2
<1>5. s = "saveCategory" => ~Deleted(req[r].category)
  BY <1>3, <1>4, IdsAssumption DEF Deleted, Live
<1>6. pc[r] \in HoldsTx \ {"saveTx"}
  BY <1>1 DEF HoldsTx
<1>7. QED
  BY <1>1, <1>2, <1>4, <1>5, <1>6, LookupRevival

LEMMA FindWalletRevival ==
  ASSUME Revival, Silence', NEW r \in Reqs, FindWallet(r)
  PROVE  Revival'
PROOF
<1>1. /\ UNCHANGED <<req, old, wallets, categories, txs, bystanders, step, type>> /\ pc[r] = "findWallet"
      /\ Control
  BY DEF FindWallet, Revival, Silence, db, hist
<1>2. /\ req[r].wallet \in Wallets
      /\ req[r].kind \in {"createTx", "updateTx", "updateWallet", "removeWallet"}
  BY <1>1 DEF Control, Placed, MayBeAt
<1>3. PICK s : /\ Goto(r, s) /\ s \notin {"insertWallet", "insertCategory", "writeBalance", "saveCategory"}
               /\ s = "saveWallet" => Live(wallets, req[r].wallet)
  <2>1. AfterWallet(req[r]) \notin {"insertWallet", "insertCategory", "writeBalance", "saveCategory"}
    BY <1>2 DEF AfterWallet
  <2>2. QED
    BY <2>1 DEF FindWallet
<1>4. s = "saveWallet" => ~Deleted(req[r].wallet)
  BY <1>2, <1>3, IdsAssumption DEF Deleted, Live
<1>5. pc[r] \in HoldsTx \ {"saveTx"}
  BY <1>1 DEF HoldsTx
<1>6. QED
  BY <1>1, <1>3, <1>4, <1>5, LookupRevival

LEMMA GroupRevival ==
  ASSUME Revival, Silence', NEW r \in Reqs, FindGroupAndAddExpense(r)
  PROVE  Revival'
PROOF
<1>1. /\ UNCHANGED <<req, old, wallets, categories, txs, bystanders, step, type>>
      /\ req[r].kind # "updateTx"
  BY DEF FindGroupAndAddExpense, Revival, Silence, Control, Placed, MayBeAt, hist
<1>2. PICK s \in {"failed", "insertTx"} : Goto(r, s)
  BY DEF FindGroupAndAddExpense
<1>3. QED
  BY <1>1, <1>2, LookupRevival

LEMMA AbortRevival ==
  ASSUME Revival, Silence', NEW r \in Reqs, Abort(r)
  PROVE  Revival'
PROOF
<1>1. /\ UNCHANGED <<req, old, wallets, categories, txs, bystanders, step, type>>
      /\ Goto(r, "aborted") /\ TypeOK /\ Refers(r)
  BY DEF Abort, Revival, Silence, Control, db
<1>2. pc'[r] = "aborted" /\ \A q \in Reqs \ {r} : pc'[q] = pc[q]
  BY <1>1 DEF Goto, TypeOK
<1>3. Frame(r)
  BY <1>1, <1>2, FrameOfLookup
<1>4. Refers(r)' /\ Reserves(r)' /\ Keeps(r)'
  BY <1>1, <1>2 DEF Refers, Reserves, Keeps, Holds, HoldsTx
<1>5. QED
  BY <1>3, <1>4, RevivalOfOne

LEMMA ReadBalanceRevival ==
  ASSUME Revival, Silence', NEW r \in Reqs, ReadBalance(r)
  PROVE  Revival'
PROOF
<1>1. /\ UNCHANGED <<req, old, wallets, categories, txs, bystanders, type>> /\ pc[r] = "readBalance"
      /\ Control
  BY DEF ReadBalance, Revival, Silence, db
<1>2. Adjusted(r) \in Wallets
  BY <1>1, Paying
<1>3. pc[r] \in HoldsTx \ {"saveTx"}
  BY <1>1 DEF HoldsTx
<1>4. CASE Live(wallets, Adjusted(r))
  <2>1. Goto(r, "writeBalance") /\ UNCHANGED step
    BY <1>4 DEF ReadBalance
  <2>2. Adjusted(r)' = Adjusted(r)
    BY <1>1, <2>1, AdjustedStays
  <2>3. ~Deleted(Adjusted(r))
    BY <1>2, <1>4, IdsAssumption DEF Deleted, Live
  <2>4. QED
    BY <1>1, <1>3, <2>1, <2>2, <2>3, LookupRevival
<1>5. CASE ~Live(wallets, Adjusted(r))
  <2>1. NextAdjustment(r)
    BY <1>5 DEF ReadBalance
  <2>2. PICK s \in {"readBalance", "saveTx", "softRemoveTx", "done"} : Goto(r, s)
    BY <1>1, <2>1, NextAdjustmentPlace
  <2>3. \A q \in Reqs \ {r} : step'[q] = step[q]
    BY <1>1, <2>1, NextAdjustmentPlace
  <2>4. QED
    BY <1>1, <1>3, <2>2, <2>3, LookupRevival
<1>6. QED
  BY <1>4, <1>5

-----------------------------------------------------------------------------
(* A request that starts *)

(* A client names rows it knows; a new row gets an id no request has. *)
LEMMA RequestRows ==
  ASSUME TypeOK, NEW k \in Kinds, NEW q \in Requests(k)
  PROVE  /\ k # "createWallet" => q.wallet \in Known(wallets) \cup {NoRef}
         /\ k = "createWallet" => q.wallet \in Fresh(wallets, "wallet")
         /\ k # "createCategory" => q.category \in Known(categories) \cup {NoRef}
         /\ k = "createCategory" => q.category \in Fresh(categories, "category")
PROOF
<1>1. PICK ts, as, cs, ws, gs, tys :
        /\ q \in Bodies(k, ts, as, cs, ws, gs, tys)
        /\ k # "createWallet" => ws \subseteq Known(wallets) \cup {NoRef}
        /\ k = "createWallet" => ws = Fresh(wallets, "wallet")
        /\ k # "createCategory" => cs \subseteq Known(categories) \cup {NoRef}
        /\ k = "createCategory" => cs = Fresh(categories, "category")
  <2> USE DEF Requests
  <2>1. CASE k = "createTx"
    BY <2>1
  <2>2. CASE k = "updateTx"
    BY <2>2
  <2>3. CASE k = "removeTx"
    BY <2>3
  <2>4. CASE k = "createWallet"
    BY <2>4
  <2>5. CASE k = "updateWallet"
    BY <2>5
  <2>6. CASE k = "removeWallet"
    BY <2>6
  <2>7. CASE k = "createCategory"
    BY <2>7
  <2>8. CASE k = "updateCategory"
    BY <2>8
  <2>9. CASE k = "removeCategory"
    BY <2>9
  <2>10. QED
    BY KindsAssumption, <2>1, <2>2, <2>3, <2>4, <2>5, <2>6, <2>7, <2>8, <2>9 DEF ReqKinds
<1>2. q.wallet \in ws /\ q.category \in cs
  BY <1>1 DEF Bodies
<1>3. QED
  BY <1>1, <1>2

(* A request does not start at a save, nor an edit past its look-up. *)
LEMMA StartPlace ==
  ASSUME NEW q \in Request, q.kind \in ReqKinds
  PROVE  /\ FirstStatement(q) = "insertWallet" => q.kind = "createWallet"
         /\ FirstStatement(q) = "insertCategory" => q.kind = "createCategory"
         /\ FirstStatement(q) \notin {"writeBalance", "saveWallet", "saveCategory"}
         /\ FirstStatement(q) \in HoldsTx => q.kind # "updateTx"
PROOF
<1>1. CASE q.kind = "createTx"
  BY <1>1 DEF FirstStatement, CategoryLookup, WalletLookup
<1>2. CASE q.kind # "createTx"
  BY <1>2 DEF FirstStatement, ReqKinds, HoldsTx
<1>3. QED
  BY <1>1, <1>2

LEMMA StartRevival ==
  ASSUME Revival, Silence', NEW r \in Reqs, Start(r)
  PROVE  Revival'
PROOF
<1>1. PICK k \in Kinds : \E q \in Requests(k) :
        req' = [req EXCEPT ![r] = q] /\ Goto(r, FirstStatement(q))
  BY DEF Start
<1>2. PICK q \in Requests(k) : req' = [req EXCEPT ![r] = q] /\ Goto(r, FirstStatement(q))
  BY <1>1
<1>3. /\ Control /\ TypeOK /\ Refers(r)
      /\ UNCHANGED <<wallets, categories, txs, bystanders, old, type, step>>
  BY DEF Start, Revival, Silence, Control, db, hist
<1>4. q \in Request /\ q.kind = k /\ k \in ReqKinds
  BY <1>3, RequestShape, KindsAssumption
<1>5. /\ req'[r] = q /\ pc'[r] = FirstStatement(q)
      /\ \A p \in Reqs \ {r} : req'[p] = req[p] /\ pc'[p] = pc[p]
  BY <1>2, <1>3 DEF Goto, TypeOK
<1>6. /\ k # "createWallet" => q.wallet = NoRef \/ wallets[q.wallet].state # "absent"
      /\ k = "createWallet" => /\ wallets[q.wallet].state = "absent"
                               /\ \A p \in Reqs : req[p].wallet # q.wallet
      /\ k # "createCategory" => q.category = NoRef \/ categories[q.category].state # "absent"
      /\ k = "createCategory" => /\ categories[q.category].state = "absent"
                                 /\ \A p \in Reqs : req[p].category # q.category
  BY <1>3, RequestRows DEF Known, Fresh
<1>7. \A x \in Rows : Deleted(x)' = Deleted(x)
  BY <1>3 DEF Deleted
<1>8. ASSUME NEW p \in Reqs \ {r} PROVE /\ pc[p] = "insertWallet" => q.wallet # req[p].wallet
                                        /\ pc[p] = "insertCategory" => q.category # req[p].category
  <2>1. Reserves(p) /\ MayBeAt(req[p], old[p], pc[p])
    BY DEF Revival, Silence, Control, Placed
  <2>2. pc[p] = "insertWallet" => req[p].wallet \in Wallets
    BY <1>3, <2>1, FieldTypes DEF MayBeAt
  <2>3. pc[p] = "insertCategory" => req[p].category \in Categories
    BY <1>3, <2>1, FieldTypes DEF MayBeAt
  <2>4. QED
    BY <1>6, <2>1, <2>2, <2>3, RefsAssumption DEF Reserves
<1>9. Frame(r)
  <2>1. \A p \in Reqs \ {r} : /\ pc'[p] = pc[p] /\ req'[p] = req[p] /\ old'[p] = old[p]
                              /\ type'[p] = type[p] /\ step'[p] = step[p]
    BY <1>3, <1>5
  <2>2. \A x \in Rows : bystanders'[x] = bystanders[x]
    BY <1>3
  <2>3. QED
    BY <1>3, <1>5, <1>7, <1>8, <2>1, <2>2 DEF Frame, LocalFrame, NoIdTaken, RowsFrame
<1>10. Refers(r)'
  BY <1>3, <1>4, <1>5, <1>6 DEF Refers
<1>11. Reserves(r)'
  BY <1>3, <1>4, <1>5, <1>6, StartPlace DEF Reserves
<1>12. Keeps(r)'
  BY <1>4, <1>5, StartPlace DEF Keeps, Holds
<1>13. QED
  BY <1>9, <1>10, <1>11, <1>12, RevivalOfOne

-----------------------------------------------------------------------------
(* Writes *)

(* A write brings no deleted row about except under Deleting, after which r  *)
(* has ended, and makes no row but the one r had an id for.                  *)
LEMMA WriteRevival ==
  ASSUME Revival, Silence', NEW r \in Reqs, UNCHANGED <<req, old, type>>,
         \A q \in Reqs \ {r} : step'[q] = step[q],
         NEW s \in {"readBalance", "saveTx", "softRemoveTx", "done"}, Goto(r, s),
         s = "done" \/ pc[r] \in HoldsTx \/ req[r].kind # "updateTx",
         \A w \in Wallets : wallets[w].state # "absent" => wallets'[w].state # "absent",
         \A c \in Categories : categories[c].state # "absent" => categories'[c].state # "absent",
         \A w \in Wallets : wallets[w].state = "absent" /\ wallets'[w].state # "absent" =>
           pc[r] = "insertWallet" /\ w = req[r].wallet,
         \A c \in Categories : categories[c].state = "absent" /\ categories'[c].state # "absent" =>
           pc[r] = "insertCategory" /\ c = req[r].category,
         \A x \in Rows : Deleted(x)' => \/ Deleted(x) /\ bystanders'[x] = bystanders[x]
                                        \/ s = "done" /\ bystanders'[x] = InFlight \ {r}
  PROVE  Revival'
PROOF
<1>1. Control /\ TypeOK /\ Refers(r) /\ Keeps(r)
  BY DEF Revival, Silence, Control
<1>2. pc'[r] = s /\ \A q \in Reqs \ {r} : pc'[q] = pc[q]
  BY <1>1 DEF Goto, TypeOK
<1>3. NoIdTaken(r)
  BY DEF Revival, Reserves, NoIdTaken
<1>4. Frame(r)
  <2>1. LocalFrame(r)
    BY <1>2 DEF LocalFrame
  <2>2. RowsFrame(r)
    BY DEF RowsFrame
  <2>3. QED
    BY <1>3, <2>1, <2>2 DEF Frame
<1>5. Refers(r)'
  BY <1>1, FieldTypes DEF Refers
<1>6. Reserves(r)'
  BY <1>2 DEF Reserves
<1>7. Keeps(r)'
  <2>1. SUFFICES ASSUME NEW x \in Rows, Holds(r, x)', Deleted(x)' PROVE r \in bystanders'[x]
    BY DEF Keeps
  <2>2. s # "done" /\ req[r].kind = "updateTx" /\ x = req[r].tx
    BY <1>2, <2>1 DEF Holds, HoldsTx
  <2>3. Holds(r, x)
    BY <2>2 DEF Holds
  <2>4. QED
    BY <1>1, <2>1, <2>2, <2>3 DEF Keeps
<1>8. QED
  BY <1>4, <1>5, <1>6, <1>7, RevivalOfOne

(* A request at a balance statement adjusts a wallet that exists. *)
LEMMA PayingExisting ==
  ASSUME Control, NEW r \in Reqs, Refers(r), pc[r] \in {"readBalance", "writeBalance"}
  PROVE  Adjusted(r) \in Wallets /\ wallets[Adjusted(r)].state # "absent"
PROOF
<1>1. /\ step[r] \in 1..Len(Adjustments(r)) /\ Adjusted(r) \in Wallets
      /\ Len(Adjustments(r)) = IF req[r].kind = "updateTx" THEN 2 ELSE 1
  BY Paying
<1>2. req[r].kind \in {"createTx", "updateTx", "removeTx"}
  BY DEF Control, Placed, MayBeAt
<1>3. Adjusted(r) \in {req[r].wallet, old[r].wallet}
  <2>1. CASE req[r].kind = "createTx"
    BY <1>1, <2>1 DEF Adjusted, Adjustments
  <2>2. CASE req[r].kind = "updateTx"
    BY <1>1, <2>2 DEF Adjusted, Adjustments, NewWallet, RevertedWallet
  <2>3. CASE req[r].kind = "removeTx"
    BY <1>1, <2>3 DEF Adjusted, Adjustments
  <2>4. QED
    BY <1>2, <2>1, <2>2, <2>3
<1>4. QED
  BY <1>1, <1>2, <1>3, RefsAssumption DEF Refers

LEMMA WriteBalanceRevival ==
  ASSUME Revival, Silence', NEW r \in Reqs, WriteBalance(r)
  PROVE  Revival'
PROOF
<1>1. /\ UNCHANGED <<req, old, type, categories, txs, bystanders>> /\ pc[r] = "writeBalance"
      /\ Control /\ TypeOK /\ NextAdjustment(r)
  BY DEF WriteBalance, Revival, Silence, Control
<1>2. PICK s \in {"readBalance", "saveTx", "softRemoveTx", "done"} : Goto(r, s)
  BY <1>1, NextAdjustmentPlace
<1>3. \A q \in Reqs \ {r} : step'[q] = step[q]
  BY <1>1, NextAdjustmentPlace
<1>4. Adjusted(r) \in Wallets /\ wallets[Adjusted(r)].state # "absent"
  BY <1>1, PayingExisting DEF Revival
<1>5. /\ wallets'[Adjusted(r)].state = "live"
      /\ \A w \in Wallets \ {Adjusted(r)} : wallets'[w] = wallets[w]
  BY <1>1, <1>4 DEF WriteBalance, TypeOK
<1>6. \A w \in Wallets : (wallets[w].state # "absent") <=> (wallets'[w].state # "absent")
  BY <1>4, <1>5
<1>7. \A x \in Rows : Deleted(x)' => Deleted(x) /\ bystanders'[x] = bystanders[x]
  BY <1>1, <1>5 DEF Deleted
<1>8. pc[r] \in HoldsTx
  BY <1>1 DEF HoldsTx
<1>9. QED
  BY <1>1, <1>2, <1>3, <1>6, <1>7, <1>8, WriteRevival

LEMMA SaveTxRevival ==
  ASSUME Revival, Silence', NEW r \in Reqs, SaveTx(r) \/ InsertTx(r)
  PROVE  Revival'
PROOF
<1>1. /\ UNCHANGED <<req, old, type, step, wallets, categories, bystanders>>
      /\ TypeOK
      /\ req[r].kind = "updateTx" => SaveTx(r)
  BY DEF SaveTx, InsertTx, Revival, Silence, Control, Placed, MayBeAt
<1>2. PICK s \in {"readBalance", "saveTx", "softRemoveTx", "done"} :
        Goto(r, s) /\ (SaveTx(r) => s = "done")
  BY DEF SaveTx, InsertTx, AfterInsert
<1>3. \A t \in TxIds : txs'[t].state = "deleted" => txs[t].state = "deleted"
  <2>1. PICK t \in {req[r].tx, r} : \E row : txs' = [txs EXCEPT ![t] = row] /\ row.state = "live"
    BY DEF SaveTx, InsertTx
  <2>2. QED
    BY <1>1, <2>1 DEF TypeOK
<1>4. \A x \in Rows : Deleted(x)' => Deleted(x) /\ bystanders'[x] = bystanders[x]
  BY <1>1, <1>3 DEF Deleted
<1>5. QED
  BY <1>1, <1>2, <1>4, WriteRevival

LEMMA SoftRemoveTxRevival ==
  ASSUME Revival, Silence', NEW r \in Reqs, SoftRemoveTx(r)
  PROVE  Revival'
PROOF
<1>1. /\ UNCHANGED <<req, old, type, step, wallets, categories>> /\ Goto(r, "done")
      /\ Deleting(r, req[r].tx) /\ TypeOK /\ req[r].tx \in TxIds
  BY DEF SoftRemoveTx, Revival, Silence, Control, Placed, Shaped, MayBeAt
<1>2. \A t \in TxIds \ {req[r].tx} : txs'[t] = txs[t]
  BY <1>1 DEF SoftRemoveTx, TypeOK
<1>3. /\ bystanders'[req[r].tx] = InFlight \ {r}
      /\ \A x \in Rows \ {req[r].tx} : bystanders'[x] = bystanders[x]
  BY <1>1 DEF Deleting, TypeOK, Rows, TxIds
<1>4. \A x \in Rows \ {req[r].tx} : Deleted(x)' => Deleted(x)
  BY <1>1, <1>2 DEF Deleted
<1>5. QED
  BY <1>1, <1>3, <1>4, WriteRevival

LEMMA WalletRevival ==
  ASSUME Revival, Silence', NEW r \in Reqs, InsertWallet(r) \/ SaveWallet(r) \/ DeleteWallet(r)
  PROVE  Revival'
PROOF
<1> DEFINE w == req[r].wallet
<1>1. /\ UNCHANGED <<req, old, type, step, categories, txs>> /\ Goto(r, "done")
      /\ Control /\ TypeOK /\ Refers(r)
  BY DEF InsertWallet, SaveWallet, DeleteWallet, Revival, Silence, Control
<1>2. /\ w \in Wallets
      /\ req[r].kind = "createWallet" => pc[r] = "insertWallet"
  BY <1>1 DEF InsertWallet, SaveWallet, DeleteWallet, Control, Placed, Shaped, MayBeAt, WalletKinds
<1>3. wallets[w].state = "absent" => pc[r] = "insertWallet"
  BY <1>1, <1>2, RefsAssumption DEF Refers
<1>4. /\ \A v \in Wallets \ {w} : wallets'[v] = wallets[v]
      /\ wallets'[w].state # "absent"
  BY <1>1, <1>2 DEF InsertWallet, SaveWallet, DeleteWallet, TypeOK, WalletRow
<1>5. \A v \in Wallets : wallets[v].state # "absent" => wallets'[v].state # "absent"
  BY <1>4
<1>6. \A v \in Wallets : wallets[v].state = "absent" /\ wallets'[v].state # "absent" =>
        pc[r] = "insertWallet" /\ v = w
  BY <1>3, <1>4
<1>7. w \in Rows
  BY <1>2 DEF Rows
<1>8. /\ \A x \in Rows \ {w} : bystanders'[x] = bystanders[x]
      /\ \/ wallets'[w].state = "live" /\ UNCHANGED bystanders
         \/ bystanders'[w] = InFlight \ {r}
  BY <1>1, <1>2, <1>7 DEF InsertWallet, SaveWallet, DeleteWallet, Deleting, TypeOK
<1>9. \A x \in Rows \ {w} : Deleted(x)' => Deleted(x)
  BY <1>1, <1>4 DEF Deleted
<1>10. wallets'[w].state = "live" => \A x \in Rows : x = w => ~Deleted(x)'
  BY <1>2, IdsAssumption DEF Deleted
<1>11. \A x \in Rows : Deleted(x)' => \/ Deleted(x) /\ bystanders'[x] = bystanders[x]
                                     \/ bystanders'[x] = InFlight \ {r}
  BY <1>8, <1>9, <1>10
<1>12. QED
  BY <1>1, <1>5, <1>6, <1>11, WriteRevival

LEMMA CategoryRevival ==
  ASSUME Revival, Silence', NEW r \in Reqs,
         InsertCategory(r) \/ SaveCategory(r) \/ DeleteCategory(r)
  PROVE  Revival'
PROOF
<1> DEFINE c == req[r].category
<1>1. /\ UNCHANGED <<req, old, type, step, wallets, txs>> /\ Goto(r, "done")
      /\ Control /\ TypeOK /\ Refers(r)
  BY DEF InsertCategory, SaveCategory, DeleteCategory, Revival, Silence, Control
<1>2. /\ c \in Categories
      /\ req[r].kind = "createCategory" => pc[r] = "insertCategory"
  BY <1>1 DEF InsertCategory, SaveCategory, DeleteCategory, Control, Placed, Shaped, MayBeAt, CategoryKinds
<1>3. categories[c].state = "absent" => pc[r] = "insertCategory"
  BY <1>1, <1>2, RefsAssumption DEF Refers
<1>4. /\ \A v \in Categories \ {c} : categories'[v] = categories[v]
      /\ categories'[c].state # "absent"
  BY <1>1, <1>2 DEF InsertCategory, SaveCategory, DeleteCategory, TypeOK, CategoryRow
<1>5. \A v \in Categories : categories[v].state # "absent" => categories'[v].state # "absent"
  BY <1>4
<1>6. \A v \in Categories : categories[v].state = "absent" /\ categories'[v].state # "absent" =>
        pc[r] = "insertCategory" /\ v = c
  BY <1>3, <1>4
<1>7. c \in Rows
  BY <1>2 DEF Rows
<1>8. /\ \A x \in Rows \ {c} : bystanders'[x] = bystanders[x]
      /\ \/ categories'[c].state = "live" /\ UNCHANGED bystanders
         \/ bystanders'[c] = InFlight \ {r}
  BY <1>1, <1>2, <1>7 DEF InsertCategory, SaveCategory, DeleteCategory, Deleting, TypeOK
<1>9. \A x \in Rows \ {c} : Deleted(x)' => Deleted(x)
  BY <1>1, <1>4 DEF Deleted
<1>10. categories'[c].state = "live" => \A x \in Rows : x = c => ~Deleted(x)'
  BY <1>2, IdsAssumption DEF Deleted
<1>11. \A x \in Rows : Deleted(x)' => \/ Deleted(x) /\ bystanders'[x] = bystanders[x]
                                     \/ bystanders'[x] = InFlight \ {r}
  BY <1>8, <1>9, <1>10
<1>12. QED
  BY <1>1, <1>5, <1>6, <1>11, WriteRevival

-----------------------------------------------------------------------------
(* The invariant and the theorem *)

LEMMA InitRevival == Init => Revival
PROOF
<1>1. SUFFICES ASSUME Init PROVE Revival
  OBVIOUS
<1>2. Silence
  BY <1>1, InitSilence
<1>3. ASSUME NEW r \in Reqs PROVE Refers(r) /\ Reserves(r) /\ Keeps(r)
  BY <1>1 DEF Init, Blank, NoTx, Refers, Reserves, Keeps, Holds, HoldsTx
<1>4. QED
  BY <1>2, <1>3 DEF Revival

LEMMA NextRevival == Revival /\ [Next]_vars => Revival'
PROOF
<1>1. SUFFICES ASSUME Revival, [Next]_vars PROVE Revival'
  OBVIOUS
<1>2. Silence'
  BY <1>1, NextSilence DEF Revival
<1>3. CASE UNCHANGED vars \/ Rest
  <2>1. UNCHANGED vars
    BY <1>3 DEF Rest
  <2>2. \A r \in Reqs : (Refers(r) /\ Reserves(r) /\ Keeps(r))'
    BY <1>1, <2>1 DEF vars, Revival, Refers, Reserves, Keeps, Holds, Deleted, Adjusted, Adjustments,
                      NewWallet, RevertedWallet
  <2>3. QED
    BY <1>2, <2>2 DEF Revival
<1>4. ASSUME NEW r \in Reqs, Start(r) \/ Statement(r) \/ Abort(r) PROVE Revival'
  <2>1. CASE Start(r)
    BY <1>1, <1>2, <2>1, StartRevival
  <2>2. CASE FindTx(r)
    BY <1>1, <1>2, <2>2, FindTxRevival
  <2>3. CASE FindCategory(r)
    BY <1>1, <1>2, <2>3, FindCategoryRevival
  <2>4. CASE FindWallet(r)
    BY <1>1, <1>2, <2>4, FindWalletRevival
  <2>5. CASE FindGroupAndAddExpense(r)
    BY <1>1, <1>2, <2>5, GroupRevival
  <2>6. CASE ReadBalance(r)
    BY <1>1, <1>2, <2>6, ReadBalanceRevival
  <2>7. CASE WriteBalance(r)
    BY <1>1, <1>2, <2>7, WriteBalanceRevival
  <2>8. CASE InsertTx(r) \/ SaveTx(r)
    BY <1>1, <1>2, <2>8, SaveTxRevival
  <2>9. CASE SoftRemoveTx(r)
    BY <1>1, <1>2, <2>9, SoftRemoveTxRevival
  <2>10. CASE InsertWallet(r) \/ SaveWallet(r) \/ DeleteWallet(r)
    BY <1>1, <1>2, <2>10, WalletRevival
  <2>11. CASE InsertCategory(r) \/ SaveCategory(r) \/ DeleteCategory(r)
    BY <1>1, <1>2, <2>11, CategoryRevival
  <2>12. CASE Abort(r)
    BY <1>1, <1>2, <2>12, AbortRevival
  <2>13. QED
    BY <1>4, <2>1, <2>2, <2>3, <2>4, <2>5, <2>6, <2>7, <2>8, <2>9, <2>10, <2>11, <2>12
       DEF Statement
<1>5. QED
  BY <1>1, <1>3, <1>4 DEF Next

(* The only steps that clear a deletion mark are the saves of requests that   *)
(* hold the row, and each of them leaves its place.                          *)
LEMMA OnlyHoldersRevive ==
  ASSUME Revival, NEW r \in Reqs, Start(r) \/ Statement(r) \/ Abort(r),
         NEW x \in Rows, Deleted(x), ~Deleted(x)'
  PROVE  Holds(r, x) /\ pc'[r] # pc[r]
PROOF
<1>1. Control /\ TypeOK /\ Placed(r) /\ Refers(r) /\ Reserves(r) /\ Quiet(r)
  BY DEF Revival, Silence, Control
<1>2. ~UNCHANGED <<wallets, categories, txs>>
  BY DEF Deleted
<1>3. CASE WriteBalance(r)
  <2>1. pc[r] = "writeBalance" /\ NextAdjustment(r) /\ UNCHANGED <<categories, txs>>
    BY <1>3 DEF WriteBalance
  <2>2. PICK s \in {"readBalance", "saveTx", "softRemoveTx", "done"} : Goto(r, s)
    BY <1>1, <2>1, NextAdjustmentPlace
  <2>3. \A w \in Wallets : w # Adjusted(r) => wallets'[w] = wallets[w]
    BY <1>1, <1>3 DEF WriteBalance, TypeOK
  <2>4. x = Adjusted(r)
    BY <2>1, <2>3 DEF Deleted
  <2>5. QED
    BY <1>1, <2>1, <2>2, <2>4 DEF Holds, Goto, TypeOK
<1>4. CASE SaveTx(r)
  <2>1. pc[r] = "saveTx" /\ req[r].kind = "updateTx" /\ pc'[r] = "done" /\ UNCHANGED <<wallets, categories>>
    BY <1>1, <1>4 DEF SaveTx, Placed, MayBeAt, Goto, TypeOK
  <2>2. \A t \in TxIds : t # req[r].tx => txs'[t] = txs[t]
    BY <1>1, <1>4 DEF SaveTx, TypeOK
  <2>3. x = req[r].tx
    BY <2>1, <2>2 DEF Deleted
  <2>4. QED
    BY <2>1, <2>3 DEF Holds, HoldsTx
<1>5. CASE InsertTx(r)
  <2>1. txs[r].state = "absent" /\ UNCHANGED <<wallets, categories>>
    BY <1>1, <1>5 DEF InsertTx, Quiet
  <2>2. \A t \in TxIds : t # r => txs'[t] = txs[t]
    BY <1>1, <1>5 DEF InsertTx, TypeOK
  <2>3. QED
    BY <2>1, <2>2 DEF Deleted
<1>6. CASE SaveWallet(r) \/ InsertWallet(r)
  <2>1. pc'[r] = "done" /\ UNCHANGED <<txs, categories>> /\ pc[r] \in {"saveWallet", "insertWallet"}
    BY <1>1, <1>6 DEF SaveWallet, InsertWallet, Goto, TypeOK
  <2>2. \A w \in Wallets : w # req[r].wallet => wallets'[w] = wallets[w]
    BY <1>1, <1>6 DEF SaveWallet, InsertWallet, TypeOK
  <2>3. x = req[r].wallet /\ wallets[x].state = "deleted"
    BY <2>1, <2>2 DEF Deleted
  <2>4. pc[r] # "insertWallet"
    BY <1>1, <2>3 DEF Reserves
  <2>5. QED
    BY <2>1, <2>3, <2>4 DEF Holds
<1>7. CASE SaveCategory(r) \/ InsertCategory(r)
  <2>1. pc'[r] = "done" /\ UNCHANGED <<txs, wallets>> /\ pc[r] \in {"saveCategory", "insertCategory"}
    BY <1>1, <1>7 DEF SaveCategory, InsertCategory, Goto, TypeOK
  <2>2. \A c \in Categories : c # req[r].category => categories'[c] = categories[c]
    BY <1>1, <1>7 DEF SaveCategory, InsertCategory, TypeOK
  <2>3. x = req[r].category /\ categories[x].state = "deleted"
    BY <2>1, <2>2 DEF Deleted
  <2>4. pc[r] # "insertCategory"
    BY <1>1, <2>3 DEF Reserves
  <2>5. QED
    BY <2>1, <2>3, <2>4 DEF Holds
<1>8. CASE SoftRemoveTx(r)
  <2>1. UNCHANGED <<wallets, categories>> /\ \A t \in TxIds : txs[t].state = "deleted" => txs'[t].state = "deleted"
    BY <1>1, <1>8 DEF SoftRemoveTx, TypeOK, TxRow
  <2>2. QED
    BY <2>1 DEF Deleted
<1>9. CASE DeleteWallet(r)
  <2>1. UNCHANGED <<txs, categories>> /\ \A w \in Wallets : wallets[w].state = "deleted" => wallets'[w].state = "deleted"
    BY <1>1, <1>9 DEF DeleteWallet, TypeOK, WalletRow
  <2>2. QED
    BY <2>1 DEF Deleted
<1>10. CASE DeleteCategory(r)
  <2>1. /\ UNCHANGED <<txs, wallets>>
        /\ \A c \in Categories : categories[c].state = "deleted" => categories'[c].state = "deleted"
    BY <1>1, <1>10 DEF DeleteCategory, TypeOK, CategoryRow
  <2>2. QED
    BY <2>1 DEF Deleted
<1>11. CASE \/ Start(r) \/ Abort(r) \/ FindTx(r) \/ FindCategory(r) \/ FindWallet(r)
            \/ FindGroupAndAddExpense(r) \/ ReadBalance(r)
  BY <1>2, <1>11 DEF Start, Abort, FindTx, FindCategory, FindWallet, FindGroupAndAddExpense,
                     ReadBalance, db
<1>12. QED
  BY <1>3, <1>4, <1>5, <1>6, <1>7, <1>8, <1>9, <1>10, <1>11 DEF Statement

(* A deleted row of any table comes back only through a statement of a        *)
(* request that was in flight at the deletion: a request that starts later   *)
(* never finds the row, so it cannot save it.                                *)
THEOREM OnlyBystandersRevive == Spec => ReviveOnlyByBystander
PROOF
<1> DEFINE Step == \A x \in Rows : Deleted(x) /\ ~Deleted(x)' =>
                     \E r \in bystanders[x] : pc'[r] # pc[r]
<1>1. Revival /\ [Next]_vars => [Step]_vars
  <2>1. SUFFICES ASSUME Revival, Next, NEW x \in Rows, Deleted(x), ~Deleted(x)'
                 PROVE  \E r \in bystanders[x] : pc'[r] # pc[r]
    OBVIOUS
  <2>2. CASE Rest
    BY <2>1, <2>2 DEF Rest, vars, Deleted
  <2>3. CASE \E r \in Reqs : Start(r) \/ Statement(r) \/ Abort(r)
    <3>1. PICK r \in Reqs : Start(r) \/ Statement(r) \/ Abort(r)
      BY <2>3
    <3>2. Holds(r, x) /\ pc'[r] # pc[r]
      BY <2>1, <3>1, OnlyHoldersRevive
    <3>3. r \in bystanders[x]
      BY <2>1, <3>2 DEF Revival, Keeps
    <3>4. QED
      BY <3>2, <3>3
  <2>4. QED
    BY <2>1, <2>2, <2>3 DEF Next
<1>2. QED
  BY <1>1, InitRevival, NextRevival, PTL DEF Spec, ReviveOnlyByBystander

-----------------------------------------------------------------------------
(* Signs.  The type that a request has looked up is the one its transaction   *)
(* will be judged by, unless the category was edited in the meantime.         *)

Retyped(c) ==
  \E r \in Reqs : req[r].kind = "updateCategory" /\ req[r].category = c /\ pc[r] = "done"

Exists(c) == c \in Categories /\ categories[c].state # "absent"

Agrees(c, ty) == Exists(c) /\ (Retyped(c) \/ categories[c].type = ty)

HasSign(ty, a) == IF ty = Income THEN a >= 0 ELSE a <= 0

Filed(c, a) == \/ c = NoRef /\ a <= 0
               \/ \E ty \in Types : Agrees(c, ty) /\ HasSign(ty, a)

(* What r knows of the category its transaction will be in.                   *)
Knows(r) ==
  /\ pc[r] = "idle" \/ (req[r].kind = "createTx" /\ req[r].category = NoRef) => type[r] = Expense
  /\ req[r].kind = "createTx" /\ req[r].category # NoRef /\ pc[r] \in {"findWallet", "group", "insertTx"} =>
       Agrees(req[r].category, type[r])
  /\ req[r].kind = "updateTx" /\ pc[r] \in HoldsTx =>
       Exists(old[r].category) /\ (pc[r] # "findCategory" => Agrees(NewCategory(r), type[r]))

Signs ==
  /\ \A t \in TxIds : txs[t].state # "absent" => Filed(txs[t].category, txs[t].amount)
  /\ \A r \in Reqs : Knows(r)

Signing == Revival /\ Signs

-----------------------------------------------------------------------------
(* What a step of r does to the categories: those that exist stay, and keep   *)
(* their types but for an edit that is now done.                              *)

TypesFrame ==
  \A c : Exists(c) => /\ Exists(c)'
                      /\ Retyped(c) => Retyped(c)'
                      /\ categories'[c].type = categories[c].type \/ Retyped(c)'

LEMMA SignOfAmount ==
  ASSUME NEW a \in Int, NEW ty \in Types
  PROVE  HasSign(ty, SignedAmount(a, ty))
BY DEF HasSign, SignedAmount, Magnitude

LEMMA AgreesStays ==
  ASSUME TypesFrame, NEW c, NEW ty, Agrees(c, ty)
  PROVE  Agrees(c, ty)'
BY DEF TypesFrame, Agrees

LEMMA FiledStays ==
  ASSUME TypesFrame, NEW c, NEW a, Filed(c, a)
  PROVE  Filed(c, a)'
PROOF
<1>1. CASE c = NoRef /\ a <= 0
  BY <1>1 DEF Filed
<1>2. ASSUME NEW ty \in Types, Agrees(c, ty), HasSign(ty, a) PROVE Filed(c, a)'
  <2>1. Agrees(c, ty)'
    BY <1>2, AgreesStays
  <2>2. QED
    BY <1>2, <2>1 DEF Filed, HasSign
<1>3. QED
  BY <1>1, <1>2 DEF Filed

(* An amount with the sign of the type that r knows may be stored.            *)
LEMMA Storable ==
  ASSUME TypeOK, NEW r \in Reqs, NEW c, Agrees(c, type[r]) \/ (c = NoRef /\ type[r] = Expense)
  PROVE  Filed(c, SignedAmount(req[r].amount, type[r]))
PROOF
<1>1. req[r].amount \in Int /\ type[r] \in Types
  BY DEF TypeOK, Request
<1>2. HasSign(type[r], SignedAmount(req[r].amount, type[r]))
  BY <1>1, SignOfAmount
<1>3. CASE Agrees(c, type[r])
  BY <1>1, <1>2, <1>3 DEF Filed
<1>4. CASE c = NoRef /\ type[r] = Expense
  BY <1>2, <1>4 DEF Filed, HasSign, Income, Expense
<1>5. QED
  BY <1>3, <1>4

LEMMA KnowsStays ==
  ASSUME TypesFrame, NEW q \in Reqs, Knows(q), req'[q] = req[q], old'[q] = old[q], type'[q] = type[q],
         pc'[q] = "idle" => pc[q] = "idle",
         req[q].kind = "createTx" /\ pc'[q] \in {"findWallet", "group", "insertTx"} =>
           pc[q] \in {"findWallet", "group", "insertTx"},
         req[q].kind = "updateTx" /\ pc'[q] \in HoldsTx =>
           pc[q] \in HoldsTx /\ (pc[q] = "findCategory" => pc'[q] = "findCategory")
  PROVE  Knows(q)'
PROOF
<1>1. NewCategory(q)' = NewCategory(q)
  BY DEF NewCategory
<1>2. Exists(old[q].category) => Exists(old[q].category)'
  BY DEF TypesFrame, Exists
<1>3. Agrees(NewCategory(q), type[q]) => Agrees(NewCategory(q), type[q])'
  <2> PICK c, ty : c = NewCategory(q) /\ ty = type[q]
    OBVIOUS
  <2>1. Agrees(c, ty) => Agrees(c, ty)'
    BY AgreesStays
  <2>2. QED
    BY <1>1, <2>1
<1>4. Agrees(req[q].category, type[q]) => Agrees(req[q].category, type[q])'
  <2> PICK c, ty : c = req[q].category /\ ty = type[q]
    OBVIOUS
  <2>1. Agrees(c, ty) => Agrees(c, ty)'
    BY AgreesStays
  <2>2. QED
    BY <2>1
<1>5. QED
  BY <1>2, <1>3, <1>4 DEF Knows

(* A step preserves the signs if it files what it stores.                     *)
LEMMA SignsOfOne ==
  ASSUME Signing, NEW r \in Reqs, TypesFrame,
         \A q \in Reqs \ {r} : /\ pc'[q] = pc[q] /\ req'[q] = req[q]
                               /\ old'[q] = old[q] /\ type'[q] = type[q],
         \A t \in TxIds : txs'[t].state # "absent" =>
           \/ txs[t].state # "absent" /\ txs'[t].category = txs[t].category /\ txs'[t].amount = txs[t].amount
           \/ Filed(txs'[t].category, txs'[t].amount),
         Knows(r)'
  PROVE  Signs'
PROOF
<1>1. ASSUME NEW q \in Reqs PROVE Knows(q)'
  <2>1. CASE q = r
    BY <2>1
  <2>2. CASE q # r
    <3>1. Knows(q)
      BY DEF Signing, Signs
    <3>2. QED
      BY <2>2, <3>1, KnowsStays
  <2>3. QED
    BY <2>1, <2>2
<1>2. ASSUME NEW t \in TxIds, txs'[t].state # "absent" PROVE Filed(txs[t].category, txs[t].amount)'
  <2> PICK c, a : c = txs'[t].category /\ a = txs'[t].amount
    OBVIOUS
  <2>1. Filed(c, a)
    BY <1>2 DEF Signing, Signs
  <2>2. QED
    BY <2>1, FiledStays
<1>3. QED
  BY <1>1, <1>2 DEF Signs

-----------------------------------------------------------------------------
(* The steps of a request *)

(* A step that leaves the categories alone forgets no edit.                   *)
LEMMA SameTypes ==
  ASSUME UNCHANGED categories,
         \A q \in Reqs : pc[q] = "done" => pc'[q] = "done" /\ req'[q] = req[q]
  PROVE  TypesFrame
BY DEF TypesFrame, Exists, Retyped

LEMMA StartSigns ==
  ASSUME Signing, NEW r \in Reqs, Start(r)
  PROVE  Signs'
PROOF
<1>1. PICK k \in Kinds : \E q \in Requests(k) :
        req' = [req EXCEPT ![r] = q] /\ Goto(r, FirstStatement(q))
  BY DEF Start
<1>2. PICK q \in Requests(k) : req' = [req EXCEPT ![r] = q] /\ Goto(r, FirstStatement(q))
  BY <1>1
<1>3. /\ TypeOK /\ Knows(r) /\ pc[r] = "idle"
      /\ UNCHANGED <<categories, txs, old, type>>
  BY DEF Start, Signing, Signs, Revival, Silence, Control, db, hist
<1>4. q \in Request /\ q.kind \in ReqKinds
  BY <1>3, RequestShape, KindsAssumption
<1>5. /\ req'[r] = q /\ pc'[r] = FirstStatement(q)
      /\ \A p \in Reqs \ {r} : req'[p] = req[p] /\ pc'[p] = pc[p]
  BY <1>2, <1>3 DEF Goto, TypeOK
<1>6. TypesFrame
  BY <1>3, <1>5, SameTypes
<1>7. Knows(r)'
  <2>1. type'[r] = Expense
    BY <1>3 DEF Knows
  <2>2. q.kind = "updateTx" => FirstStatement(q) = "findTx"
    BY <1>4, StartPlace DEF FirstStatement
  <2>3. q.kind = "createTx" /\ q.category # NoRef => FirstStatement(q) = "findCategory"
    BY DEF FirstStatement, CategoryLookup, NoTx
  <2>4. QED
    BY <1>5, <2>1, <2>2, <2>3 DEF Knows, HoldsTx
<1>8. QED
  BY <1>3, <1>5, <1>6, <1>7, SignsOfOne DEF Signing, Signs

LEMMA FindTxSigns ==
  ASSUME Signing, NEW r \in Reqs, FindTx(r)
  PROVE  Signs'
PROOF
<1>1. /\ TypeOK /\ Knows(r) /\ pc[r] = "findTx" /\ req[r].kind \in {"updateTx", "removeTx"}
      /\ req[r].tx \in TxIds /\ UNCHANGED <<categories, txs, req>>
  BY DEF FindTx, Signing, Signs, Revival, Silence, Control, Placed, Shaped, MayBeAt, db
<1>2. \A q \in Reqs \ {r} : pc'[q] = pc[q] /\ old'[q] = old[q] /\ type'[q] = type[q]
  BY <1>1 DEF FindTx, Goto, TypeOK
<1>3. TypesFrame
  BY <1>1, <1>2, SameTypes
<1>4. Knows(r)'
  <2>1. CASE ~Live(txs, req[r].tx)
    <3>1. pc'[r] = "failed"
      BY <1>1, <2>1 DEF FindTx, Goto, TypeOK
    <3>2. QED
      BY <1>1, <3>1 DEF Knows, HoldsTx
  <2>2. CASE Live(txs, req[r].tx)
    <3> PICK o : o = LoadTx(req[r].tx)
      OBVIOUS
    <3>1. old'[r] = o /\ type'[r] = o.type /\ pc'[r] = AfterTx(req[r], o)
      BY <1>1, <2>2 DEF FindTx, Goto, TypeOK
    <3>2. o.category # NoRef => Exists(o.category) /\ categories[o.category].type = o.type
      <4>1. txs[req[r].tx].category \in Categories \cup {NoRef}
        BY <1>1 DEF TypeOK, TxRow, CategoryRefs
      <4>2. QED
        BY <4>1 DEF LoadTx, Live, Exists
    <3>3. pc'[r] # "idle"
      BY <1>1, <3>1 DEF AfterTx, CategoryLookup, WalletLookup
    <3>4. ASSUME req[r].kind = "updateTx", pc'[r] \in HoldsTx
          PROVE  Exists(o.category) /\ (pc'[r] # "findCategory" => NewCategory(r)' = o.category)
      <4>1. o.category # NoRef
        BY <3>1, <3>4 DEF AfterTx, CategoryLookup, HoldsTx
      <4>2. ASSUME pc'[r] # "findCategory" PROVE req[r].category \in {NoRef, o.category}
        BY <3>1, <3>4, <4>1, <4>2 DEF AfterTx, CategoryLookup
      <4>3. QED
        BY <1>1, <3>1, <3>2, <4>1, <4>2 DEF NewCategory
    <3>5. Exists(o.category)' = Exists(o.category)
      BY <1>1 DEF Exists
    <3>6. ASSUME req[r].kind = "updateTx", pc'[r] \in HoldsTx, pc'[r] # "findCategory"
          PROVE  Agrees(NewCategory(r), type[r])'
      <4>1. Agrees(o.category, o.type)
        <5>1. Exists(o.category)
          BY <3>4, <3>6
        <5>2. categories[o.category].type = o.type
          BY <3>2, <5>1, RefsAssumption DEF Exists
        <5>3. QED
          BY <5>1, <5>2 DEF Agrees
      <4>2. Agrees(o.category, o.type)'
        BY <1>3, <4>1, AgreesStays
      <4>3. QED
        BY <3>1, <3>4, <3>6, <4>2
    <3>7. QED
      BY <1>1, <3>1, <3>3, <3>4, <3>5, <3>6 DEF Knows
  <2>3. QED
    BY <2>1, <2>2
<1>5. QED
  BY <1>1, <1>2, <1>3, <1>4, SignsOfOne DEF Signing, Signs

LEMMA FindCategorySigns ==
  ASSUME Signing, NEW r \in Reqs, FindCategory(r)
  PROVE  Signs'
PROOF
<1> DEFINE c == req[r].category
<1>1. /\ TypeOK /\ Knows(r) /\ pc[r] = "findCategory" /\ c \in Categories
      /\ UNCHANGED <<categories, txs, req, old>>
  BY DEF FindCategory, Signing, Signs, Revival, Silence, Control, Placed, MayBeAt, db
<1>2. \A q \in Reqs \ {r} : pc'[q] = pc[q] /\ type'[q] = type[q]
  BY <1>1 DEF FindCategory, Goto, TypeOK
<1>3. TypesFrame
  BY <1>1, <1>2, SameTypes
<1>4. Knows(r)'
  <2>1. CASE ~Live(categories, c)
    <3>1. pc'[r] = "failed" /\ type' = type
      BY <1>1, <2>1 DEF FindCategory, Goto, TypeOK
    <3>2. QED
      BY <1>1, <3>1 DEF Knows, HoldsTx
  <2>2. CASE Live(categories, c)
    <3>1. type'[r] = categories[c].type /\ pc'[r] = AfterCategory(req[r], old[r])
      BY <1>1, <2>2 DEF FindCategory, Goto, TypeOK
    <3>2. c # NoRef /\ pc'[r] # "idle"
      BY <1>1, <3>1, RefsAssumption DEF AfterCategory, WalletLookup
    <3>3. Agrees(c, categories[c].type)
      BY <1>1, <2>2 DEF Agrees, Exists, Live
    <3>4. Agrees(c, type[r])'
      BY <1>1, <3>1, <3>3 DEF Agrees, Exists
    <3>5. req[r].kind = "updateTx" => NewCategory(r)' = c /\ Exists(old[r].category)
      BY <1>1, <3>2 DEF NewCategory, Knows, HoldsTx
    <3>6. QED
      BY <1>1, <1>3, <3>2, <3>4, <3>5 DEF Knows, TypesFrame
  <2>3. QED
    BY <2>1, <2>2
<1>5. QED
  BY <1>1, <1>2, <1>3, <1>4, SignsOfOne DEF Signing, Signs


(* A step to s by r that leaves its request and what it has loaded alone, and *)
(* reaches no statement that knows more than the one it comes from.           *)
LEMMA StepSigns ==
  ASSUME Signing, NEW r \in Reqs, UNCHANGED <<req, old, type>>, TypesFrame,
         NEW s \in Places \ {"idle"}, Goto(r, s),
         req[r].kind = "createTx" /\ s \in {"findWallet", "group", "insertTx"} =>
           pc[r] \in {"findWallet", "group", "insertTx"},
         req[r].kind = "updateTx" /\ s \in HoldsTx => pc[r] \in HoldsTx \ {"findCategory"},
         \A t \in TxIds : txs'[t].state # "absent" =>
           \/ txs[t].state # "absent" /\ txs'[t].category = txs[t].category /\ txs'[t].amount = txs[t].amount
           \/ Filed(txs'[t].category, txs'[t].amount)
  PROVE  Signs'
PROOF
<1>1. /\ pc'[r] = s /\ Knows(r)
      /\ \A q \in Reqs \ {r} : pc'[q] = pc[q] /\ req'[q] = req[q] /\ old'[q] = old[q] /\ type'[q] = type[q]
  BY DEF Goto, Signing, Signs, Revival, Silence, Control, TypeOK
<1>2. Knows(r)'
  BY <1>1, KnowsStays
<1>3. QED
  BY <1>1, <1>2, SignsOfOne

(* Only a request that is not done takes a step.                              *)
LEMMA StepTypes ==
  ASSUME TypeOK, NEW r \in Reqs, NEW s, Goto(r, s), pc[r] # "done", UNCHANGED <<req, categories>>
  PROVE  TypesFrame
PROOF
<1>1. \A q \in Reqs : pc[q] = "done" => pc'[q] = "done"
  BY DEF Goto, TypeOK
<1>2. QED
  BY <1>1, SameTypes

LEMMA MoveSigns ==
  ASSUME Signing, NEW r \in Reqs, FindWallet(r) \/ FindGroupAndAddExpense(r) \/ Abort(r)
  PROVE  Signs'
PROOF
<1>1. /\ TypeOK /\ MayBeAt(req[r], old[r], pc[r]) /\ pc[r] # "done"
      /\ UNCHANGED <<req, old, type, categories, txs>>
  BY DEF FindWallet, FindGroupAndAddExpense, Abort, InFlight, Ended, db, Signing, Revival, Silence,
         Control, Placed
<1>2. PICK s \in Places \ {"idle"} :
        /\ Goto(r, s)
        /\ s \in {"findWallet", "group", "insertTx"} => pc[r] \in {"findWallet", "group"}
        /\ req[r].kind = "updateTx" /\ s \in HoldsTx => pc[r] = "findWallet"
  <2>1. CASE FindWallet(r)
    BY <1>1, <2>1 DEF FindWallet, AfterWallet, Places, Statements, Ended, HoldsTx
  <2>2. CASE FindGroupAndAddExpense(r)
    BY <1>1, <2>2 DEF FindGroupAndAddExpense, MayBeAt, Places, Statements, Ended, HoldsTx
  <2>3. CASE Abort(r)
    BY <1>1, <2>3 DEF Abort, Places, Ended, HoldsTx
  <2>4. QED
    BY <2>1, <2>2, <2>3
<1>3. TypesFrame
  BY <1>1, <1>2, StepTypes
<1>4. QED
  BY <1>1, <1>2, <1>3, StepSigns DEF HoldsTx

LEMMA BalanceSigns ==
  ASSUME Signing, NEW r \in Reqs, ReadBalance(r) \/ WriteBalance(r)
  PROVE  Signs'
PROOF
<1>1. /\ TypeOK /\ pc[r] \in {"readBalance", "writeBalance"}
      /\ UNCHANGED <<req, old, type, categories, txs>>
  BY DEF ReadBalance, WriteBalance, db, Signing, Revival, Silence, Control
<1>2. PICK s \in {"readBalance", "writeBalance", "saveTx", "softRemoveTx", "done"} : Goto(r, s)
  BY DEF ReadBalance, WriteBalance, NextAdjustment, AfterBalances
<1>3. TypesFrame
  BY <1>1, <1>2, StepTypes
<1>4. QED
  BY <1>1, <1>2, <1>3, StepSigns DEF HoldsTx, Places, Statements, Ended

LEMMA InsertTxSigns ==
  ASSUME Signing, NEW r \in Reqs, InsertTx(r)
  PROVE  Signs'
PROOF
<1>1. /\ TypeOK /\ Knows(r) /\ pc[r] = "insertTx" /\ req[r].kind = "createTx"
      /\ UNCHANGED <<req, old, type, categories>>
  BY DEF InsertTx, Signing, Signs, Revival, Silence, Control, Placed, MayBeAt
<1>2. PICK s \in {"readBalance", "done"} : Goto(r, s)
  BY DEF InsertTx, AfterInsert
<1>3. TypesFrame
  BY <1>1, <1>2, StepTypes
<1>4. Filed(req[r].category, SignedAmount(req[r].amount, type[r]))
  BY <1>1, Storable DEF Knows
<1>5. \A t \in TxIds : txs'[t] = txs[t] \/ Filed(txs'[t].category, txs'[t].amount)
  <2> PICK a : a = SignedAmount(req[r].amount, type[r])
    OBVIOUS
  <2>1. txs' = [txs EXCEPT ![r] = [state |-> "live", amount |-> a, category |-> req[r].category,
                                   wallet |-> req[r].wallet]]
    BY DEF InsertTx
  <2>2. QED
    BY <1>1, <1>4, <2>1 DEF TypeOK, TxIds
<1>6. QED
  BY <1>1, <1>2, <1>3, <1>5, StepSigns DEF HoldsTx, Places, Statements, Ended

LEMMA SaveTxSigns ==
  ASSUME Signing, NEW r \in Reqs, SaveTx(r)
  PROVE  Signs'
PROOF
<1>1. /\ TypeOK /\ Knows(r) /\ pc[r] = "saveTx" /\ req[r].kind = "updateTx"
      /\ UNCHANGED <<req, old, type, categories>> /\ Goto(r, "done")
  BY DEF SaveTx, Signing, Signs, Revival, Silence, Control, Placed, MayBeAt
<1>2. TypesFrame
  BY <1>1, StepTypes
<1>3. Filed(NewCategory(r), SignedAmount(req[r].amount, type[r]))
  BY <1>1, Storable DEF Knows, HoldsTx
<1>4. \A t \in TxIds : txs'[t] = txs[t] \/ Filed(txs'[t].category, txs'[t].amount)
  <2> PICK a, c, w : a = SignedAmount(req[r].amount, type[r]) /\ c = NewCategory(r) /\ w = NewWallet(r)
    OBVIOUS
  <2>1. txs' = [txs EXCEPT ![req[r].tx] = [state |-> "live", amount |-> a, category |-> c, wallet |-> w]]
    BY DEF SaveTx
  <2>2. QED
    BY <1>1, <1>3, <2>1 DEF TypeOK
<1>5. QED
  BY <1>1, <1>2, <1>4, StepSigns DEF HoldsTx, Places, Ended

(* Deleting a transaction keeps its row as it was.                            *)
LEMMA SoftRemoveTxSigns ==
  ASSUME Signing, NEW r \in Reqs, SoftRemoveTx(r)
  PROVE  Signs'
PROOF
<1>1. /\ TypeOK /\ pc[r] = "softRemoveTx" /\ txs[req[r].tx].state # "absent"
      /\ UNCHANGED <<req, old, type, categories>> /\ Goto(r, "done")
  BY DEF SoftRemoveTx, Signing, Revival, Silence, NamesTx, Control, Placed, MayBeAt
<1>2. TypesFrame
  BY <1>1, StepTypes
<1>3. \A t \in TxIds : /\ txs'[t].category = txs[t].category /\ txs'[t].amount = txs[t].amount
                       /\ txs[t].state = "absent" => txs'[t].state = "absent"
  <2>1. txs' = [txs EXCEPT ![req[r].tx].state = "deleted"]
    BY DEF SoftRemoveTx
  <2>2. QED
    BY <1>1, <2>1 DEF TypeOK, TxRow
<1>4. QED
  BY <1>1, <1>2, <1>3, StepSigns DEF HoldsTx, Places, Ended

LEMMA WalletSigns ==
  ASSUME Signing, NEW r \in Reqs, InsertWallet(r) \/ SaveWallet(r) \/ DeleteWallet(r)
  PROVE  Signs'
PROOF
<1>1. /\ TypeOK /\ pc[r] # "done"
      /\ UNCHANGED <<req, old, type, categories, txs>> /\ Goto(r, "done")
  BY DEF InsertWallet, SaveWallet, DeleteWallet, Signing, Revival, Silence, Control
<1>2. TypesFrame
  BY <1>1, StepTypes
<1>3. QED
  BY <1>1, <1>2, StepSigns DEF HoldsTx, Places, Ended

(* A type changes by an edit that is done with this step, or under an id that *)
(* nobody has used.                                                           *)
LEMMA CategorySigns ==
  ASSUME Signing, NEW r \in Reqs, InsertCategory(r) \/ SaveCategory(r) \/ DeleteCategory(r)
  PROVE  Signs'
PROOF
<1> DEFINE c == req[r].category
<1>1. /\ TypeOK /\ pc[r] # "done" /\ c \in Categories
      /\ UNCHANGED <<req, old, type, txs>> /\ Goto(r, "done")
      /\ SaveCategory(r) => req[r].kind = "updateCategory"
  BY DEF InsertCategory, SaveCategory, DeleteCategory, Signing, Revival, Silence, Control, Placed, Shaped,
         MayBeAt, CategoryKinds
<1>2. pc'[r] = "done" /\ \A q \in Reqs : pc[q] = "done" => pc'[q] = "done"
  BY <1>1 DEF Goto, TypeOK
<1>3. \A v : Retyped(v) => Retyped(v)'
  BY <1>1, <1>2 DEF Retyped
<1>4. \A v \in Categories \ {c} : categories'[v] = categories[v]
  BY <1>1 DEF InsertCategory, SaveCategory, DeleteCategory, TypeOK
<1>5. ASSUME Exists(c) PROVE Exists(c)' /\ (categories'[c].type = categories[c].type \/ Retyped(c)')
  <2>1. ~InsertCategory(r)
    BY <1>5 DEF InsertCategory, Signing, Revival, Reserves, Exists
  <2>2. CASE SaveCategory(r)
    <3>1. categories'[c].state = "live"
      BY <1>1, <2>2 DEF SaveCategory, TypeOK
    <3>2. Retyped(c)'
      BY <1>1, <1>2, <2>2 DEF Retyped
    <3>3. QED
      BY <1>1, <3>1, <3>2 DEF Exists
  <2>3. CASE DeleteCategory(r)
    <3>1. categories'[c].state = "deleted" /\ categories'[c].type = categories[c].type
      BY <1>1, <2>3 DEF DeleteCategory, TypeOK, CategoryRow
    <3>2. QED
      BY <1>1, <3>1 DEF Exists
  <2>4. QED
    BY <2>1, <2>2, <2>3
<1>6. TypesFrame
  BY <1>1, <1>3, <1>4, <1>5 DEF TypesFrame, Exists
<1>7. QED
  BY <1>1, <1>6, StepSigns DEF HoldsTx, Places, Ended

LEMMA InitSigns == Init => Signs
PROOF
<1>1. SUFFICES ASSUME Init PROVE Signs
  OBVIOUS
<1>2. \A t \in TxIds : txs[t].state = "absent"
  BY <1>1 DEF Init
<1>3. \A r \in Reqs : Knows(r)
  BY <1>1 DEF Init, Blank, Knows, HoldsTx
<1>4. QED
  BY <1>2, <1>3 DEF Signs

LEMMA NextSigns == Signing /\ [Next]_vars => Signs'
PROOF
<1>1. SUFFICES ASSUME Signing, [Next]_vars PROVE Signs'
  OBVIOUS
<1>2. CASE UNCHANGED vars \/ Rest
  <2>1. UNCHANGED <<categories, txs, req, pc, old, type>>
    BY <1>2 DEF Rest, vars
  <2>2. QED
    BY <1>1, <2>1 DEF Signing, Signs, Knows, Filed, Agrees, Exists, Retyped, NewCategory
<1>3. ASSUME NEW r \in Reqs, Start(r) \/ Statement(r) \/ Abort(r) PROVE Signs'
  BY <1>1, <1>3, StartSigns, FindTxSigns, FindCategorySigns, MoveSigns, BalanceSigns, InsertTxSigns,
     SaveTxSigns, SoftRemoveTxSigns, WalletSigns, CategorySigns DEF Statement
<1>4. QED
  BY <1>1, <1>2, <1>3 DEF Next

(* A transaction has the sign of its category's type, in whatever order       *)
(* transactions and categories are made, edited and removed, until an edit of *)
(* the category itself is done; one without a category is spent.             *)
THEOREM SignsFollow == Spec => []SignFollowsCategory
PROOF
<1>1. Signing => SignFollowsCategory
  <2>1. SUFFICES ASSUME Signing, NEW t \in Known(txs)
                 PROVE  LET c == txs[t].category IN
                        \/ c # NoRef /\ Retyped(c)
                        \/ IF c # NoRef /\ categories[c].type = Income THEN txs[t].amount >= 0
                                                                       ELSE txs[t].amount <= 0
    BY DEF SignFollowsCategory, Retyped
  <2> PICK c, a : c = txs[t].category /\ a = txs[t].amount
    OBVIOUS
  <2>2. t \in TxIds /\ txs[t].state # "absent"
    BY <2>1 DEF Known, Signing, Revival, Silence, Control, TypeOK
  <2>3. Filed(c, a)
    BY <2>1, <2>2 DEF Signing, Signs
  <2>4. CASE c = NoRef /\ a <= 0
    BY <2>4
  <2>5. ASSUME NEW ty \in Types, Agrees(c, ty), HasSign(ty, a)
        PROVE \/ c # NoRef /\ Retyped(c)
              \/ IF c # NoRef /\ categories[c].type = Income THEN a >= 0 ELSE a <= 0
    BY <2>5, RefsAssumption DEF Agrees, Exists, HasSign
  <2>6. QED
    BY <2>3, <2>4, <2>5 DEF Filed
<1>2. Init => Signing
  BY InitRevival, InitSigns DEF Signing
<1>3. Signing /\ [Next]_vars => Signing'
  BY NextRevival, NextSigns DEF Signing
<1>4. QED
  BY <1>1, <1>2, <1>3, PTL DEF Spec

-----------------------------------------------------------------------------
(* Balances.  The books balance when nothing is in flight, because at every   *)
(* moment they are out by no more than what the requests in flight have done *)
(* to a balance and not to a row, or to a row and not to a balance.          *)

(* What transaction row counts for wallet w.                                 *)
Share(row, w) == IF row.state = "live" /\ row.wallet = w THEN row.amount ELSE 0

RowsTotal(w) == SumFunction([t \in TxIds |-> Share(txs[t], w)])

(* How far the balance of w is ahead of the rows by the doing of a request q  *)
(* that is at s, in its n-th adjustment, with o and ty loaded: create stores *)
(* the row first, update and remove adjust the balances first.               *)
AheadOf(q, o, ty, s, n, w) ==
  LET new == IF q.wallet # NoRef THEN q.wallet ELSE o.wallet
      signed == SignedAmount(q.amount, ty)
  IN
  CASE q.kind = "createTx" ->
         IF s \in {"readBalance", "writeBalance"} /\ w = q.wallet THEN -signed ELSE 0
    [] q.kind = "updateTx" ->
         (IF s \in {"readBalance", "writeBalance", "saveTx"} /\ (s # "saveTx" => n = 2) /\ w = o.wallet
          THEN -o.amount ELSE 0)
         + (IF s = "saveTx" /\ w = new THEN signed ELSE 0)
    [] q.kind = "removeTx" -> IF s = "softRemoveTx" /\ w = o.wallet THEN -o.amount ELSE 0
    [] OTHER -> 0

Ahead(r, w) == AheadOf(req[r], old[r], type[r], pc[r], step[r], w)

AheadTotal(w) == SumFunction([r \in Reqs |-> Ahead(r, w)])

Balanced ==
  \A w \in Wallets \ drifted : wallets[w].balance = opening[w] + RowsTotal(w) + AheadTotal(w)

(* An adjustment is made, or skipped and known to be, before r is cut short.  *)
Accounted == \A r \in Reqs \ wrote : \A w \in Wallets \ drifted : Ahead(r, w) = 0

(* A wallet has the balance it will open with until it opens.                *)
Unopened == \A w \in Wallets : wallets[w].state = "absent" => wallets[w].balance = opening[w]

Uncounted == \A r \in Reqs : pc[r] \in {"idle", "findTx", "findCategory", "findWallet"} => step[r] = 1

Books == Balanced /\ Accounted /\ Unopened /\ Uncounted

(* Request r has nothing under way.                                          *)
Level(r) ==
  /\ pc[r] \notin {"saveTx", "softRemoveTx"}
  /\ pc[r] \in {"readBalance", "writeBalance"} => req[r].kind \in {"updateTx", "removeTx"} /\ step[r] = 1

LEMMA LevelAhead == ASSUME NEW r, Level(r), NEW w PROVE Ahead(r, w) = 0
PROOF
<1>1. CASE req[r].kind = "createTx"
  BY <1>1 DEF Level, Ahead, AheadOf
<1>2. CASE req[r].kind = "updateTx"
  BY <1>2 DEF Level, Ahead, AheadOf
<1>3. CASE req[r].kind = "removeTx"
  BY <1>3 DEF Level, Ahead, AheadOf
<1>4. CASE req[r].kind \notin {"createTx", "updateTx", "removeTx"}
  BY <1>4 DEF Ahead, AheadOf
<1>5. QED
  BY <1>1, <1>2, <1>3, <1>4

LEMMA AheadIsInteger ==
  ASSUME NEW q \in Request, NEW o \in TxAsLoaded, NEW ty \in Types, NEW s, NEW n, NEW w
  PROVE  AheadOf(q, o, ty, s, n, w) \in Int
PROOF
<1>1. SignedAmount(q.amount, ty) \in Int /\ o.amount \in Int
  BY AmountsAreIntegers DEF Request, TxAsLoaded
<1>2. CASE q.kind = "createTx"
  BY <1>1, <1>2 DEF AheadOf
<1>3. CASE q.kind = "updateTx"
  BY <1>1, <1>3 DEF AheadOf
<1>4. CASE q.kind = "removeTx"
  BY <1>1, <1>4 DEF AheadOf
<1>5. CASE q.kind \notin {"createTx", "updateTx", "removeTx"}
  BY <1>5 DEF AheadOf
<1>6. QED
  BY <1>2, <1>3, <1>4, <1>5

(* A request is ahead on wallets it adjusts only.                            *)
LEMMA AheadAdjusts ==
  ASSUME Control, NEW r \in Reqs, NEW w \in Wallets, Ahead(r, w) # 0
  PROVE  \E a \in Range(Adjustments(r)) : a.wallet = w
PROOF
<1>1. w # NoRef
  BY RefsAssumption
<1>2. CASE req[r].kind = "createTx"
  <2>1. w = req[r].wallet
    BY <1>2 DEF Ahead, AheadOf
  <2>2. Adjustments(r) = <<[wallet |-> req[r].wallet, delta |-> SignedAmount(req[r].amount, type[r])]>>
    BY <1>1, <1>2, <2>1 DEF Adjustments
  <2>3. 1 \in DOMAIN Adjustments(r) /\ Adjustments(r)[1].wallet = w
    BY <2>1, <2>2
  <2>4. QED
    BY <2>3 DEF Range
<1>3. CASE req[r].kind = "updateTx"
  <2>1. w = old[r].wallet \/ w = NewWallet(r)
    BY <1>3 DEF Ahead, AheadOf, NewWallet
  <2>2. Adjustments(r) = <<[wallet |-> RevertedWallet(r), delta |-> Reversal(old[r])],
                           [wallet |-> NewWallet(r), delta |-> SignedAmount(req[r].amount, type[r])]>>
    BY <1>3 DEF Adjustments
  <2>3. /\ 1 \in DOMAIN Adjustments(r) /\ Adjustments(r)[1].wallet = old[r].wallet
        /\ 2 \in DOMAIN Adjustments(r) /\ Adjustments(r)[2].wallet = NewWallet(r)
    BY <2>2 DEF RevertedWallet
  <2>4. QED
    BY <2>1, <2>3 DEF Range
<1>4. CASE req[r].kind = "removeTx"
  <2>1. w = old[r].wallet
    BY <1>4 DEF Ahead, AheadOf
  <2>2. Adjustments(r) = <<[wallet |-> old[r].wallet, delta |-> RemovalDelta(old[r])]>>
    BY <1>4 DEF Adjustments
  <2>3. 1 \in DOMAIN Adjustments(r) /\ Adjustments(r)[1].wallet = w
    BY <2>1, <2>2
  <2>4. QED
    BY <2>3 DEF Range
<1>5. CASE req[r].kind \notin {"createTx", "updateTx", "removeTx"}
  BY <1>5 DEF Ahead, AheadOf
<1>6. QED
  BY <1>2, <1>3, <1>4, <1>5

(* What r is ahead depends on its own locals only.                           *)
LEMMA AheadStays ==
  ASSUME NEW q, pc'[q] = pc[q], req'[q] = req[q], old'[q] = old[q], type'[q] = type[q], step'[q] = step[q], NEW w
  PROVE  Ahead(q, w)' = Ahead(q, w)
BY DEF Ahead

LEMMA ReqsFinite == IsFiniteSet(Reqs) /\ IsFiniteSet(TxIds)
BY FS_Interval, BoundsAssumption DEF Reqs, TxIds

(* A step of r that touches one transaction row keeps the books if what it    *)
(* does to a balance it does to the row, or puts off.                        *)
LEMMA BalancedOfOne ==
  ASSUME Control, Control', Balanced, NEW r \in Reqs, LocalFrame(r), drifted \subseteq drifted',
         NEW t \in TxIds, \A x \in TxIds \ {t} : txs'[x] = txs[x],
         \A w \in Wallets \ drifted' :
           wallets'[w].balance - opening'[w] - Share(txs'[t], w) - Ahead(r, w)' =
             wallets[w].balance - opening[w] - Share(txs[t], w) - Ahead(r, w)
  PROVE  Balanced'
PROOF
<1>1. SUFFICES ASSUME NEW w \in Wallets \ drifted'
               PROVE  wallets'[w].balance = opening'[w] + RowsTotal(w)' + AheadTotal(w)'
  BY DEF Balanced
<1>2. /\ wallets[w].balance \in Int /\ opening[w] \in Int /\ wallets'[w].balance \in Int /\ opening'[w] \in Int
      /\ txs \in [TxIds -> TxRow] /\ txs' \in [TxIds -> TxRow]
  BY DEF Control, TypeOK, WalletRow
<1>3. RowsTotal(w)' = RowsTotal(w) + Share(txs'[t], w) - Share(txs[t], w) /\ RowsTotal(w) \in Int
      /\ Share(txs'[t], w) \in Int /\ Share(txs[t], w) \in Int
  <2>1. PICK f : f = [x \in TxIds |-> Share(txs[x], w)]
    OBVIOUS
  <2>2. PICK g : g = [x \in TxIds |-> Share(txs'[x], w)]
    OBVIOUS
  <2>3. f \in [TxIds -> Int] /\ g \in [TxIds -> Int]
    BY <1>2, <2>1, <2>2 DEF Share, TxRow
  <2>4. \A x \in TxIds \ {t} : g[x] = f[x]
    BY <2>1, <2>2
  <2>5. SumFunction(g) = SumFunction(f) + g[t] - f[t]
    BY <2>3, <2>4, ReqsFinite, SumChange
  <2>6. SumFunction(f) \in Int
    BY <2>3, ReqsFinite, SumType
  <2>7. QED
    BY <2>1, <2>2, <2>3, <2>5, <2>6 DEF RowsTotal
<1>4. AheadTotal(w)' = AheadTotal(w) + Ahead(r, w)' - Ahead(r, w) /\ AheadTotal(w) \in Int
      /\ Ahead(r, w)' \in Int /\ Ahead(r, w) \in Int
  <2>1. \A q \in Reqs : Ahead(q, w) \in Int
    BY AheadIsInteger DEF Ahead, Control, TypeOK
  <2>2. \A q \in Reqs : Ahead(q, w)' \in Int
    BY AheadIsInteger DEF Ahead, Control, TypeOK
  <2>3. PICK f : f = [q \in Reqs |-> Ahead(q, w)]
    OBVIOUS
  <2>4. PICK g : g = [q \in Reqs |-> Ahead(q, w)']
    OBVIOUS
  <2>5. f \in [Reqs -> Int] /\ g \in [Reqs -> Int]
    BY <2>1, <2>2, <2>3, <2>4
  <2>6. \A q \in Reqs \ {r} : Ahead(q, w)' = Ahead(q, w)
    BY AheadStays DEF LocalFrame
  <2>7. \A q \in Reqs \ {r} : g[q] = f[q]
    BY <2>3, <2>4, <2>6
  <2>8. SumFunction(g) = SumFunction(f) + g[r] - f[r]
    BY <2>5, <2>7, ReqsFinite, SumChange
  <2>9. SumFunction(f) \in Int
    BY <2>5, ReqsFinite, SumType
  <2>10. QED
    BY <2>1, <2>2, <2>3, <2>4, <2>8, <2>9 DEF AheadTotal
<1>5. wallets[w].balance = opening[w] + RowsTotal(w) + AheadTotal(w)
  BY DEF Balanced
<1>6. wallets'[w].balance - opening'[w] - Share(txs'[t], w) - Ahead(r, w)' =
        wallets[w].balance - opening[w] - Share(txs[t], w) - Ahead(r, w)
  OBVIOUS
<1> PICK rows \in Int, ahead \in Int, a \in Int, b \in Int, c \in Int, d \in Int :
          /\ rows = RowsTotal(w) /\ ahead = AheadTotal(w) /\ a = Share(txs[t], w) /\ b = Share(txs'[t], w)
          /\ c = Ahead(r, w) /\ d = Ahead(r, w)'
  BY <1>3, <1>4
<1>7. wallets'[w].balance = opening'[w] + (rows + b - a) + (ahead + d - c)
  BY <1>2, <1>5, <1>6
<1>8. QED
  BY <1>3, <1>4, <1>7

LEMMA BooksOfOne ==
  ASSUME Control, Control', Books, NEW r \in Reqs, LocalFrame(r), drifted \subseteq drifted', wrote \subseteq wrote',
         NEW t \in TxIds, \A x \in TxIds \ {t} : txs'[x] = txs[x],
         \A w \in Wallets \ drifted' :
           wallets'[w].balance - opening'[w] - Share(txs'[t], w) - Ahead(r, w)' =
             wallets[w].balance - opening[w] - Share(txs[t], w) - Ahead(r, w),
         r \in wrote' \/ Level(r)' \/ \A w \in Wallets \ drifted' : Ahead(r, w)' = Ahead(r, w),
         Unopened', pc'[r] \in {"idle", "findTx", "findCategory", "findWallet"} => step'[r] = 1
  PROVE  Books'
PROOF
<1>1. Balanced'
  BY BalancedOfOne DEF Books
<1>2. ASSUME NEW q \in Reqs \ wrote', NEW w \in Wallets \ drifted' PROVE Ahead(q, w)' = 0
  <2>1. Ahead(q, w) = 0
    BY <1>2 DEF Books, Accounted
  <2>2. CASE q = r
    <3>1. Level(r)' => Ahead(r, w)' = 0
      BY DEF Level, Ahead, AheadOf
    <3>2. QED
      BY <1>2, <2>1, <2>2, <3>1
  <2>3. CASE q # r
    BY <2>1, <2>3, AheadStays DEF LocalFrame
  <2>4. QED
    BY <2>2, <2>3
<1>3. Accounted'
  BY <1>2 DEF Accounted
<1>4. Uncounted'
  BY DEF Books, Uncounted, LocalFrame
<1>5. QED
  BY <1>1, <1>3, <1>4 DEF Books

(* A step that moves no money and promises none.                             *)
LEMMA NothingMoves ==
  ASSUME Control, Control', Books, NEW r \in Reqs, LocalFrame(r), drifted \subseteq drifted', wrote \subseteq wrote',
         UNCHANGED <<wallets, txs, opening>>,
         \A w \in Wallets \ drifted' : Ahead(r, w)' = Ahead(r, w),
         pc'[r] \in {"idle", "findTx", "findCategory", "findWallet"} => step'[r] = 1
  PROVE  Books'
PROOF
<1>1. r \in TxIds
  BY DEF TxIds
<1>2. Unopened'
  BY DEF Books, Unopened
<1>3. QED
  BY <1>1, <1>2, BooksOfOne

(* A request that looks something up has nothing under way.                  *)
LEMMA LevelMoves ==
  ASSUME Control, Control', Books, NEW r \in Reqs, LocalFrame(r), Level(r), Level(r)',
         UNCHANGED <<wallets, txs, opening, drifted>>, wrote \subseteq wrote',
         pc'[r] \in {"idle", "findTx", "findCategory", "findWallet"} => step'[r] = 1
  PROVE  Books'
PROOF
<1>1. \A w : Ahead(r, w) = 0 /\ Ahead(r, w)' = 0
  BY DEF Level, Ahead, AheadOf
<1>2. QED
  BY <1>1, NothingMoves

LEMMA StartBooks == ASSUME Control, Control', Books, NEW r \in Reqs, Start(r) PROVE Books'
PROOF
<1>1. PICK k \in Kinds : \E q \in Requests(k) :
        req' = [req EXCEPT ![r] = q] /\ Goto(r, FirstStatement(q))
  BY DEF Start
<1>2. PICK q \in Requests(k) : req' = [req EXCEPT ![r] = q] /\ Goto(r, FirstStatement(q))
  BY <1>1
<1>3. /\ TypeOK /\ UNCHANGED <<wallets, txs, opening, drifted, wrote, old, type, step>> /\ pc[r] = "idle"
  BY DEF Start, Control, db, hist
<1>4. /\ LocalFrame(r) /\ pc'[r] = FirstStatement(q)
  BY <1>2, <1>3 DEF LocalFrame, Goto, TypeOK
<1>5. FirstStatement(q) \notin {"readBalance", "writeBalance", "saveTx", "softRemoveTx"}
  BY DEF FirstStatement, CategoryLookup, WalletLookup, NoTx
<1>6. Level(r) /\ Level(r)'
  BY <1>3, <1>4, <1>5 DEF Level
<1>7. step'[r] = 1
  BY <1>3 DEF Books, Uncounted
<1>8. QED
  BY <1>3, <1>4, <1>6, <1>7, LevelMoves

(* Where a lookup leads.                                                     *)
LEMMA LookupLeads ==
  ASSUME NEW q, NEW o
  PROVE  /\ WalletLookup(q, o) \notin {"writeBalance", "saveTx", "softRemoveTx"}
         /\ WalletLookup(q, o) = "readBalance" => q.kind = "updateTx"
         /\ CategoryLookup(q, o) \notin {"writeBalance", "saveTx", "softRemoveTx"}
         /\ CategoryLookup(q, o) = "readBalance" => q.kind = "updateTx"
BY DEF WalletLookup, CategoryLookup

LEMMA LookupBooks ==
  ASSUME Control, Control', Books, NEW r \in Reqs,
         FindTx(r) \/ FindCategory(r) \/ FindWallet(r) \/ FindGroupAndAddExpense(r)
  PROVE  Books'
PROOF
<1>1. /\ TypeOK /\ MayBeAt(req[r], old[r], pc[r]) /\ UNCHANGED <<wallets, txs, opening, drifted, wrote, req, step>>
      /\ pc[r] \in {"findTx", "findCategory", "findWallet", "group"}
  BY DEF FindTx, FindCategory, FindWallet, FindGroupAndAddExpense, Control, Placed, db, hist
<1>2. PICK s : /\ Goto(r, s) /\ s \notin {"idle", "writeBalance", "saveTx", "softRemoveTx"}
               /\ s = "readBalance" => req[r].kind \in {"updateTx", "removeTx"}
               /\ s \in {"readBalance", "findTx", "findCategory", "findWallet"} => pc[r] # "group"
  <2>1. CASE FindTx(r)
    <3>1. CASE ~Live(txs, req[r].tx)
      BY <1>1, <2>1, <3>1 DEF FindTx
    <3>2. CASE Live(txs, req[r].tx)
      <4> PICK o : o = LoadTx(req[r].tx)
        OBVIOUS
      <4>1. Goto(r, AfterTx(req[r], o)) /\ pc[r] = "findTx" /\ req[r].kind \in {"updateTx", "removeTx"}
        BY <1>1, <2>1, <3>2 DEF FindTx, MayBeAt
      <4>2. /\ AfterTx(req[r], o) \notin {"writeBalance", "saveTx", "softRemoveTx"} /\ AfterTx(req[r], o) # "idle"
        BY LookupLeads DEF AfterTx, CategoryLookup, WalletLookup
      <4>3. QED
        BY <4>1, <4>2
    <3>3. QED
      BY <3>1, <3>2
  <2>2. CASE FindCategory(r)
    <3>1. /\ AfterCategory(req[r], old[r]) \notin {"writeBalance", "saveTx", "softRemoveTx"}
          /\ AfterCategory(req[r], old[r]) # "idle"
          /\ AfterCategory(req[r], old[r]) = "readBalance" => req[r].kind = "updateTx"
      BY DEF AfterCategory, WalletLookup
    <3>2. pc[r] = "findCategory" /\ (Goto(r, "failed") \/ Goto(r, AfterCategory(req[r], old[r])))
      BY <2>2 DEF FindCategory
    <3>3. QED
      BY <3>1, <3>2
  <2>3. CASE FindWallet(r)
    <3>1. /\ AfterWallet(req[r]) \notin {"writeBalance", "saveTx", "softRemoveTx"}
          /\ AfterWallet(req[r]) # "idle"
          /\ AfterWallet(req[r]) = "readBalance" => req[r].kind = "updateTx"
      BY DEF AfterWallet
    <3>2. pc[r] = "findWallet" /\ (Goto(r, "failed") \/ Goto(r, AfterWallet(req[r])))
      BY <2>3 DEF FindWallet
    <3>3. QED
      BY <3>1, <3>2
  <2>4. CASE FindGroupAndAddExpense(r)
    BY <2>4 DEF FindGroupAndAddExpense
  <2>5. QED
    BY <2>1, <2>2, <2>3, <2>4
<1>3. pc'[r] = s
  BY <1>1, <1>2 DEF Goto, TypeOK
<1>4. LocalFrame(r)
  BY <1>1, <1>2 DEF FindTx, FindCategory, FindWallet, FindGroupAndAddExpense, LocalFrame, Goto, TypeOK
<1>5. pc[r] # "group" => step[r] = 1
  BY <1>1 DEF Books, Uncounted
<1>6. Level(r) /\ Level(r)'
  BY <1>1, <1>2, <1>3, <1>5 DEF Level
<1>7. QED
  BY <1>1, <1>2, <1>3, <1>4, <1>5, <1>6, LevelMoves

(* The row counts at once and the balance follows.                           *)
LEMMA InsertTxBooks == ASSUME Silence, Control', Books, NEW r \in Reqs, InsertTx(r) PROVE Books'
PROOF
<1>1. /\ Control /\ TypeOK /\ UNCHANGED <<wallets, opening, drifted, req, old, type, step>> /\ pc[r] = "insertTx"
      /\ req[r].kind = "createTx" /\ wrote' = wrote \cup {r} /\ txs[r].state = "absent" /\ r \in TxIds
  BY DEF InsertTx, Silence, Control, Placed, MayBeAt, Quiet, BeforeWrites, Wrote, TxIds
<1> PICK signed : signed = SignedAmount(req[r].amount, type[r])
  OBVIOUS
<1>2. signed \in Int
  BY <1>1, AmountsAreIntegers DEF TypeOK, Request
<1>3. /\ \A x \in TxIds \ {r} : txs'[x] = txs[x]
      /\ txs'[r].state = "live" /\ txs'[r].wallet = req[r].wallet /\ txs'[r].amount = signed
  BY <1>1 DEF InsertTx, TypeOK
<1>4. pc'[r] = IF req[r].wallet = NoRef THEN "done" ELSE "readBalance"
  BY <1>1 DEF InsertTx, AfterInsert, Goto, TypeOK
<1>5. LocalFrame(r)
  BY <1>1 DEF InsertTx, LocalFrame, Goto, TypeOK
<1>6. ASSUME NEW w \in Wallets
      PROVE  /\ Ahead(r, w) = 0 /\ Share(txs[r], w) = 0
             /\ w = req[r].wallet => Share(txs'[r], w) = signed /\ Ahead(r, w)' = -signed
             /\ w # req[r].wallet => Share(txs'[r], w) = 0 /\ Ahead(r, w)' = 0
  <2>1. w # NoRef
    BY RefsAssumption
  <2>2. Ahead(r, w) = 0 /\ Share(txs[r], w) = 0
    BY <1>1 DEF Ahead, AheadOf, Share
  <2>3. Ahead(r, w)' = IF pc'[r] = "readBalance" /\ w = req[r].wallet THEN -signed ELSE 0
    BY <1>1, <1>4 DEF Ahead, AheadOf
  <2>4. Share(txs'[r], w) = IF w = req[r].wallet THEN signed ELSE 0
    BY <1>3 DEF Share
  <2>5. QED
    BY <1>4, <2>1, <2>2, <2>3, <2>4
<1>7. ASSUME NEW w \in Wallets \ drifted'
      PROVE  wallets'[w].balance - opening'[w] - Share(txs'[r], w) - Ahead(r, w)' =
               wallets[w].balance - opening[w] - Share(txs[r], w) - Ahead(r, w)
  <2>1. PICK b \in Int : b = wallets[w].balance - opening[w]
    BY <1>1 DEF TypeOK, WalletRow
  <2>2. wallets'[w].balance - opening'[w] = b
    BY <1>1, <2>1
  <2>3. CASE w = req[r].wallet
    BY <1>2, <1>6, <2>1, <2>2, <2>3
  <2>4. CASE w # req[r].wallet
    BY <1>6, <2>1, <2>2, <2>4
  <2>5. QED
    BY <2>3, <2>4
<1>8. Unopened'
  BY <1>1 DEF Books, Unopened
<1>9. QED
  BY <1>1, <1>3, <1>4, <1>5, <1>7, <1>8, BooksOfOne

(* By how much an adjustment of r brings the balance ahead of the rows, or    *)
(* after them.                                                               *)
Offset(r) ==
  IF req[r].kind = "createTx" \/ (req[r].kind = "updateTx" /\ step[r] = 2)
  THEN SignedAmount(req[r].amount, type[r])
  ELSE -old[r].amount

LEMMA AdjustmentAhead ==
  ASSUME Control, NEW r \in Reqs, pc[r] \in {"readBalance", "writeBalance"},
         UNCHANGED <<req, old, type>>, NextAdjustment(r), NEW w \in Wallets
  PROVE  /\ Offset(r) \in Int /\ Ahead(r, w) \in Int
         /\ Ahead(r, w)' = Ahead(r, w) + IF w = Adjusted(r) THEN Offset(r) ELSE 0
PROOF
<1>1. /\ TypeOK /\ step[r] \in 1..2 /\ (req[r].kind # "updateTx" => step[r] = 1)
      /\ req[r].kind \in {"createTx", "updateTx", "removeTx"}
      /\ step[r] \in 1..Len(Adjustments(r))
      /\ Len(Adjustments(r)) = IF req[r].kind = "updateTx" THEN 2 ELSE 1
      /\ req[r].kind = "createTx" => req[r].wallet # NoRef
  BY Paying, RefsAssumption DEF Control, TypeOK, Placed, MayBeAt
<1> PICK signed : signed = SignedAmount(req[r].amount, type[r])
  OBVIOUS
<1>2. signed \in Int /\ old[r].amount \in Int
  BY <1>1, AmountsAreIntegers DEF TypeOK, Request, TxAsLoaded
<1>3. Offset(r) \in Int /\ Ahead(r, w) \in Int
  BY <1>1, <1>2, AheadIsInteger DEF Offset, Ahead, TypeOK
<1>4. CASE req[r].kind = "createTx"
  <2>1. Adjusted(r) = req[r].wallet
    BY <1>1, <1>4 DEF Adjusted, Adjustments
  <2>2. pc'[r] = "done"
    BY <1>1, <1>4 DEF NextAdjustment, AfterBalances, Goto, TypeOK
  <2>3. Ahead(r, w) = IF w = req[r].wallet THEN -signed ELSE 0
    BY <1>4 DEF Ahead, AheadOf
  <2>4. Ahead(r, w)' = 0
    BY <1>4, <2>2 DEF Ahead, AheadOf
  <2>5. Offset(r) = signed
    BY <1>4 DEF Offset
  <2>6. QED
    BY <1>2, <1>3, <2>1, <2>3, <2>4, <2>5
<1>5. CASE req[r].kind = "updateTx" /\ step[r] = 1
  <2>1. Adjusted(r) = old[r].wallet
    BY <1>5 DEF Adjusted, Adjustments, RevertedWallet
  <2>2. pc'[r] = "readBalance" /\ step'[r] = 2
    BY <1>1, <1>5 DEF NextAdjustment, Goto, TypeOK
  <2>3. Ahead(r, w) = 0
    BY <1>5 DEF Ahead, AheadOf
  <2>4. Ahead(r, w)' = IF w = old[r].wallet THEN -old[r].amount ELSE 0
    BY <1>2, <1>5, <2>2 DEF Ahead, AheadOf
  <2>5. Offset(r) = -old[r].amount
    BY <1>5 DEF Offset
  <2>6. QED
    BY <1>2, <1>3, <2>1, <2>3, <2>4, <2>5
<1>6. CASE req[r].kind = "updateTx" /\ step[r] = 2
  <2>1. Adjusted(r) = NewWallet(r)
    BY <1>6 DEF Adjusted, Adjustments
  <2>2. pc'[r] = "saveTx"
    BY <1>1, <1>6 DEF NextAdjustment, AfterBalances, Goto, TypeOK
  <2>3. Ahead(r, w) = IF w = old[r].wallet THEN -old[r].amount ELSE 0
    BY <1>2, <1>6 DEF Ahead, AheadOf
  <2>4. Ahead(r, w)' = (IF w = old[r].wallet THEN -old[r].amount ELSE 0) + (IF w = NewWallet(r) THEN signed ELSE 0)
    BY <1>2, <1>6, <2>2 DEF Ahead, AheadOf, NewWallet
  <2>5. Offset(r) = signed
    BY <1>6 DEF Offset
  <2>6. QED
    BY <1>2, <1>3, <2>1, <2>3, <2>4, <2>5
<1>7. CASE req[r].kind = "removeTx"
  <2>1. Adjusted(r) = old[r].wallet
    BY <1>1, <1>7 DEF Adjusted, Adjustments
  <2>2. pc'[r] = "softRemoveTx"
    BY <1>1, <1>7 DEF NextAdjustment, AfterBalances, Goto, TypeOK
  <2>3. Ahead(r, w) = 0
    BY <1>7 DEF Ahead, AheadOf
  <2>4. Ahead(r, w)' = IF w = old[r].wallet THEN -old[r].amount ELSE 0
    BY <1>7, <2>2 DEF Ahead, AheadOf
  <2>5. Offset(r) = -old[r].amount
    BY <1>7 DEF Offset
  <2>6. QED
    BY <1>2, <1>3, <2>1, <2>3, <2>4, <2>5
<1>8. QED
  BY <1>1, <1>3, <1>4, <1>5, <1>6, <1>7

(* Unless LosesBalance says otherwise, what is written is the offset.        *)
LEMMA DeltaIsOffset ==
  ASSUME Control, NEW r \in Reqs, pc[r] = "writeBalance", ~LosesBalance(r)
  PROVE  NewBalance(r) = wallets[Adjusted(r)].balance + Offset(r)
PROOF
<1>1. /\ TypeOK /\ step[r] \in 1..2 /\ (req[r].kind # "updateTx" => step[r] = 1)
      /\ req[r].kind \in {"createTx", "updateTx", "removeTx"}
      /\ req[r].kind = "createTx" => req[r].wallet # NoRef
      /\ old[r].type \in Types /\ old[r].amount \in Int
  BY RefsAssumption DEF Control, TypeOK, Placed, MayBeAt, TxAsLoaded
<1>2. Delta(r) = Offset(r)
  <2>1. CASE req[r].kind = "createTx"
    BY <1>1, <2>1 DEF Delta, Adjustments, Offset
  <2>2. CASE req[r].kind = "updateTx" /\ step[r] = 2
    BY <1>1, <2>2 DEF Delta, Adjustments, Offset
  <2>3. CASE req[r].kind = "updateTx" /\ step[r] = 1
    <3>1. Delta(r) = Reversal(old[r])
      BY <2>3 DEF Delta, Adjustments
    <3>2. old[r].type = Income \/ old[r].amount <= 0
      BY <1>1, <2>3 DEF LosesBalance, Types
    <3>3. Reversal(old[r]) = -old[r].amount
      BY <1>1, <3>2 DEF Reversal, Magnitude
    <3>4. QED
      BY <2>3, <3>1, <3>3 DEF Offset
  <2>4. CASE req[r].kind = "removeTx"
    <3>1. Delta(r) = RemovalDelta(old[r])
      BY <1>1, <2>4 DEF Delta, Adjustments
    <3>2. old[r].type = Income
      BY <1>1, <2>4 DEF LosesBalance, Types
    <3>3. QED
      BY <2>4, <3>1, <3>2 DEF Offset, RemovalDelta
  <2>5. QED
    BY <1>1, <2>1, <2>2, <2>3, <2>4
<1>3. QED
  BY <1>2 DEF NewBalance, LosesBalance

LEMMA ReadBalanceBooks == ASSUME Control, Control', Books, NEW r \in Reqs, ReadBalance(r) PROVE Books'
PROOF
<1>1. /\ TypeOK /\ pc[r] = "readBalance" /\ UNCHANGED <<wallets, txs, opening, wrote, req, old, type>>
  BY DEF ReadBalance, Control, db
<1>2. CASE Live(wallets, Adjusted(r))
  <2>1. Goto(r, "writeBalance") /\ UNCHANGED <<step, drifted>>
    BY <1>2 DEF ReadBalance
  <2>2. LocalFrame(r) /\ pc'[r] = "writeBalance"
    BY <1>1, <2>1 DEF LocalFrame, Goto, TypeOK
  <2>3. ASSUME NEW w PROVE Ahead(r, w)' = Ahead(r, w)
    <3>1. CASE req[r].kind = "createTx"
      BY <1>1, <2>1, <2>2, <3>1 DEF Ahead, AheadOf
    <3>2. CASE req[r].kind = "updateTx"
      BY <1>1, <2>1, <2>2, <3>2 DEF Ahead, AheadOf
    <3>3. CASE req[r].kind \notin {"createTx", "updateTx"}
      BY <1>1, <2>1, <2>2, <3>3 DEF Ahead, AheadOf
    <3>4. QED
      BY <3>1, <3>2, <3>3
  <2>4. QED
    BY <1>1, <2>1, <2>2, <2>3, NothingMoves
<1>3. CASE ~Live(wallets, Adjusted(r))
  <2>1. NextAdjustment(r) /\ Drift({Adjusted(r)})
    BY <1>3 DEF ReadBalance
  <2>2. PICK s \in {"readBalance", "saveTx", "softRemoveTx", "done"} : Goto(r, s)
    BY <1>1, <2>1, NextAdjustmentPlace
  <2>3. \A q \in Reqs \ {r} : step'[q] = step[q]
    BY <1>1, <2>1, NextAdjustmentPlace
  <2>4. LocalFrame(r) /\ pc'[r] = s
    BY <1>1, <2>2, <2>3 DEF LocalFrame, Goto, TypeOK
  <2>5. drifted \subseteq drifted' /\ \A w \in Wallets \ drifted' : w # Adjusted(r)
    BY <2>1, RefsAssumption DEF Drift
  <2>6. ASSUME NEW w \in Wallets \ drifted' PROVE Ahead(r, w)' = Ahead(r, w)
    <3>1. /\ Offset(r) \in Int /\ Ahead(r, w) \in Int
          /\ Ahead(r, w)' = Ahead(r, w) + IF w = Adjusted(r) THEN Offset(r) ELSE 0
      BY <1>1, <2>1, AdjustmentAhead
    <3>2. QED
      BY <2>5, <3>1
  <2>7. QED
    BY <1>1, <2>4, <2>5, <2>6, NothingMoves
<1>4. QED
  BY <1>2, <1>3

(* What is added to the balance is what the row will change by, or the wallet *)
(* drifts.                                                                   *)
LEMMA WriteBalanceBooks == ASSUME Control, Control', Books, NEW r \in Reqs, WriteBalance(r) PROVE Books'
PROOF
<1>1. /\ TypeOK /\ pc[r] = "writeBalance" /\ UNCHANGED <<txs, opening, req, old, type>>
      /\ NextAdjustment(r) /\ Drift(IF LosesBalance(r) THEN {Adjusted(r)} ELSE {})
      /\ wrote' = wrote \cup {r} /\ Adjusted(r) \in Wallets /\ r \in TxIds
  BY Paying DEF WriteBalance, Control, Wrote, TxIds
<1>2. PICK s \in {"readBalance", "saveTx", "softRemoveTx", "done"} : Goto(r, s)
  BY <1>1, NextAdjustmentPlace
<1>3. \A q \in Reqs \ {r} : step'[q] = step[q]
  BY <1>1, NextAdjustmentPlace
<1>4. LocalFrame(r) /\ pc'[r] = s
  BY <1>1, <1>2, <1>3 DEF LocalFrame, Goto, TypeOK
<1>5. drifted \subseteq drifted' /\ wrote \subseteq wrote' /\ r \in wrote'
  BY <1>1 DEF Drift
<1>6. LosesBalance(r) => Adjusted(r) = NoRef \/ Adjusted(r) \in drifted'
  BY <1>1 DEF Drift
<1>7. /\ \A w \in Wallets \ {Adjusted(r)} : wallets'[w] = wallets[w]
      /\ wallets'[Adjusted(r)] = [state |-> "live", balance |-> NewBalance(r)]
  BY <1>1 DEF WriteBalance, TypeOK
<1>8. ASSUME NEW w \in Wallets \ drifted'
      PROVE  wallets'[w].balance - opening'[w] - Share(txs'[r], w) - Ahead(r, w)' =
               wallets[w].balance - opening[w] - Share(txs[r], w) - Ahead(r, w)
  <2>1. PICK b \in Int, c \in Int, d \in Int :
          b = wallets[w].balance /\ c = opening[w] /\ d = Share(txs[r], w)
    <3>1. wallets[w].balance \in Int /\ opening[w] \in Int /\ txs[r].amount \in Int
      BY <1>1 DEF TypeOK, WalletRow, TxRow
    <3>2. Share(txs[r], w) \in Int
      BY <3>1 DEF Share
    <3>3. QED
      BY <3>1, <3>2
  <2>2. opening'[w] = c /\ Share(txs'[r], w) = d
    BY <1>1, <2>1
  <2>3. /\ Offset(r) \in Int /\ Ahead(r, w) \in Int
        /\ Ahead(r, w)' = Ahead(r, w) + IF w = Adjusted(r) THEN Offset(r) ELSE 0
    BY <1>1, AdjustmentAhead
  <2>4. wallets'[w].balance = b + IF w = Adjusted(r) THEN Offset(r) ELSE 0
    <3>1. CASE w = Adjusted(r)
      <4>1. ~LosesBalance(r)
        BY <1>6, <3>1, RefsAssumption
      <4>2. NewBalance(r) = wallets[Adjusted(r)].balance + Offset(r)
        BY <1>1, <4>1, DeltaIsOffset
      <4>3. QED
        BY <1>7, <2>1, <3>1, <4>2
    <3>2. CASE w # Adjusted(r)
      BY <1>7, <2>1, <3>2
    <3>3. QED
      BY <3>1, <3>2
  <2>5. PICK e \in Int, g \in Int : e = Ahead(r, w) /\ g = IF w = Adjusted(r) THEN Offset(r) ELSE 0
    BY <2>3
  <2>6. wallets'[w].balance = b + g /\ Ahead(r, w)' = e + g
    BY <2>3, <2>4, <2>5
  <2>7. QED
    BY <2>1, <2>2, <2>5, <2>6
<1>9. Unopened'
  <2>1. ASSUME NEW w \in Wallets, wallets'[w].state = "absent" PROVE wallets'[w].balance = opening'[w]
    BY <1>1, <1>7, <2>1 DEF Books, Unopened
  <2>2. QED
    BY <2>1 DEF Unopened
<1>10. QED
  BY <1>1, <1>4, <1>5, <1>8, <1>9, BooksOfOne

(* A row that is as it was loaded takes the adjustments in; one that is not    *)
(* makes every wallet concerned drift.                                       *)
LEMMA SaveTxBooks == ASSUME Control, Control', Books, NEW r \in Reqs, SaveTx(r) PROVE Books'
PROOF
<1>1. /\ TypeOK /\ pc[r] = "saveTx" /\ UNCHANGED <<wallets, opening, req, old, type, step>>
      /\ Goto(r, "done") /\ wrote' = wrote \cup {r} /\ req[r].kind = "updateTx" /\ req[r].tx \in TxIds
  BY DEF SaveTx, Control, Wrote, Placed, MayBeAt, Shaped
<1> PICK t \in TxIds : t = req[r].tx
  BY <1>1
<1> PICK signed : signed = SignedAmount(req[r].amount, type[r])
  OBVIOUS
<1>2. signed \in Int /\ old[r].amount \in Int /\ txs[t].amount \in Int
  BY <1>1, AmountsAreIntegers DEF TypeOK, Request, TxAsLoaded, TxRow
<1>3. /\ LocalFrame(r) /\ pc'[r] = "done"
  BY <1>1 DEF LocalFrame, Goto, TypeOK
<1>4. /\ \A x \in TxIds \ {t} : txs'[x] = txs[x]
      /\ txs'[t].state = "live" /\ txs'[t].wallet = NewWallet(r) /\ txs'[t].amount = signed
  BY <1>1 DEF SaveTx, TypeOK
<1>5. /\ drifted \subseteq drifted'
      /\ Outdated(r, t) => {old[r].wallet, NewWallet(r), txs[t].wallet} \ {NoRef} \subseteq drifted'
  BY DEF SaveTx, Drift
<1>6. ASSUME NEW w \in Wallets \ drifted'
      PROVE  wallets'[w].balance - opening'[w] - Share(txs'[t], w) - Ahead(r, w)' =
               wallets[w].balance - opening[w] - Share(txs[t], w) - Ahead(r, w)
  <2>1. w # NoRef
    BY RefsAssumption
  <2>2. PICK b \in Int : b = wallets[w].balance - opening[w]
    BY <1>1 DEF TypeOK, WalletRow
  <2>3. wallets'[w].balance - opening'[w] = b
    BY <1>1, <2>2
  <2>4. Ahead(r, w)' = 0
    BY <1>1, <1>3 DEF Ahead, AheadOf
  <2>5. Ahead(r, w) = (IF w = old[r].wallet THEN -old[r].amount ELSE 0) + (IF w = NewWallet(r) THEN signed ELSE 0)
    BY <1>1 DEF Ahead, AheadOf, NewWallet
  <2>6. Share(txs'[t], w) = IF w = NewWallet(r) THEN signed ELSE 0
    BY <1>4 DEF Share
  <2>7. CASE Outdated(r, t)
    <3>1. w # old[r].wallet /\ w # NewWallet(r) /\ w # txs[t].wallet
      BY <1>5, <2>1, <2>7
    <3>2. Share(txs[t], w) = 0
      BY <3>1 DEF Share
    <3>3. QED
      BY <2>2, <2>3, <2>4, <2>5, <2>6, <3>1, <3>2
  <2>8. CASE ~Outdated(r, t)
    <3>1. Share(txs[t], w) = IF w = old[r].wallet THEN old[r].amount ELSE 0
      BY <2>8 DEF Outdated, Share, Live
    <3>2. QED
      BY <1>2, <2>2, <2>3, <2>4, <2>5, <2>6, <3>1
  <2>9. QED
    BY <2>7, <2>8
<1>7. Unopened'
  BY <1>1 DEF Books, Unopened
<1>8. QED
  BY <1>1, <1>3, <1>4, <1>5, <1>6, <1>7, BooksOfOne

LEMMA SoftRemoveTxBooks == ASSUME Control, Control', Books, NEW r \in Reqs, SoftRemoveTx(r) PROVE Books'
PROOF
<1>1. /\ TypeOK /\ pc[r] = "softRemoveTx" /\ UNCHANGED <<wallets, opening, req, old, type, step>>
      /\ Goto(r, "done") /\ wrote' = wrote \cup {r} /\ req[r].kind = "removeTx" /\ req[r].tx \in TxIds
  BY DEF SoftRemoveTx, Control, Wrote, Placed, MayBeAt, Shaped
<1> PICK t \in TxIds : t = req[r].tx
  BY <1>1
<1>2. old[r].amount \in Int /\ txs[t].amount \in Int
  BY <1>1 DEF TypeOK, TxAsLoaded, TxRow
<1>3. /\ LocalFrame(r) /\ pc'[r] = "done"
  BY <1>1 DEF LocalFrame, Goto, TypeOK
<1>4. /\ \A x \in TxIds \ {t} : txs'[x] = txs[x]
      /\ txs'[t].state = "deleted"
  BY <1>1 DEF SoftRemoveTx, TypeOK, TxRow
<1>5. /\ drifted \subseteq drifted'
      /\ Outdated(r, t) => {old[r].wallet, txs[t].wallet} \ {NoRef} \subseteq drifted'
  BY DEF SoftRemoveTx, Drift
<1>6. ASSUME NEW w \in Wallets \ drifted'
      PROVE  wallets'[w].balance - opening'[w] - Share(txs'[t], w) - Ahead(r, w)' =
               wallets[w].balance - opening[w] - Share(txs[t], w) - Ahead(r, w)
  <2>1. w # NoRef
    BY RefsAssumption
  <2>2. PICK b \in Int : b = wallets[w].balance - opening[w]
    BY <1>1 DEF TypeOK, WalletRow
  <2>3. wallets'[w].balance - opening'[w] = b
    BY <1>1, <2>2
  <2>4. Ahead(r, w)' = 0 /\ Share(txs'[t], w) = 0
    BY <1>1, <1>3, <1>4 DEF Ahead, AheadOf, Share
  <2>5. Ahead(r, w) = IF w = old[r].wallet THEN -old[r].amount ELSE 0
    BY <1>1 DEF Ahead, AheadOf
  <2>6. CASE Outdated(r, t)
    <3>1. w # old[r].wallet /\ w # txs[t].wallet
      BY <1>5, <2>1, <2>6
    <3>2. Share(txs[t], w) = 0
      BY <3>1 DEF Share
    <3>3. QED
      BY <2>2, <2>3, <2>4, <2>5, <3>1, <3>2
  <2>7. CASE ~Outdated(r, t)
    <3>1. Share(txs[t], w) = IF w = old[r].wallet THEN old[r].amount ELSE 0
      BY <2>7 DEF Outdated, Share, Live
    <3>2. QED
      BY <1>2, <2>2, <2>3, <2>4, <2>5, <3>1
  <2>8. QED
    BY <2>6, <2>7
<1>7. Unopened'
  BY <1>1 DEF Books, Unopened
<1>8. QED
  BY <1>1, <1>3, <1>4, <1>5, <1>6, <1>7, BooksOfOne

LEMMA WalletBooks ==
  ASSUME Revival, Control', Books, NEW r \in Reqs, InsertWallet(r) \/ SaveWallet(r) \/ DeleteWallet(r)
  PROVE  Books'
PROOF
<1>1. /\ Control /\ TypeOK /\ UNCHANGED <<txs, req, old, type, step>> /\ Reserves(r)
      /\ pc[r] \in {"insertWallet", "saveWallet", "deleteWallet"}
      /\ Goto(r, "done") /\ wrote' = wrote \cup {r} /\ r \in TxIds
  BY DEF InsertWallet, SaveWallet, DeleteWallet, Revival, Silence, Control, Wrote, TxIds
<1>2. req[r].kind \in WalletKinds /\ req[r].wallet \in Wallets
  BY <1>1 DEF Control, Placed, MayBeAt, Shaped, WalletKinds
<1>3. LocalFrame(r) /\ pc'[r] = "done"
  BY <1>1 DEF LocalFrame, Goto, TypeOK
<1>4. \A w : Ahead(r, w) = 0 /\ Ahead(r, w)' = 0
  BY <1>1, <1>2, <1>3 DEF Ahead, AheadOf, WalletKinds
<1>5. drifted \subseteq drifted' /\ (SaveWallet(r) => req[r].wallet \in drifted')
  BY <1>2, RefsAssumption DEF InsertWallet, SaveWallet, DeleteWallet, Drift
<1>6. /\ \A w \in Wallets \ {req[r].wallet} : wallets'[w] = wallets[w] /\ opening'[w] = opening[w]
      /\ wallets'[req[r].wallet].state # "absent"
  BY <1>1, <1>2 DEF InsertWallet, SaveWallet, DeleteWallet, TypeOK, WalletRow
<1>7. ASSUME NEW w \in Wallets \ drifted'
      PROVE  wallets'[w].balance - opening'[w] = wallets[w].balance - opening[w]
  <2>1. wallets[w].balance \in Int /\ opening[w] \in Int /\ req[r].amount \in Int
    BY <1>1 DEF TypeOK, WalletRow, Request
  <2>2. CASE w # req[r].wallet
    BY <1>6, <2>2
  <2>3. CASE w = req[r].wallet /\ InsertWallet(r)
    <3>1. wallets'[w].balance = req[r].amount /\ opening'[w] = req[r].amount
      BY <1>1, <2>3 DEF InsertWallet, TypeOK
    <3>2. wallets[w].state = "absent"
      BY <1>1, <2>3 DEF InsertWallet, Reserves
    <3>3. wallets[w].balance = opening[w]
      BY <3>2 DEF Books, Unopened
    <3>4. QED
      BY <2>1, <3>1, <3>3
  <2>4. CASE w = req[r].wallet /\ DeleteWallet(r)
    BY <1>1, <2>4 DEF DeleteWallet, TypeOK, WalletRow
  <2>5. QED
    BY <1>5, <2>2, <2>3, <2>4
<1>8. ASSUME NEW w \in Wallets \ drifted'
      PROVE  wallets'[w].balance - opening'[w] - Share(txs'[r], w) - Ahead(r, w)' =
               wallets[w].balance - opening[w] - Share(txs[r], w) - Ahead(r, w)
  BY <1>1, <1>4, <1>7
<1>9. Unopened'
  <2>1. ASSUME NEW w \in Wallets, wallets'[w].state = "absent" PROVE wallets'[w].balance = opening'[w]
    BY <1>6, <2>1 DEF Books, Unopened
  <2>2. QED
    BY <2>1 DEF Unopened
<1>10. QED
  BY <1>1, <1>3, <1>5, <1>8, <1>9, BooksOfOne

LEMMA CategoryBooks ==
  ASSUME Control, Control', Books, NEW r \in Reqs,
         InsertCategory(r) \/ SaveCategory(r) \/ DeleteCategory(r)
  PROVE  Books'
PROOF
<1>1. /\ TypeOK /\ UNCHANGED <<wallets, txs, opening, drifted, req, old, type, step>>
      /\ pc[r] \in {"insertCategory", "saveCategory", "deleteCategory"}
      /\ Goto(r, "done") /\ wrote \subseteq wrote'
  BY DEF InsertCategory, SaveCategory, DeleteCategory, Control, Wrote
<1>2. LocalFrame(r) /\ pc'[r] = "done"
  BY <1>1 DEF LocalFrame, Goto, TypeOK
<1>3. Level(r) /\ Level(r)'
  BY <1>1, <1>2 DEF Level
<1>4. QED
  BY <1>1, <1>2, <1>3, LevelMoves

(* A request cut short after a write lets its wallets drift; before the first  *)
(* one it owes nothing.                                                      *)
LEMMA AbortBooks == ASSUME Control, Control', Books, NEW r \in Reqs, Abort(r) PROVE Books'
PROOF
<1>1. /\ TypeOK /\ UNCHANGED <<wallets, txs, opening, req, old, type, step, wrote>> /\ Goto(r, "aborted")
      /\ Drift(IF r \in wrote THEN {a.wallet : a \in Range(Adjustments(r))} ELSE {})
  BY DEF Abort, Control, db
<1>2. LocalFrame(r) /\ pc'[r] = "aborted"
  BY <1>1 DEF LocalFrame, Goto, TypeOK
<1>3. drifted \subseteq drifted'
  BY <1>1 DEF Drift
<1>4. \A w : Ahead(r, w)' = 0
  BY <1>2 DEF Ahead, AheadOf
<1>5. ASSUME NEW w \in Wallets \ drifted' PROVE Ahead(r, w) = 0
  <2>1. CASE r \notin wrote
    BY <1>3, <2>1 DEF Books, Accounted
  <2>2. CASE r \in wrote
    <3>1. w # NoRef
      BY RefsAssumption
    <3>2. \A a \in Range(Adjustments(r)) : a.wallet # w
      BY <1>1, <2>2, <3>1 DEF Drift
    <3>3. QED
      BY <3>2, AheadAdjusts
  <2>3. QED
    BY <2>1, <2>2
<1>6. QED
  BY <1>1, <1>2, <1>3, <1>4, <1>5, NothingMoves

LEMMA InitBooks == Init => Books
PROOF
<1>1. SUFFICES ASSUME Init PROVE Books
  OBVIOUS
<1>2. /\ \A w \in Wallets : wallets[w].balance = 0 /\ opening[w] = 0
      /\ \A t \in TxIds : txs[t].state = "absent"
      /\ \A r \in Reqs : pc[r] = "idle" /\ step[r] = 1
  BY <1>1 DEF Init
<1>3. \A r \in Reqs : Level(r)
  BY <1>2 DEF Level
<1>4. ASSUME NEW w \in Wallets PROVE RowsTotal(w) = 0
  <2>1. PICK f : f = [t \in TxIds |-> Share(txs[t], w)]
    OBVIOUS
  <2>2. f \in [TxIds -> Int] /\ \A t \in TxIds : f[t] = 0
    BY <1>2, <2>1 DEF Share
  <2>3. QED
    BY <2>1, <2>2, ReqsFinite, SumZero DEF RowsTotal
<1>5. ASSUME NEW w \in Wallets PROVE AheadTotal(w) = 0
  <2>1. PICK f : f = [r \in Reqs |-> Ahead(r, w)]
    OBVIOUS
  <2>2. f \in [Reqs -> Int] /\ \A r \in Reqs : f[r] = 0
    BY <1>3, <2>1, LevelAhead
  <2>3. QED
    BY <2>1, <2>2, ReqsFinite, SumZero DEF AheadTotal
<1>6. Balanced
  BY <1>2, <1>4, <1>5 DEF Balanced
<1>7. Accounted /\ Unopened /\ Uncounted
  BY <1>2, <1>3, LevelAhead DEF Accounted, Unopened, Uncounted
<1>8. QED
  BY <1>6, <1>7 DEF Books

LEMMA NextBooks == Revival /\ Books /\ [Next]_vars => Books'
PROOF
<1>1. SUFFICES ASSUME Revival, Books, [Next]_vars PROVE Books'
  OBVIOUS
<1>2. Silence /\ Control /\ Control'
  BY <1>1, NextControl DEF Revival, Silence
<1>3. CASE UNCHANGED vars \/ Rest
  <2>1. /\ UNCHANGED <<wallets, txs, drifted, wrote, opening>>
        /\ UNCHANGED <<pc, req, old, type, step>>
    BY <1>3 DEF Rest, vars
  <2>2. \A r, w : Ahead(r, w)' = Ahead(r, w)
    BY <2>1 DEF Ahead
  <2>3. \A w : RowsTotal(w)' = RowsTotal(w) /\ AheadTotal(w)' = AheadTotal(w)
    BY <2>1, <2>2 DEF RowsTotal, AheadTotal
  <2>4. QED
    BY <1>1, <2>1, <2>2, <2>3 DEF Books, Balanced, Accounted, Unopened, Uncounted
<1>4. ASSUME NEW r \in Reqs, Start(r) \/ Statement(r) \/ Abort(r) PROVE Books'
  <2>1. CASE Start(r)
    BY <1>1, <1>2, <2>1, StartBooks
  <2>2. CASE FindTx(r) \/ FindCategory(r) \/ FindWallet(r) \/ FindGroupAndAddExpense(r)
    BY <1>1, <1>2, <2>2, LookupBooks
  <2>3. CASE InsertTx(r)
    BY <1>1, <1>2, <2>3, InsertTxBooks
  <2>4. CASE ReadBalance(r)
    BY <1>1, <1>2, <2>4, ReadBalanceBooks
  <2>5. CASE WriteBalance(r)
    BY <1>1, <1>2, <2>5, WriteBalanceBooks
  <2>6. CASE SaveTx(r)
    BY <1>1, <1>2, <2>6, SaveTxBooks
  <2>7. CASE SoftRemoveTx(r)
    BY <1>1, <1>2, <2>7, SoftRemoveTxBooks
  <2>8. CASE InsertWallet(r) \/ SaveWallet(r) \/ DeleteWallet(r)
    BY <1>1, <1>2, <2>8, WalletBooks
  <2>9. CASE InsertCategory(r) \/ SaveCategory(r) \/ DeleteCategory(r)
    BY <1>1, <1>2, <2>9, CategoryBooks
  <2>10. CASE Abort(r)
    BY <1>1, <1>2, <2>10, AbortBooks
  <2>11. QED
    BY <1>4, <2>1, <2>2, <2>3, <2>4, <2>5, <2>6, <2>7, <2>8, <2>9, <2>10 DEF Statement
<1>5. QED
  BY <1>1, <1>3, <1>4 DEF Next

(* With nothing in flight, nothing is ahead, and what the rows come to is the *)
(* sum of the live ones.                                                     *)
LEMMA BooksAtRest == Control /\ Books => BooksBalance
PROOF
<1>1. SUFFICES ASSUME Control, Books, InFlight = {}, NEW w \in Known(wallets) \ drifted
               PROVE  wallets[w].balance = opening[w] + AmountsOf(w)
  BY DEF BooksBalance
<1>2. w \in Wallets \ drifted /\ TypeOK
  BY <1>1 DEF Known, Control, TypeOK
<1>3. wallets[w].balance = opening[w] + RowsTotal(w) + AheadTotal(w)
  BY <1>1, <1>2 DEF Books, Balanced
<1>4. AheadTotal(w) = 0
  <2>1. PICK f : f = [r \in Reqs |-> Ahead(r, w)]
    OBVIOUS
  <2>2. \A r \in Reqs : pc[r] \in Ended \cup {"idle"}
    BY <1>1 DEF InFlight
  <2>3. \A r \in Reqs : Level(r)
    BY <2>2 DEF Level, Ended
  <2>4. f \in [Reqs -> Int] /\ \A r \in Reqs : f[r] = 0
    BY <2>1, <2>3, LevelAhead
  <2>5. QED
    BY <2>1, <2>4, ReqsFinite, SumZero DEF AheadTotal
<1>5. RowsTotal(w) = AmountsOf(w) /\ RowsTotal(w) \in Int
  <2>1. PICK T \in SUBSET TxIds : T = {x \in TxIds : Live(txs, x) /\ txs[x].wallet = w}
    OBVIOUS
  <2>2. PICK f : f = [t \in TxIds |-> Share(txs[t], w)]
    OBVIOUS
  <2>3. PICK g : g = [t \in T |-> txs[t].amount]
    OBVIOUS
  <2>4. \A t \in TxIds : txs[t].amount \in Int
    BY <1>2 DEF TypeOK, TxRow
  <2>5. f \in [TxIds -> Int] /\ g \in [T -> Int]
    BY <2>2, <2>3, <2>4 DEF Share
  <2>6. /\ \A x \in T : g[x] = f[x]
        /\ \A x \in TxIds \ T : f[x] = 0
    BY <2>1, <2>2, <2>3 DEF Share, Live
  <2>7. SumFunction(f) = SumFunction(g)
    BY <2>5, <2>6, ReqsFinite, SumSupport
  <2>8. SumFunction(f) \in Int
    BY <2>5, ReqsFinite, SumType
  <2>9. QED
    BY <2>1, <2>2, <2>3, <2>7, <2>8 DEF RowsTotal, AmountsOf
<1>6. opening[w] \in Int
  BY <1>2 DEF TypeOK
<1>7. QED
  BY <1>3, <1>4, <1>5, <1>6

(* Whatever requests are served side by side, and wherever they are cut short, *)
(* a wallet that met none of the named causes of drift has, when all is quiet, *)
(* the balance it opened with and the amounts of its live transactions        *)
(* (create, update, remove and updateBalance of transactions and wallets).   *)
THEOREM BooksAreKept == Spec => []BooksBalance
PROOF
<1>1. Init => Revival /\ Books
  BY InitRevival, InitBooks
<1>2. Revival /\ Books /\ [Next]_vars => Revival' /\ Books'
  BY NextRevival, NextBooks
<1>3. Revival /\ Books => BooksBalance
  BY BooksAtRest DEF Revival, Silence
<1>4. QED
  BY <1>1, <1>2, <1>3, PTL DEF Spec
=============================================================================
