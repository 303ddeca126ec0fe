---------------------------- MODULE WalletLedger ----------------------------
(***************************************************************************)
(* The money of one user: wallets, categories and transactions, as the    *)
(* finance services keep them (src/src/modules/finance/services).          *)
(*                                                                         *)
(* Every HTTP request is a process.  A handler runs without interruption   *)
(* between two awaits, and every await here is one database statement, so  *)
(* a handler is cut into one action per statement: the action is the       *)
(* statement and the local code up to the next one.  No handler opens a    *)
(* database transaction, so the statements of two requests interleave.     *)
(*                                                                         *)
(* Rows are soft-deleted.  findOne sees live rows only, and a relation     *)
(* whose row is deleted is loaded as null.  save(row) writes every column  *)
(* it was given that differs from the stored row; because the row was read *)
(* live, a save also clears the deletion mark of a row that was removed in *)
(* the meantime.                                                           *)
(***************************************************************************)
EXTENDS Integers, Sequences, FiniteSets, Functions

CONSTANTS
  Wallets,          \* wallet ids
  Categories,       \* category ids
  NoRef,            \* null: no wallet, no category
  Amounts,          \* amounts a client sends (any sign, in cents)
  GroupModes,       \* subset of {"none", "bare", "split"}: a transaction without
                    \* groupId, with a groupId alone, with a groupId and splits
  Kinds,            \* the request kinds of this instance
  InitialWallets,   \* wallets that exist at the start
  InitialTypes,     \* categories that exist at the start, with their type
  MaxRequests,      \* bound: number of requests
  MaxInFlight,      \* bound: requests served at the same time
  MaxAborts         \* bound: requests cut short by a database error or a crash

Income  == "income"
Expense == "expense"
Types   == {Income, Expense}

ReqKinds == {"createTx", "updateTx", "removeTx", "createWallet", "updateWallet",
             "removeWallet", "createCategory", "updateCategory", "removeCategory"}

ASSUME RefsAssumption ==
  /\ NoRef \notin Wallets \cup Categories
  /\ InitialWallets \subseteq Wallets
  /\ InitialTypes \in [DOMAIN InitialTypes -> Types]
  /\ DOMAIN InitialTypes \subseteq Categories
ASSUME AmountsAssumption == Amounts \subseteq Int
ASSUME KindsAssumption   == Kinds \subseteq ReqKinds
ASSUME ModesAssumption   == GroupModes \subseteq {"none", "bare", "split"}
ASSUME BoundsAssumption  ==
  MaxRequests \in Nat /\ MaxInFlight \in Nat /\ MaxAborts \in Nat

Reqs  == 1..MaxRequests
TxIds == Reqs                \* the transaction that request r creates has id r

ASSUME IdsAssumption ==
  Wallets \cap TxIds = {} /\ Categories \cap TxIds = {} /\ Wallets \cap Categories = {}

Rows  == Reqs \cup Wallets \cup Categories

RowStates == {"absent", "live", "deleted"}

VARIABLES
  wallets,        \* wallet_entity rows
  categories,     \* category_entity rows
  txs,            \* transaction_entity rows
  groupExpenses,  \* transactions for which a group expense was recorded
  req,            \* what each request asks for (its route, path and body)
  pc,             \* the statement each request is about to execute
  old,            \* transaction row a request loaded, with its relations
  type,           \* type of the category a request will store
  step,           \* which of its balance adjustments a request is at
  snap,           \* balance a request read and will write back changed
  (* History variables: no action reads them. *)
  wrote,          \* requests that wrote a wallet or transaction row
  drifted,        \* wallets whose balance was left behind, see BooksBalance
  opening,        \* balance each wallet was created with
  bystanders      \* for each deleted row, the requests in flight at its deletion

db    == <<wallets, categories, txs, groupExpenses>>
local == <<req, pc, old, type, step, snap>>
hist  == <<wrote, drifted, opening, bystanders>>
vars  == <<wallets, categories, txs, groupExpenses, req, pc, old, type, step, snap,
           wrote, drifted, opening, bystanders>>

-----------------------------------------------------------------------------
(* Requests and rows.  An operator named Bug... is a seeded fault that stands   *)
(* beside the definition it would replace; nothing uses it.                  *)

Blank == [kind |-> "none", tx |-> 0, amount |-> 0, category |-> NoRef,
          wallet |-> NoRef, group |-> "none", type |-> Expense]
NoTx  == [amount |-> 0, category |-> NoRef, type |-> Expense, wallet |-> NoRef]

Ended    == {"done", "failed", "aborted"}
InFlight == {r \in Reqs : pc[r] \notin Ended \cup {"idle"}}

BugWithDeleted(table, id) == table[id].state # "absent"

Live(table, id) == table[id].state = "live"

(* findOne(id) with relations ["category", "wallet"]: a deleted relation is null. *)
LoadTx(t) ==
  LET row == txs[t] IN
  [amount   |-> row.amount,
   category |-> IF row.category # NoRef /\ Live(categories, row.category)
                THEN row.category ELSE NoRef,
   type     |-> IF row.category # NoRef THEN categories[row.category].type ELSE Expense,
   wallet   |-> IF row.wallet # NoRef /\ Live(wallets, row.wallet)
                THEN row.wallet ELSE NoRef]

-----------------------------------------------------------------------------
(* What a request does to balances *)

Magnitude(a) == IF a < 0 THEN -a ELSE a

BugClientSign(a, ty) == a

(* The sign a stored amount gets from the type of its category. *)
SignedAmount(a, ty) == IF ty = Income THEN Magnitude(a) ELSE -Magnitude(a)

BugKeepExpenseSign(o) == IF o.type = Income THEN -o.amount ELSE o.amount

(* What update adds to the old wallet to take the old amount back. *)
Reversal(o) == IF o.type = Income THEN -o.amount ELSE Magnitude(o.amount)

(* What remove adds to the wallet of the transaction. *)
RemovalDelta(o) == IF o.type = Income THEN -o.amount ELSE o.amount

NewWallet(r) == IF req[r].wallet # NoRef THEN req[r].wallet ELSE old[r].wallet

BugCategoryType(r) == type[r]

NewCategory(r) == IF req[r].category # NoRef THEN req[r].category ELSE old[r].category

BugRevertNewWallet(r) == NewWallet(r)

RevertedWallet(r) == old[r].wallet

(* The calls of updateBalance(wallet, delta) a request makes, in order. *)
Adjustments(r) ==
  CASE req[r].kind = "createTx" ->
         IF req[r].wallet = NoRef THEN <<>>
         ELSE <<[wallet |-> req[r].wallet, delta |-> SignedAmount(req[r].amount, type[r])]>>
    [] req[r].kind = "updateTx" ->
         <<[wallet |-> RevertedWallet(r), delta |-> Reversal(old[r])],
           [wallet |-> NewWallet(r),  delta |-> SignedAmount(req[r].amount, type[r])]>>
    [] req[r].kind = "removeTx" ->
         <<[wallet |-> old[r].wallet, delta |-> RemovalDelta(old[r])]>>
    [] OTHER -> <<>>

Adjusted(r) == Adjustments(r)[step[r]].wallet
Delta(r)    == Adjustments(r)[step[r]].delta

(* Number(balance) + Number(amount): decimals come from the driver as strings. *)
NewBalance(r) == snap[r] + Delta(r)

(* The statements of a handler, by the request q and the row o it loaded.  A  *)
(* null category or wallet makes update and remove throw at its first use,   *)
(* which comes before their first write.                                     *)

WalletLookup(q, o) ==
  IF q.kind = "updateTx" /\ o.wallet = NoRef THEN "failed"
  ELSE IF q.wallet \notin {NoRef, o.wallet} THEN "findWallet"
  ELSE IF q.kind = "updateTx" THEN "readBalance"
  ELSE IF q.group = "none" THEN "insertTx" ELSE "group"

CategoryLookup(q, o) ==
  IF q.kind = "updateTx" /\ o.category = NoRef THEN "failed"
  ELSE IF q.category \notin {NoRef, o.category} THEN "findCategory"
  ELSE WalletLookup(q, o)

AfterTx(q, o) ==
  IF q.kind = "updateTx" THEN CategoryLookup(q, o)
  ELSE IF NoRef \in {o.category, o.wallet} THEN "failed" ELSE "readBalance"

AfterCategory(q, o) ==
  CASE q.kind = "updateCategory" -> "saveCategory"
    [] q.kind = "removeCategory" -> "deleteCategory"
    [] OTHER -> WalletLookup(q, o)

AfterWallet(q) ==
  CASE q.kind = "updateWallet" -> "saveWallet"
    [] q.kind = "removeWallet" -> "deleteWallet"
    [] q.kind = "updateTx" -> "readBalance"
    [] OTHER -> IF q.group = "none" THEN "insertTx" ELSE "group"

FirstStatement(q) ==
  CASE q.kind = "createTx" -> CategoryLookup(q, NoTx)
    [] q.kind \in {"updateTx", "removeTx"} -> "findTx"
    [] q.kind \in {"updateWallet", "removeWallet"} -> "findWallet"
    [] q.kind \in {"updateCategory", "removeCategory"} -> "findCategory"
    [] q.kind = "createWallet" -> "insertWallet"
    [] OTHER -> "insertCategory"

BugCheckGroupLate(q) ==
  IF q.group # "none" THEN "group" ELSE IF q.wallet = NoRef THEN "done" ELSE "readBalance"

AfterInsert(q) == IF q.wallet = NoRef THEN "done" ELSE "readBalance"

(* The statement that follows the balance adjustments. *)
AfterBalances(r) ==
  CASE req[r].kind = "updateTx" -> "saveTx"
    [] req[r].kind = "removeTx" -> "softRemoveTx"
    [] OTHER -> "done"

-----------------------------------------------------------------------------
(* Requests: what a client can send, given the rows it can name *)

Known(table) == {id \in DOMAIN table : table[id].state # "absent"}

(* The ids the database will give to new rows, fixed when the request starts. *)
Fresh(table, field) == {id \in DOMAIN table :
  table[id].state = "absent" /\ \A r \in Reqs : req[r][field] # id}

Bodies(k, ts, as, cs, ws, gs, tys) ==
  [kind : {k}, tx : ts, amount : as, category : cs, wallet : ws, group : gs, type : tys]

Requests(k) ==
  LET someWallet   == Known(wallets) \cup {NoRef}
      someCategory == Known(categories) \cup {NoRef}
      none == {"none"}  null == {NoRef}  any == {Expense}
  IN
  CASE k = "createTx"       -> Bodies(k, {0}, Amounts, someCategory, someWallet, GroupModes, any)
    [] k = "updateTx"       -> Bodies(k, Known(txs), Amounts, someCategory, someWallet, none, any)
    [] k = "removeTx"       -> Bodies(k, Known(txs), {0}, null, null, none, any)
    [] k = "createWallet"   -> Bodies(k, {0}, Amounts, null, Fresh(wallets, "wallet"), none, any)
    [] k = "updateWallet"   -> Bodies(k, {0}, Amounts, null, Known(wallets), none, any)
    [] k = "removeWallet"   -> Bodies(k, {0}, {0}, null, Known(wallets), none, any)
    [] k = "createCategory" -> Bodies(k, {0}, {0}, Fresh(categories, "category"), null, none, Types)
    [] k = "updateCategory" -> Bodies(k, {0}, {0}, Known(categories), null, none, Types)
    [] k = "removeCategory" -> Bodies(k, {0}, {0}, Known(categories), null, none, any)

Goto(r, s) == pc' = [pc EXCEPT ![r] = s]
Wrote(r)   == wrote' = wrote \cup {r}
Drift(ws)  == drifted' = drifted \cup (ws \ {NoRef})

(* Requests are numbered in the order they arrive. *)
Start(r) ==
  /\ pc[r] = "idle"
  /\ \A q \in Reqs : q < r => pc[q] # "idle"
  /\ Cardinality(InFlight) < MaxInFlight
  /\ \E k \in Kinds : \E q \in Requests(k) :
       req' = [req EXCEPT ![r] = q] /\ Goto(r, FirstStatement(q))
  /\ UNCHANGED <<db, old, type, step, snap, hist>>

-----------------------------------------------------------------------------
(* Lookups: a row that is not live is a 404 *)

FindTx(r) ==
  /\ pc[r] = "findTx"
  /\ \/ /\ ~Live(txs, req[r].tx)
        /\ Goto(r, "failed")
        /\ UNCHANGED <<old, type>>
     \/ /\ Live(txs, req[r].tx)
        /\ LET o == LoadTx(req[r].tx) IN
             /\ old'  = [old EXCEPT ![r] = o]
             /\ type' = [type EXCEPT ![r] = o.type]
             /\ Goto(r, AfterTx(req[r], o))
  /\ UNCHANGED <<db, req, step, snap, hist>>

FindCategory(r) ==
  /\ pc[r] = "findCategory"
  /\ \/ /\ ~Live(categories, req[r].category)
        /\ Goto(r, "failed")
        /\ UNCHANGED type
     \/ /\ Live(categories, req[r].category)
        /\ type' = [type EXCEPT ![r] = categories[req[r].category].type]
        /\ Goto(r, AfterCategory(req[r], old[r]))
  /\ UNCHANGED <<db, req, old, step, snap, hist>>

FindWallet(r) ==
  /\ pc[r] = "findWallet"
  /\ Goto(r, IF Live(wallets, req[r].wallet) THEN AfterWallet(req[r]) ELSE "failed")
  /\ UNCHANGED <<db, req, old, type, step, snap, hist>>

-----------------------------------------------------------------------------
(* Writes *)

(* groupsService.findOne, then addExpense inside try/catch: whatever it      *)
(* throws is swallowed.  Without splits it always throws, because the split  *)
(* type is EXACT.  Groups and members are not modelled here.                 *)
FindGroupAndAddExpense(r) ==
  /\ pc[r] = "group"
  /\ \/ Goto(r, "failed") /\ UNCHANGED groupExpenses
     \/ Goto(r, "insertTx") /\ UNCHANGED groupExpenses
     \/ /\ req[r].group = "split"
        /\ groupExpenses' = groupExpenses \cup {r}
        /\ Goto(r, "insertTx")
  /\ UNCHANGED <<wallets, categories, txs, req, old, type, step, snap, hist>>

InsertTx(r) ==
  /\ pc[r] = "insertTx"
  /\ txs' = [txs EXCEPT ![r] = [state |-> "live", amount |-> SignedAmount(req[r].amount, type[r]),
                               category |-> req[r].category, wallet |-> req[r].wallet]]
  /\ Goto(r, AfterInsert(req[r]))
  /\ Wrote(r)
  /\ UNCHANGED <<wallets, categories, groupExpenses, req, old, type, step, snap,
                 drifted, opening, bystanders>>

NextAdjustment(r) ==
  IF step[r] < Len(Adjustments(r))
  THEN step' = [step EXCEPT ![r] = @ + 1] /\ Goto(r, "readBalance")
  ELSE UNCHANGED step /\ Goto(r, AfterBalances(r))

(* updateBalance, findOne: an adjustment of a wallet that is gone is skipped. *)
ReadBalance(r) ==
  /\ pc[r] = "readBalance"
  /\ LET w == Adjusted(r) IN
       \/ /\ Live(wallets, w)
          /\ snap' = [snap EXCEPT ![r] = wallets[w].balance]
          /\ Goto(r, "writeBalance")
          /\ UNCHANGED <<step, drifted>>
       \/ /\ ~Live(wallets, w)
          /\ NextAdjustment(r)
          /\ Drift({w})
          /\ UNCHANGED snap
  /\ UNCHANGED <<db, req, old, type, wrote, opening, bystanders>>

(* A balance is lost by a write that rests on an outdated read, and by the     *)
(* two reversals that do not undo: the removal of an expense, and the update *)
(* of a positive amount whose category was made an expense afterwards.       *)
LosesBalance(r) ==
  \/ wallets[Adjusted(r)].balance # snap[r]
  \/ /\ step[r] = 1
     /\ old[r].type = Expense
     /\ \/ req[r].kind = "removeTx"
        \/ req[r].kind = "updateTx" /\ old[r].amount > 0

(* updateBalance, save *)
WriteBalance(r) ==
  /\ pc[r] = "writeBalance"
  /\ wallets' = [wallets EXCEPT ![Adjusted(r)] =
                   [state |-> "live", balance |-> NewBalance(r)]]
  /\ NextAdjustment(r)
  /\ Drift(IF LosesBalance(r) THEN {Adjusted(r)} ELSE {})
  /\ Wrote(r)
  /\ UNCHANGED <<categories, txs, groupExpenses, req, old, type, snap, opening, bystanders>>

(* The row of transaction t is no longer the live one that r loaded. *)
Outdated(r, t) ==
  \/ ~Live(txs, t)
  \/ txs[t].amount # old[r].amount
  \/ txs[t].wallet # old[r].wallet

SaveTx(r) ==
  /\ pc[r] = "saveTx"
  /\ LET t == req[r].tx IN
       /\ txs' = [txs EXCEPT ![t] = [state |-> "live",
                                    amount |-> SignedAmount(req[r].amount, type[r]),
                                    category |-> NewCategory(r), wallet |-> NewWallet(r)]]
       /\ Drift(IF Outdated(r, t) THEN {old[r].wallet, NewWallet(r), txs[t].wallet} ELSE {})
  /\ Goto(r, "done")
  /\ Wrote(r)
  /\ UNCHANGED <<wallets, categories, groupExpenses, req, old, type, step, snap,
                 opening, bystanders>>

(* The requests that may still hold row x as they loaded it. *)
Deleting(r, x) == bystanders' = [bystanders EXCEPT ![x] = InFlight \ {r}]

SoftRemoveTx(r) ==
  /\ pc[r] = "softRemoveTx"
  /\ LET t == req[r].tx IN
       /\ txs' = [txs EXCEPT ![t].state = "deleted"]
       /\ Drift(IF Outdated(r, t) THEN {old[r].wallet, txs[t].wallet} ELSE {})
       /\ Deleting(r, t)
  /\ Goto(r, "done")
  /\ Wrote(r)
  /\ UNCHANGED <<wallets, categories, groupExpenses, req, old, type, step, snap, opening>>

InsertWallet(r) ==
  /\ pc[r] = "insertWallet"
  /\ wallets' = [wallets EXCEPT ![req[r].wallet] = [state |-> "live", balance |-> req[r].amount]]
  /\ opening' = [opening EXCEPT ![req[r].wallet] = req[r].amount]
  /\ Goto(r, "done")
  /\ Wrote(r)
  /\ UNCHANGED <<categories, txs, groupExpenses, req, old, type, step, snap, drifted, bystanders>>

(* The balance is a required field of the update body. *)
SaveWallet(r) ==
  /\ pc[r] = "saveWallet"
  /\ wallets' = [wallets EXCEPT ![req[r].wallet] = [state |-> "live", balance |-> req[r].amount]]
  /\ Drift({req[r].wallet})
  /\ Goto(r, "done")
  /\ Wrote(r)
  /\ UNCHANGED <<categories, txs, groupExpenses, req, old, type, step, snap, opening, bystanders>>

DeleteWallet(r) ==
  /\ pc[r] = "deleteWallet"
  /\ wallets' = [wallets EXCEPT ![req[r].wallet].state = "deleted"]
  /\ Deleting(r, req[r].wallet)
  /\ Goto(r, "done")
  /\ Wrote(r)
  /\ UNCHANGED <<categories, txs, groupExpenses, req, old, type, step, snap, drifted, opening>>

InsertCategory(r) ==
  /\ pc[r] = "insertCategory"
  /\ categories' = [categories EXCEPT ![req[r].category] = [state |-> "live", type |-> req[r].type]]
  /\ Goto(r, "done")
  /\ Wrote(r)
  /\ UNCHANGED <<wallets, txs, groupExpenses, req, old, type, step, snap, drifted, opening, bystanders>>

(* A body without a type leaves the stored one, as a body that repeats it does. *)
SaveCategory(r) ==
  /\ pc[r] = "saveCategory"
  /\ categories' = [categories EXCEPT ![req[r].category] = [state |-> "live", type |-> req[r].type]]
  /\ Goto(r, "done")
  /\ Wrote(r)
  /\ UNCHANGED <<wallets, txs, groupExpenses, req, old, type, step, snap, drifted, opening, bystanders>>

DeleteCategory(r) ==
  /\ pc[r] = "deleteCategory"
  /\ categories' = [categories EXCEPT ![req[r].category].state = "deleted"]
  /\ Deleting(r, req[r].category)
  /\ Goto(r, "done")
  /\ Wrote(r)
  /\ UNCHANGED <<wallets, txs, groupExpenses, req, old, type, step, snap, drifted, opening>>

-----------------------------------------------------------------------------
(* A database error or a crash ends a handler at any of its statements.  No   *)
(* database transaction spans them, so what it has written stays.            *)
Abort(r) ==
  /\ r \in InFlight
  /\ Cardinality({q \in Reqs : pc[q] = "aborted"}) < MaxAborts
  /\ Goto(r, "aborted")
  /\ Drift(IF r \in wrote THEN {a.wallet : a \in Range(Adjustments(r))} ELSE {})
  /\ UNCHANGED <<db, req, old, type, step, snap, wrote, opening, bystanders>>

Rest ==
  /\ \A r \in Reqs : pc[r] \in Ended
  /\ UNCHANGED vars

Init ==
  /\ wallets = [w \in Wallets |->
       [state |-> IF w \in InitialWallets THEN "live" ELSE "absent", balance |-> 0]]
  /\ categories = [c \in Categories |->
       IF c \in DOMAIN InitialTypes THEN [state |-> "live", type |-> InitialTypes[c]]
       ELSE [state |-> "absent", type |-> Expense]]
  /\ txs = [t \in TxIds |-> [state |-> "absent", amount |-> 0, category |-> NoRef, wallet |-> NoRef]]
  /\ groupExpenses = {}
  /\ req = [r \in Reqs |-> Blank]
  /\ pc = [r \in Reqs |-> "idle"]
  /\ old = [r \in Reqs |-> NoTx]
  /\ type = [r \in Reqs |-> Expense]
  /\ step = [r \in Reqs |-> 1]
  /\ snap = [r \in Reqs |-> 0]
  /\ wrote = {}
  /\ drifted = {}
  /\ opening = [w \in Wallets |-> 0]
  /\ bystanders = [x \in Rows |-> {}]

Statement(r) ==
  \/ FindTx(r) \/ FindCategory(r) \/ FindWallet(r) \/ FindGroupAndAddExpense(r)
  \/ InsertTx(r) \/ ReadBalance(r) \/ WriteBalance(r) \/ SaveTx(r) \/ SoftRemoveTx(r)
  \/ InsertWallet(r) \/ SaveWallet(r) \/ DeleteWallet(r)
  \/ InsertCategory(r) \/ SaveCategory(r) \/ DeleteCategory(r)

Next == Rest \/ \E r \in Reqs : Start(r) \/ Statement(r) \/ Abort(r)

Spec == Init /\ [][Next]_vars

-----------------------------------------------------------------------------
(* Properties *)

Statements == {"findTx", "findCategory", "findWallet", "group", "insertTx", "readBalance",
               "writeBalance", "saveTx", "softRemoveTx", "insertWallet", "saveWallet",
               "deleteWallet", "insertCategory", "saveCategory", "deleteCategory"}
WalletRefs   == Wallets \cup {NoRef}
CategoryRefs == Categories \cup {NoRef}


WalletRow   == [state : RowStates, balance : Int]
CategoryRow == [state : RowStates, type : Types]
TxRow       == [state : RowStates, amount : Int, category : CategoryRefs, wallet : WalletRefs]
TxAsLoaded  == [amount : Int, category : CategoryRefs, type : Types, wallet : WalletRefs]
Request     == [kind : ReqKinds \cup {"none"}, tx : 0..MaxRequests, amount : Int,
                category : CategoryRefs, wallet : WalletRefs,
                group : {"none", "bare", "split"}, type : Types]

(* Every variable has the shape its table or local has in the services. *)
TypeOK ==
  /\ wallets \in [Wallets -> WalletRow]
  /\ categories \in [Categories -> CategoryRow]
  /\ txs \in [TxIds -> TxRow]
  /\ groupExpenses \subseteq TxIds
  /\ req \in [Reqs -> Request]
  /\ pc \in [Reqs -> Statements \cup Ended \cup {"idle"}]
  /\ old \in [Reqs -> TxAsLoaded]
  /\ type \in [Reqs -> Types]
  /\ step \in [Reqs -> 1..2]
  /\ snap \in [Reqs -> Int]
  /\ wrote \subseteq Reqs
  /\ drifted \subseteq Wallets
  /\ opening \in [Wallets -> Int]
  /\ bystanders \in [Rows -> SUBSET Reqs]

AmountsOf(w) == SumFunction([t \in {x \in TxIds : Live(txs, x) /\ txs[x].wallet = w} |-> txs[t].amount])

(* Once no request is in flight, the balance of a wallet is its opening        *)
(* balance and the sum of its live transactions, whatever the interleaving,  *)
(* except for a wallet that met one of the causes the model names: an        *)
(* outdated read or row written back, a wrong reversal, a skipped adjustment,*)
(* a balance set by hand, or a request cut short.                            *)
BooksBalance ==
  InFlight = {} => \A w \in Known(wallets) \ drifted :
    wallets[w].balance = opening[w] + AmountsOf(w)

(* A request that is answered with an error by the handler itself has changed *)
(* nothing: every check of create, update and remove precedes every write.   *)
FailedRequestsAreSilent ==
  \A r \in Reqs : pc[r] = "failed" =>
    r \notin wrote /\ r \notin groupExpenses /\ txs[r].state = "absent"

(* The sign of a live transaction is the one its category gives it, as long   *)
(* as nobody changed the category itself; without a category it is spent.    *)
SignFollowsCategory ==
  \A t \in Known(txs) :
    LET c == txs[t].category
        retyped == \E r \in Reqs : req[r].kind = "updateCategory" /\ req[r].category = c /\ pc[r] = "done"
    IN  \/ c # NoRef /\ retyped
        \/ IF c # NoRef /\ categories[c].type = Income THEN txs[t].amount >= 0 ELSE txs[t].amount <= 0

Deleted(x) ==
  \/ x \in TxIds      /\ txs[x].state = "deleted"
  \/ x \in Wallets    /\ wallets[x].state = "deleted"
  \/ x \in Categories /\ categories[x].state = "deleted"

(* A deleted row comes back only through the save of a request that was       *)
(* already being served when the row was deleted: no later request can bring *)
(* it back, because findOne no longer sees it.                               *)
ReviveOnlyByBystander ==
  [][\A x \in Rows : Deleted(x) /\ ~Deleted(x)' =>
       \E r \in bystanders[x] : pc'[r] # pc[r]]_vars

-----------------------------------------------------------------------------
(* What the repository says of these services and the code does not do *)

(* remove, "Revert balance": the balance it writes takes the amount of the    *)
(* removed transaction back.                                                 *)
RemoveRevertsBalance ==
  [][\A r \in Reqs :
       req[r].kind = "removeTx" /\ pc[r] = "writeBalance" /\ pc'[r] = "softRemoveTx" =>
         wallets'[Adjusted(r)].balance = wallets[Adjusted(r)].balance - old[r].amount]_vars
=============================================================================
