------------------------------ MODULE Reports -------------------------------
(***************************************************************************)
(* The group report and the spending summary of reports.service.ts, asked  *)
(* for while the requests of GroupLedger are being served on the tables it *)
(* reads, and while TransactionsService stores the transactions whose      *)
(* group expense it has had recorded.                                      *)
(*                                                                         *)
(* A report changes nothing, so one report at a time shows everything      *)
(* there is to see; its queries are steps of their own.  The CSV exports   *)
(* lay out the same numbers.                                               *)
(***************************************************************************)
EXTENDS GroupLedger

CONSTANT
  Early          \* requests whose client dated the row before the period of the report

ASSUME ReportsAssumption == Early \subseteq Reqs

VARIABLES
  transactions,  \* transaction_entity rows; id: the request of GroupLedger it goes with
  report,        \* the report: what is asked, the next query, the rows it has loaded
  since          \* history: requests that had ended when the report was asked for

rvars == <<vars, transactions, report, since>>

NoReport == [pc |-> "idle", kind |-> "group", user |-> NoUser, open |-> FALSE, cut |-> {},
             members |-> {}, expenses |-> {}, transactions |-> {}, transfers |-> {}]

Queries == {"findGroup", "findUser", "expenses", "settlements", "transactions"}

-----------------------------------------------------------------------------
(* Transactions.  An operator named Bug... is a seeded fault that stands      *)
(* beside the definition it would replace; nothing uses it.                  *)

(* What TransactionsService.create sends to addExpense: the caller pays, and *)
(* the splits are those of the transaction, if it has any.                   *)
FromTransaction(q) == q.kind = "addExpense" /\ q.other = q.user /\ q.split # "equal"

(* The transaction is saved with the sign of its category when addExpense has *)
(* returned, or has thrown: the error is logged and dropped.                 *)
SaveTransaction(r) ==
  /\ pc[r] \in Ended /\ FromTransaction(req[r])
  /\ req[r].user \in UsersOf(seen[r])
  /\ \A t \in transactions : t.id # r
  /\ \E a \in {Abs(req[r].amount), -Abs(req[r].amount)} :
       transactions' = transactions \cup {[id |-> r, user |-> req[r].user, amount |-> a]}
  /\ UNCHANGED <<vars, report, since>>

-----------------------------------------------------------------------------
(* Queries *)

(* The period ends after every row, or at the time getDateRange runs, when    *)
(* the rows there are those of cut.  A row is dated when it is stored, unless *)
(* it is Early; transactions are picked by createdAt, which no client sets.   *)
Created(x) == report.open \/ x \in report.cut

BugIgnoreDate(x) == Created(x)
Dated(x) == Created(x) /\ x.id \notin Early

Load(field, loaded, next) == report' = [report EXCEPT ![field] = loaded, !.pc = next]

AskReport ==
  /\ report.pc = "idle"
  /\ \E k \in {"group", "user"}, u \in Users, b \in BOOLEAN :
       report' = [NoReport EXCEPT !.kind = k, !.user = IF k = "group" THEN NoUser ELSE u, !.open = b,
                                  !.pc = IF k = "group" THEN "findGroup" ELSE "findUser"]
  /\ since' = expenses \cup settlements \cup transactions
  /\ UNCHANGED <<vars, transactions>>

(* The group with its members, or the user; then the period, refused when it *)
(* ends before it begins.                                                    *)
FindSubject ==
  /\ report.pc \in {"findGroup", "findUser"}
  /\ \/ report' = [report EXCEPT !.pc = "refused"]
     \/ /\ report.kind = "group" => group
        /\ report' = [report EXCEPT
             !.members = IF report.kind = "group" THEN members ELSE {},
             !.cut = expenses \cup settlements \cup transactions,
             !.pc = IF report.kind = "group" THEN "expenses" ELSE "transactions"]
  /\ UNCHANGED <<vars, transactions, since>>

LoadTransactions ==
  /\ report.pc = "transactions"
  /\ Load("transactions", {t \in transactions : t.user = report.user /\ Created(t)}, "expenses")
  /\ UNCHANGED <<vars, transactions, since>>

LoadExpenses ==
  /\ report.pc = "expenses"
  /\ IF report.kind = "group"
     THEN Load("expenses", {x \in expenses : Dated(x)}, "settlements")
     ELSE Load("expenses", {x \in expenses : x.payer = report.user /\ Dated(x)}, "done")
  /\ UNCHANGED <<vars, transactions, since>>

LoadSettlements ==
  /\ report.pc = "settlements"
  /\ Load("transfers", {x \in settlements : Dated(x)}, "done")
  /\ UNCHANGED <<vars, transactions, since>>

-----------------------------------------------------------------------------
(* What the reports say *)

(* totalSpent: incomes too are counted by magnitude, and an expense that came *)
(* with a transaction is counted with it and once more by itself.            *)
Magnitudes(rows) == [x \in rows |-> Abs(x.amount)]

TotalSpent == SumFunction(Magnitudes(report.transactions)) + SumFunction(Magnitudes(report.expenses))

Paid(u) == SumFunction(Magnitudes({x \in report.expenses : x.payer = u}))

BugOthersOnly(u) == SumFunction([x \in {y \in report.expenses : y.payer # u} |-> x.charged[u] + x.credited[u]])
(* Splits too are counted by magnitude. *)
Owed(u) == SumFunction([x \in report.expenses |-> x.charged[u] + x.credited[u]])

(* A user with two member rows is listed once. *)
Listed == UsersOf(report.members)

Balance == [u \in Listed |-> Paid(u) - Owed(u)]

(* Every debtor is listed against every creditor, from more than a cent on, *)
(* and marked as settled by any settlement between the two.                  *)
ReportedDebts ==
  {[from |-> u, to |-> v, amount |-> -Balance[u],
    settled |-> \E x \in report.transfers : x.from = u /\ x.to = v] :
     u \in {d \in Listed : Balance[d] < -1}, v \in {c \in Listed : Balance[c] > 1}}

-----------------------------------------------------------------------------

ReportInit == Init /\ transactions = {} /\ report = NoReport /\ since = {}

ReportNext ==
  \/ Next /\ UNCHANGED <<transactions, report, since>>
  \/ \E r \in Reqs : SaveTransaction(r)
  \/ AskReport \/ FindSubject \/ LoadTransactions \/ LoadExpenses \/ LoadSettlements

ReportSpec == ReportInit /\ [][ReportNext]_rvars

-----------------------------------------------------------------------------
(* Properties *)

Answered(k) == report.pc = "done" /\ report.kind = k

(* A report counts every row that was there when it was asked for and belongs *)
(* to its period, and none dated outside of it; whoever paid one of those     *)
(* expenses is in the list of members, although the members are read first;   *)
(* so, but for expenses newer than that, the total is what the listed paid.   *)
ReportIsComplete ==
  LET due(rows) == {x \in since \cap rows : x.id \notin Early} IN
  /\ Answered("group") =>
       /\ due(expenses) \subseteq report.expenses /\ due(settlements) \subseteq report.transfers
       /\ {x.payer : x \in due(expenses)} \subseteq Listed
       /\ report.expenses \subseteq since => TotalSpent = SumFunction([u \in Listed |-> Paid(u)])
  /\ Answered("user") =>
       /\ {x \in due(expenses) : x.payer = report.user} \subseteq report.expenses
       /\ {t \in since \cap transactions : t.user = report.user} \subseteq report.transactions
  /\ \A x \in report.expenses \cup report.transfers : x.id \notin Early

(* Neither an amount nor a split below nothing. *)
NothingNegative(rows) == \A x \in rows : x.amount >= 0 /\ \A u \in Users : x.credited[u] = 0

(* The balances of the report, computed by paid and owed, are those getDebts  *)
(* computes for the same expenses before any settlement, however their splits *)
(* divide them, as long as nobody recorded a negative amount or a negative    *)
(* split: the report counts magnitudes where getDebts keeps the sign.         *)
ReportAgreesWithDebts ==
  Answered("group") /\ NothingNegative(report.expenses) =>
    \A u \in Listed : Balance[u] = NetBalances(report.expenses, {})[u]

-----------------------------------------------------------------------------
(* What the repository says of the report and the code does not do *)

(* "debt from the members' balances (who owes whom)": what the report says a  *)
(* debtor owes adds up to the debtor's balance.                              *)
DebtsMatchBalances ==
  Answered("group") =>
    \A d \in ReportedDebts :
      SumFunction([e \in {x \in ReportedDebts : x.from = d.from} |-> e.amount]) = -Balance[d.from]
=============================================================================
