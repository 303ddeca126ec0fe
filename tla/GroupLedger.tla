---------------------------- MODULE GroupLedger -----------------------------
(***************************************************************************)
(* One group: its members, expenses and settlements, as GroupsService and  *)
(* GroupExpensesService of src/src/modules/finance/services keep them.     *)
(*                                                                         *)
(* A request is a process and an action one database statement of its      *)
(* handler with the local code up to the next await; statements of         *)
(* different requests interleave.  group_member_entity has no unique       *)
(* constraint, rows of these tables are never updated except isHidden, and *)
(* never removed.                                                          *)
(***************************************************************************)
EXTENDS Integers, FiniteSets, Functions

CONSTANTS
  Users,           \* users of the application
  NoUser,          \* the user a field that is not used names
  Amounts,         \* amounts in cents
  Divisions,       \* how the splits sent with an expense may divide it
  Kinds,           \* the request kinds of this instance
  InitialMembers,  \* members at the start; none: the group is not created yet
  Muted,           \* users who switched these notifications off
  MaxRequests,     \* bound: number of requests
  MaxInFlight,     \* bound: requests served at the same time
  MaxAborts        \* bound: requests cut short by a database error or a crash

ReqKinds == {"create", "addMember", "joinByCode", "toggleHidden", "addExpense", "settleUp", "getDebts"}

ASSUME UsersAssumption  ==
  IsFiniteSet(Users) /\ NoUser \notin Users /\ InitialMembers \subseteq Users /\ Muted \subseteq Users
ASSUME AmountsAssumption == Amounts \subseteq Int
ASSUME DivisionsAssumption == Divisions \subseteq [charged : [Users -> Nat], credited : [Users -> Nat]]
ASSUME KindsAssumption  == Kinds \subseteq ReqKinds
ASSUME BoundsAssumption ==
  MaxRequests \in Nat /\ MaxInFlight \in Nat /\ MaxAborts \in Nat

Reqs == 1..MaxRequests

VARIABLES
  group,        \* is the group_entity row there
  members,      \* group_member_entity rows; id: the request that inserted it, 0 at the start
  expenses,     \* group_expense_entity rows; charged, credited: what the splits of a user
                \* above, and below, nothing come to
  settlements,  \* settlement_entity rows
  notified,     \* <<r, u>>: request r created a notification for u
  req, pc,      \* what each request asks for, the statement it is about to execute
  seen,         \* member rows a request loaded with the group
  queue,        \* member rows a request has still to notify
  read,         \* expenses and settlements getDebts has loaded
  toggled,      \* member row toggleHidden loaded
  met           \* history: requests whose handling overlapped with this one's

db    == <<group, members, expenses, settlements, notified>>
vars  == <<group, members, expenses, settlements, notified,
           req, pc, seen, queue, read, toggled, met>>

Asks(k, u, v, a, s, f) ==
  [kind |-> k, user |-> u, other |-> v, amount |-> a, split |-> s, from |-> f]
Blank == Asks("none", NoUser, NoUser, 0, "equal", NoUser)
NoRow == [id |-> 0, user |-> NoUser, hidden |-> FALSE]
NothingRead == [expenses |-> {}, settlements |-> {}]

Ended    == {"done", "failed", "aborted"}
InFlight == {r \in Reqs : pc[r] \notin Ended \cup {"idle"}}

UsersOf(rows) == {m.user : m \in rows}

Goto(r, s) == pc' = [pc EXCEPT ![r] = s]

-----------------------------------------------------------------------------
(* Shares and balances.  An operator named Bug... is a seeded fault that stands *)
(* beside the definition it would replace; nothing uses it.                  *)

Abs(a) == IF a < 0 THEN -a ELSE a

(* Number((amount / n).toFixed(2)): a nearest cent. *)
PerPerson(amount, n) ==
  {p \in -Abs(amount)..Abs(amount) : 2 * Abs(p * n - amount) <= n}

AboveNothing(a) == IF a > 0 THEN a ELSE 0

(* A split of the same amount for each member row. *)
Evenly(p, rows) ==
  LET Count(u) == Cardinality({m \in rows : m.user = u}) IN
  [charged  |-> [u \in Users |-> AboveNothing(p) * Count(u)],
   credited |-> [u \in Users |-> AboveNothing(-p) * Count(u)]]

(* EQUAL without splits charges each member row alike.  Splits sent with the *)
(* body are taken as they are, whomever they name, whatever their signs and  *)
(* whether or not they come to the amount.                                   *)
Charges(q, rows) ==
  IF q.split = "equal" THEN {Evenly(p, rows) : p \in PerPerson(q.amount, Cardinality(rows))}
  ELSE Divisions

(* What the splits of an expense come to, for each user. *)
Owes(x) == [u \in Users |-> x.charged[u] - x.credited[u]]

BugOneSided(e, s) ==
  [u \in Users |->
     SumFunction([x \in e |-> (IF x.payer = u THEN x.amount ELSE 0) - Owes(x)[u]])
     + SumFunction([x \in s |-> IF x.from = u THEN x.amount ELSE 0])]

(* The balances getDebts computes: positive for those who are owed. *)
NetBalances(e, s) ==
  [u \in Users |->
     SumFunction([x \in e |-> (IF x.payer = u THEN x.amount ELSE 0) - Owes(x)[u]])
     + SumFunction([x \in s |-> (IF x.from = u THEN x.amount ELSE 0)
                                - (IF x.to = u THEN x.amount ELSE 0)])]

-----------------------------------------------------------------------------
(* Requests: user asks; other is added, has paid (paidBy), or is paid to by  *)
(* from; split: no splits sent and splitType EQUAL or EXACT, or splits given. *)

(* The instance is one group: it is created once.                             *)
Founders == IF group \/ \E r \in Reqs : req[r].kind = "create" THEN {} ELSE Users

Requests(k) ==
  CASE k = "addExpense" ->
         {Asks(k, u, v, a, s, NoUser) :
            u \in Users, v \in Users, a \in Amounts, s \in {"equal", "exact", "given"}}
    [] k = "settleUp" ->
         {Asks(k, u, v, a, "equal", f) : u \in Users, v \in Users, a \in Amounts, f \in Users}
    [] k = "addMember" -> {Asks(k, u, v, 0, "equal", NoUser) : u \in Users, v \in Users}
    [] k = "create" -> {Asks(k, u, NoUser, 0, "equal", NoUser) : u \in Founders}
    [] OTHER -> {Asks(k, u, NoUser, 0, "equal", NoUser) : u \in Users}

FirstStatement(k) ==
  CASE k = "create" -> "saveGroup"
    [] k = "toggleHidden" -> "findMember"
    [] OTHER -> "findGroup"

(* Requests are numbered in the order they arrive. *)
Start(r) ==
  /\ pc[r] = "idle"
  /\ \A q \in Reqs : q < r => pc[q] # "idle"
  /\ Cardinality(InFlight) < MaxInFlight
  /\ \E k \in Kinds : \E q \in Requests(k) :
       req' = [req EXCEPT ![r] = q] /\ Goto(r, FirstStatement(k))
  /\ met' = [q \in Reqs |-> IF q = r THEN InFlight
                            ELSE IF q \in InFlight THEN met[q] \cup {r} ELSE met[q]]
  /\ UNCHANGED <<db, seen, queue, read, toggled>>

-----------------------------------------------------------------------------
(* Reads.  A member row of the group is what groupsService.findOne loads and  *)
(* checks; the code holds on to those rows until it answers.                 *)

BugAnyoneMayAsk(q, rows) == TRUE

MayAsk(q, rows) == q.kind = "joinByCode" \/ q.user \in UsersOf(rows)

AfterGroup(q, rows) ==
  IF \/ ~MayAsk(q, rows)
     \/ q.kind = "addExpense" /\ (q.other \notin UsersOf(rows) \/ q.split = "exact")
  THEN "failed"
  ELSE CASE q.kind \in {"addMember", "joinByCode"} -> "findMember"
         [] q.kind = "settleUp" -> "saveSettlement"
         [] q.kind = "getDebts" -> "readExpenses"
         [] q.kind = "addExpense" -> "saveExpense"

FindGroup(r) ==
  /\ pc[r] = "findGroup"
  /\ seen' = [seen EXCEPT ![r] = members]
  /\ Goto(r, IF group THEN AfterGroup(req[r], members) ELSE "failed")
  /\ UNCHANGED <<db, req, queue, read, toggled, met>>

(* The user whose membership is looked up. *)
Subject(q) == IF q.kind = "addMember" THEN q.other ELSE q.user

BugVisibleOnly(u) == {m \in members : m.user = u /\ ~m.hidden}

MembershipsOf(u) == {m \in members : m.user = u}

(* findOne of a membership; with several rows of a user it returns any. *)
FindMember(r) ==
  /\ pc[r] = "findMember"
  /\ LET found == MembershipsOf(Subject(req[r])) IN
       \/ /\ found = {}
          /\ Goto(r, IF req[r].kind = "toggleHidden" THEN "failed" ELSE "saveMember")
          /\ UNCHANGED toggled
       \/ /\ found # {}
          /\ req[r].kind # "toggleHidden"
          /\ Goto(r, IF req[r].kind = "joinByCode" THEN "done" ELSE "failed")
          /\ UNCHANGED toggled
       \/ /\ req[r].kind = "toggleHidden"
          /\ \E m \in found : toggled' = [toggled EXCEPT ![r] = m]
          /\ Goto(r, "saveHidden")
  /\ UNCHANGED <<db, req, seen, queue, read, met>>

ReadExpenses(r) ==
  /\ pc[r] = "readExpenses"
  /\ read' = [read EXCEPT ![r].expenses = expenses]
  /\ Goto(r, "readSettlements")
  /\ UNCHANGED <<db, req, seen, queue, toggled, met>>

ReadSettlements(r) ==
  /\ pc[r] = "readSettlements"
  /\ read' = [read EXCEPT ![r].settlements = settlements]
  /\ Goto(r, "done")
  /\ UNCHANGED <<db, req, seen, queue, toggled, met>>

-----------------------------------------------------------------------------
(* Writes *)

SaveGroup(r) ==
  /\ pc[r] = "saveGroup"
  /\ group' = TRUE
  /\ Goto(r, "saveCreator")
  /\ UNCHANGED <<members, expenses, settlements, notified, req, seen, queue, read, toggled, met>>

BugNoDefault(r, u) == members' = members \cup {[id |-> r, user |-> u]}

Insert(r, u) == members' = members \cup {[id |-> r, user |-> u, hidden |-> FALSE]}

SaveCreator(r) ==
  /\ pc[r] = "saveCreator"
  /\ Insert(r, req[r].user)
  /\ Goto(r, "done")
  /\ UNCHANGED <<group, expenses, settlements, notified, req, seen, queue, read, toggled, met>>

(* After the write, the other members are notified one after the other. *)
Notify(r, rows) ==
  /\ queue' = [queue EXCEPT ![r] = rows]
  /\ Goto(r, IF rows = {} THEN "done" ELSE "dispatch")

(* A member row of the one who joins can be among the rows the group had.    *)
MemberAudience(r) ==
  IF req[r].kind = "joinByCode" THEN seen[r] ELSE {m \in seen[r] : m.user # req[r].other}

SaveMember(r) ==
  /\ pc[r] = "saveMember"
  /\ Insert(r, Subject(req[r]))
  /\ Notify(r, MemberAudience(r))
  /\ UNCHANGED <<group, expenses, settlements, notified, req, seen, read, toggled, met>>

BugRequesterOnly(r) == {m \in seen[r] : m.user = req[r].user}

ExpenseAudience(r) == {m \in seen[r] : m.user # req[r].user}

SaveExpense(r) ==
  /\ pc[r] = "saveExpense"
  /\ \E d \in Charges(req[r], seen[r]) :
       expenses' = expenses \cup {[id |-> r, payer |-> req[r].other, amount |-> req[r].amount,
                                   charged |-> d.charged, credited |-> d.credited]}
  /\ Notify(r, ExpenseAudience(r))
  /\ UNCHANGED <<group, members, settlements, notified, req, seen, read, toggled, met>>

SaveSettlement(r) ==
  /\ pc[r] = "saveSettlement"
  /\ settlements' = settlements \cup
       {[id |-> r, from |-> req[r].from, to |-> req[r].other, amount |-> req[r].amount]}
  /\ Goto(r, "done")
  /\ UNCHANGED <<group, members, expenses, notified, req, seen, queue, read, toggled, met>>

BugHide(m) == [m EXCEPT !.hidden = TRUE]

Flip(m) == [m EXCEPT !.hidden = ~@]

(* save writes the row as toggleHidden changed its own copy of it. *)
SaveHidden(r) ==
  /\ pc[r] = "saveHidden"
  /\ members' = {m \in members : m.id # toggled[r].id \/ m.user # toggled[r].user}
               \cup {Flip(toggled[r])}
  /\ Goto(r, "done")
  /\ UNCHANGED <<group, expenses, settlements, notified, req, seen, queue, read, toggled, met>>

(* dispatch creates nothing for a user who switched the type off. *)
Dispatch(r) ==
  /\ pc[r] = "dispatch"
  /\ \E m \in queue[r] :
       /\ notified' = notified \cup ({<<r, m.user>>} \ {<<r, u>> : u \in Muted})
       /\ Notify(r, queue[r] \ {m})
  /\ UNCHANGED <<group, members, expenses, settlements, req, seen, read, toggled, met>>

(* A database error or a crash, dispatch throwing included: what is written stays. *)
Abort(r) ==
  /\ r \in InFlight
  /\ Cardinality({q \in Reqs : pc[q] = "aborted"}) < MaxAborts
  /\ Goto(r, "aborted")
  /\ UNCHANGED <<db, req, seen, queue, read, toggled, met>>

Rest ==
  /\ \A r \in Reqs : pc[r] \in Ended
  /\ UNCHANGED vars

Init ==
  /\ group = (InitialMembers # {})
  /\ members = {[id |-> 0, user |-> u, hidden |-> FALSE] : u \in InitialMembers}
  /\ expenses = {} /\ settlements = {} /\ notified = {}
  /\ req = [r \in Reqs |-> Blank]
  /\ pc = [r \in Reqs |-> "idle"]
  /\ seen = [r \in Reqs |-> {}]
  /\ queue = [r \in Reqs |-> {}]
  /\ read = [r \in Reqs |-> NothingRead]
  /\ toggled = [r \in Reqs |-> NoRow]
  /\ met = [r \in Reqs |-> {}]

Statement(r) ==
  \/ FindGroup(r) \/ FindMember(r) \/ ReadExpenses(r) \/ ReadSettlements(r)
  \/ SaveGroup(r) \/ SaveCreator(r) \/ SaveMember(r) \/ SaveExpense(r)
  \/ SaveSettlement(r) \/ SaveHidden(r) \/ Dispatch(r)

Next == Rest \/ \E r \in Reqs : Start(r) \/ Statement(r) \/ Abort(r)

Spec == Init /\ [][Next]_vars

-----------------------------------------------------------------------------
(* Properties *)

Statements == {"findGroup", "findMember", "readExpenses", "readSettlements", "saveGroup",
               "saveCreator", "saveMember", "saveExpense", "saveSettlement", "saveHidden", "dispatch"}
Request == [kind : ReqKinds \cup {"none"}, user : Users \cup {NoUser}, other : Users \cup {NoUser},
            amount : Int, split : {"equal", "exact", "given"}, from : Users \cup {NoUser}]
MemberRow   == [id : 0..MaxRequests, user : Users, hidden : BOOLEAN]
ExpenseRow  == [id : Reqs, payer : Users, amount : Int,
                charged : [Users -> Nat], credited : [Users -> Nat]]
TransferRow == [id : Reqs, from : Users, to : Users, amount : Int]

(* The rows have the columns of the entities, the locals those of the handlers. *)
TypeOK ==
  /\ group \in BOOLEAN
  /\ members \subseteq MemberRow
  /\ expenses \subseteq ExpenseRow
  /\ settlements \subseteq TransferRow
  /\ notified \subseteq Reqs \X Users
  /\ req \in [Reqs -> Request]
  /\ pc \in [Reqs -> Statements \cup Ended \cup {"idle"}]
  /\ seen \in [Reqs -> SUBSET MemberRow]
  /\ queue \in [Reqs -> SUBSET MemberRow]
  /\ read \in [Reqs -> [expenses : SUBSET ExpenseRow, settlements : SUBSET TransferRow]]
  /\ toggled \in [Reqs -> MemberRow \cup {NoRow}]
  /\ met \in [Reqs -> SUBSET Reqs]

(* A user is a member twice only when the two requests that added the rows    *)
(* were served at the same time: "already a member" holds against everything *)
(* that had ended before.                                                    *)
MemberTwiceOnlyByRace ==
  \A m, n \in members : m.user = n.user /\ m.id < n.id => m.id \in met[n.id]

(* Whoever records an expense or a settlement, and whoever is said to have    *)
(* paid an expense, is a member of the group.                                *)
OnlyMembersRecord ==
  /\ \A x \in expenses : {req[x.id].user, x.payer} \subseteq UsersOf(members)
  /\ \A x \in settlements : req[x.id].user \in UsersOf(members)

(* Rows that were there before request r began. *)
Before(rows, r) == {x \in rows : x.id < r /\ x.id \notin met[r]}

(* The news is about them, or they did it.  "except payer" says the comment   *)
(* on an expense, except who recorded it says the code: either is open here.  *)
Concerned(r) ==
  CASE req[r].kind = "addMember" -> {req[r].other}
    [] req[r].kind = "addExpense" -> {req[r].user, req[r].other}
    [] OTHER -> {req[r].user}

(* Once a request has stored a new member or an expense, every member who had *)
(* joined before it began is told or still waits in its loop, unless the news *)
(* concerns themselves or they switched it off; a request that succeeds leaves *)
(* nobody waiting, and one cut short leaves out only those who still were.    *)
(* Members who join while it runs may miss it.                               *)
NewsReachesMembers ==
  \A r \in Reqs : req[r].kind # "create" /\ (\E x \in members \cup expenses : x.id = r) =>
    /\ pc[r] = "done" => queue[r] = {}
    /\ \A m \in Before(members, r) :
         m.user \in Muted \cup Concerned(r) \cup UsersOf(queue[r]) \/ <<r, m.user>> \in notified

Asked(r) == pc[r] = "done" /\ req[r].kind = "getDebts"

(* getDebts counts every expense and settlement that was recorded before it   *)
(* was asked.                                                                *)
DebtsCoverLedger ==
  \A r \in Reqs : Asked(r) => /\ Before(expenses, r) \subseteq read[r].expenses
                             /\ Before(settlements, r) \subseteq read[r].settlements

(* Its balances add up to what expenses left unassigned: settlements move     *)
(* money and never create or lose any.                                       *)
DebtsAddUp ==
  \A r \in Reqs : Asked(r) =>
    SumFunction(NetBalances(read[r].expenses, read[r].settlements)) =
      SumFunction([x \in read[r].expenses |-> x.amount - SumFunction(Owes(x))])

(* Its answer accounts for the whole ledger, even when a settlement is         *)
(* recorded between its two queries.                                         *)
DebtsAccountForLedger == DebtsCoverLedger /\ DebtsAddUp

Toggles(u) == {r \in Reqs : req[r].kind = "toggleHidden" /\ req[r].user = u /\ pc[r] = "done"}

(* A group is hidden for a member who toggled it an odd number of times, as   *)
(* long as no two of the toggles were served at the same time.               *)
HiddenFollowsToggles ==
  \A m \in members :
    \/ \E n \in members : n.user = m.user /\ n.id # m.id
    \/ \E r, q \in Toggles(m.user) : q \in met[r]
    \/ m.hidden = (Cardinality(Toggles(m.user)) % 2 = 1)
=============================================================================
