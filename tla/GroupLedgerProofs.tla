------------------------- MODULE GroupLedgerProofs ---------------------------
(***************************************************************************)
(* Theorems about GroupLedger and the Reports on it, for any users,        *)
(* amounts, initial members and bounds, and any number of requests: who is *)
(* a member, who records, who is told, what getDebts has read and what its *)
(* balances add up to, and what a report counts.                           *)
(*                                                                         *)
(* The invariant is built in layers.  Typed says which request, naming     *)
(* whom, reaches which statement; Ordered what the order of the requests   *)
(* means; Membership which member rows there are; and on these rest who    *)
(* records, who is told and what a toggle leaves behind.  Sums of balances *)
(* are those of the module Sums.                                           *)
(***************************************************************************)
EXTENDS Reports, Sums

(* Which requests come to which statements.                                  *)
MayBeAt(q, s) ==
  /\ s = "idle" <=> q.kind = "none"
  /\ s \in {"saveGroup", "saveCreator"} => q.kind = "create"
  /\ s = "findGroup" => q.kind \in ReqKinds \ {"create", "toggleHidden"}
  /\ s = "findMember" => q.kind \in {"addMember", "joinByCode", "toggleHidden"}
  /\ s = "saveMember" => q.kind \in {"addMember", "joinByCode"}
  /\ s = "saveHidden" => q.kind = "toggleHidden"
  /\ s = "saveExpense" => q.kind = "addExpense"
  /\ s = "saveSettlement" => q.kind = "settleUp"
  /\ s \in {"readExpenses", "readSettlements"} => q.kind = "getDebts"
  /\ s = "dispatch" => q.kind \in {"addMember", "joinByCode", "addExpense"}

(* Whom a request of each kind names.                                        *)
Named(q) ==
  /\ q.kind # "none" => q.user \in Users
  /\ q.kind \in {"addMember", "addExpense", "settleUp"} => q.other \in Users
  /\ q.kind = "settleUp" => q.from \in Users

Control ==
  \A r \in Reqs : /\ Named(req[r])
                  /\ MayBeAt(req[r], pc[r])
                  /\ pc[r] = "saveHidden" => toggled[r] \in MemberRow

(* The tables a share is computed from are finite.                           *)
Finite == IsFiniteSet(members) /\ \A r \in Reqs : IsFiniteSet(seen[r])

Typed == TypeOK /\ Control /\ Finite

-----------------------------------------------------------------------------
(* Requests and shares *)

Sent(k) == {q \in Request : q.kind = k /\ Named(q)}

LEMMA RequestTypes == ASSUME NEW k \in Kinds PROVE Requests(k) \subseteq Sent(k)
  <1>1. \A j \in ReqKinds, u \in Users, v \in Users, a \in Int, s \in {"equal", "exact", "given"}, c \in Users \cup {NoUser} :
          j # "settleUp" \/ c \in Users => Asks(j, u, v, a, s, c) \in Sent(j)
    BY DEF Asks, Sent, Request, Named, ReqKinds
  <1>2. \A j \in {"create", "joinByCode", "toggleHidden", "getDebts"}, u \in Users :
          Asks(j, u, NoUser, 0, "equal", NoUser) \in Sent(j)
    BY DEF Asks, Sent, Request, Named, ReqKinds
  <1>3. Founders \subseteq Users
    BY DEF Founders
  <1>4. CASE k \in {"addExpense", "settleUp", "addMember"}
    <2>1. Requests("addExpense") \subseteq Sent("addExpense")
      BY <1>1, AmountsAssumption DEF Requests, ReqKinds
    <2>2. Requests("settleUp") \subseteq Sent("settleUp")
      BY <1>1, AmountsAssumption DEF Requests, ReqKinds
    <2>3. Requests("addMember") \subseteq Sent("addMember")
      <3>1. \A u \in Users, v \in Users : Asks("addMember", u, v, 0, "equal", NoUser) \in Sent("addMember")
        BY DEF Asks, Sent, Request, Named, ReqKinds
      <3>2. QED
        BY <3>1 DEF Requests
    <2>4. QED
      BY <1>4, <2>1, <2>2, <2>3
  <1>5. CASE k \in {"create", "joinByCode", "toggleHidden", "getDebts"}
    BY <1>2, <1>3, <1>5 DEF Requests
  <1>6. QED
    BY <1>4, <1>5, KindsAssumption DEF ReqKinds

(* A group is created once, by a request that found none.                    *)
LEMMA OneCreates ==
  ASSUME NEW k \in Kinds, NEW q \in Requests(k), q.kind = "create"
  PROVE  ~group /\ \A r \in Reqs : req[r].kind # "create"
  <1>1. k = "create"
    BY RequestTypes DEF Sent
  <1>2. Founders # {}
    BY <1>1 DEF Requests
  <1>3. QED
    BY <1>2 DEF Founders

(* What splits come to is a whole number of cents on either side of nothing. *)
Division == [charged : [Users -> Nat], credited : [Users -> Nat]]

LEMMA ChargeTypes ==
  ASSUME NEW q \in Request, NEW rows, IsFiniteSet(rows), NEW d \in Charges(q, rows)
  PROVE  d \in Division
  <1>1. q.amount \in Int /\ Abs(q.amount) \in Int
    BY DEF Request, Abs
  <1>2. CASE q.split = "equal"
    <2>1. PICK p \in PerPerson(q.amount, Cardinality(rows)) : d = Evenly(p, rows)
      BY <1>2 DEF Charges
    <2>2. AboveNothing(p) \in Nat /\ AboveNothing(-p) \in Nat
      BY <1>1 DEF PerPerson, AboveNothing
    <2>3. \A u \in Users : Cardinality({m \in rows : m.user = u}) \in Nat
      <3> TAKE u \in Users
      <3>1. IsFiniteSet({m \in rows : m.user = u})
        BY FS_Subset
      <3>2. QED
        BY <3>1, FS_CardinalityType
    <2>4. \A k \in Nat : [u \in Users |-> k * Cardinality({m \in rows : m.user = u})] \in [Users -> Nat]
      BY <2>3
    <2>5. QED
      BY <2>1, <2>2, <2>4 DEF Evenly, Division
  <1>3. CASE q.split # "equal"
    BY <1>3, DivisionsAssumption DEF Charges, Division
  <1>4. QED
    BY <1>2, <1>3

LEMMA OwesTypes == ASSUME NEW x \in ExpenseRow PROVE Owes(x) \in [Users -> Int]
  <1>1. x.charged \in [Users -> Nat] /\ x.credited \in [Users -> Nat]
    BY DEF ExpenseRow
  <1>2. QED
    BY <1>1 DEF Owes

-----------------------------------------------------------------------------
LEMMA InitTyped == Init => Typed
  <1> SUFFICES ASSUME Init PROVE Typed
    OBVIOUS
  <1>1. TypeOK
    <2>1. members \subseteq MemberRow
      <3>1. 0 \in 0..MaxRequests
        BY BoundsAssumption
      <3>2. \A u \in InitialMembers : [id |-> 0, user |-> u, hidden |-> FALSE] \in MemberRow
        BY <3>1, UsersAssumption DEF MemberRow
      <3>3. QED
        BY <3>2 DEF Init
    <2>2. req \in [Reqs -> Request] /\ toggled \in [Reqs -> MemberRow \cup {NoRow}]
      BY DEF Init, Blank, Asks, Request
    <2>3. read \in [Reqs -> [expenses : SUBSET ExpenseRow, settlements : SUBSET TransferRow]]
      BY DEF Init, NothingRead
    <2>4. QED
      BY <2>1, <2>2, <2>3 DEF Init, TypeOK
  <1>2. Control
    BY DEF Init, Control, Named, Blank, Asks, MayBeAt, ReqKinds
  <1>3. IsFiniteSet(members)
    <2> DEFINE Row == [u \in InitialMembers |-> [id |-> 0, user |-> u, hidden |-> FALSE]]
    <2>1. members = {Row[u] : u \in InitialMembers}
      BY DEF Init
    <2>2. Row \in Surjection(InitialMembers, members)
      BY <2>1 DEF Surjection
    <2>3. IsFiniteSet(InitialMembers)
      BY UsersAssumption, FS_Subset
    <2>4. QED
      BY <2>2, <2>3, FS_Surjection
  <1>4. Finite
    BY <1>3, FS_EmptySet DEF Init, Finite
  <1>5. QED
    BY <1>1, <1>2, <1>4 DEF Typed

LEMMA StartTyped == ASSUME Typed, NEW r \in Reqs, Start(r) PROVE Typed'
  <1> PICK k \in Kinds : \E q \in Requests(k) : req' = [req EXCEPT ![r] = q] /\ Goto(r, FirstStatement(k))
    BY DEF Start
  <1> PICK q \in Requests(k) : req' = [req EXCEPT ![r] = q] /\ Goto(r, FirstStatement(k))
    OBVIOUS
  <1>1. q \in Request /\ q.kind = k /\ k \in ReqKinds /\ Named(q)
    BY RequestTypes, KindsAssumption DEF Sent
  <1>2. MayBeAt(q, FirstStatement(k)) /\ FirstStatement(k) \in Statements \ {"saveHidden"}
    BY <1>1 DEF FirstStatement, MayBeAt, ReqKinds, Statements
  <1>3. met' \in [Reqs -> SUBSET Reqs]
    BY DEF Start, Typed, TypeOK, InFlight
  <1>4. UNCHANGED <<db, seen, queue, read, toggled>>
    BY DEF Start
  <1>5. TypeOK'
    BY <1>1, <1>2, <1>3, <1>4 DEF Typed, TypeOK, db, Goto
  <1>6. Control'
    BY <1>1, <1>2, <1>4 DEF Typed, TypeOK, Control, Goto, ReqKinds
  <1>7. QED
    BY <1>4, <1>5, <1>6 DEF Typed, Finite, db

(* A statement sends its request to a place it may be at.                    *)
Moves(r) ==
  /\ req' = req
  /\ \E s \in Statements \cup Ended : /\ pc' = [pc EXCEPT ![r] = s]
                                      /\ MayBeAt(req[r], s)
                                      /\ s = "saveHidden" => toggled'[r] \in MemberRow
  /\ \A q \in Reqs \ {r} : toggled'[q] = toggled[q]

LEMMA StatementMoves == ASSUME Typed, NEW r \in Reqs, Statement(r) PROVE Moves(r)
  <1> USE DEF Moves, Typed, Control, Goto, Ended, Statements, MayBeAt, ReqKinds
  <1>1. CASE FindGroup(r)
    <2>1. /\ AfterGroup(req[r], members) \in Statements \cup Ended
          /\ AfterGroup(req[r], members) # "saveHidden"
          /\ MayBeAt(req[r], AfterGroup(req[r], members))
      BY <1>1 DEF FindGroup, AfterGroup
    <2>2. MayBeAt(req[r], "failed") /\ "failed" \in Ended
      BY <1>1 DEF FindGroup
    <2>3. /\ req' = req /\ toggled' = toggled
          /\ \E s \in {AfterGroup(req[r], members), "failed"} : pc' = [pc EXCEPT ![r] = s]
      BY <1>1 DEF FindGroup
    <2> HIDE DEF MayBeAt, Statements, Ended
    <2>4. QED
      BY <2>1, <2>2, <2>3
  <1>2. CASE FindMember(r)
    <2>1. pc[r] = "findMember" /\ req' = req /\ MayBeAt(req[r], "findMember")
      BY <1>2 DEF FindMember
    <2>2. ASSUME toggled' = toggled,
                 NEW s \in {"failed", "saveMember", "done"}, pc' = [pc EXCEPT ![r] = s],
                 s = "saveMember" => req[r].kind # "toggleHidden"
          PROVE  Moves(r)
      <3>1. MayBeAt(req[r], s) /\ s \in Statements \cup Ended /\ s # "saveHidden"
        BY <2>1, <2>2
      <3> HIDE DEF MayBeAt, Statements, Ended
      <3>2. QED
        BY <2>1, <2>2, <3>1
    <2>3. ASSUME NEW m \in members, toggled' = [toggled EXCEPT ![r] = m], req[r].kind = "toggleHidden",
                 pc' = [pc EXCEPT ![r] = "saveHidden"]
          PROVE  Moves(r)
      <3>1. m \in MemberRow /\ toggled'[r] = m /\ \A q \in Reqs \ {r} : toggled'[q] = toggled[q]
        BY <2>3 DEF TypeOK
      <3>2. QED
        BY <2>1, <2>3, <3>1
    <2> HIDE DEF Moves, Typed, Control, MayBeAt
    <2>4. QED
      BY <1>2, <2>2, <2>3 DEF FindMember, MembershipsOf
  <1>3. CASE ReadExpenses(r) \/ ReadSettlements(r)
    BY <1>3 DEF ReadExpenses, ReadSettlements
  <1>4. CASE SaveGroup(r) \/ SaveCreator(r)
    BY <1>4 DEF SaveGroup, SaveCreator
  <1>5. CASE SaveMember(r) \/ SaveExpense(r) \/ Dispatch(r)
    BY <1>5 DEF SaveMember, SaveExpense, Dispatch, Notify
  <1>6. CASE SaveSettlement(r) \/ SaveHidden(r)
    BY <1>6 DEF SaveSettlement, SaveHidden
  <1>7. QED
    BY <1>1, <1>2, <1>3, <1>4, <1>5, <1>6 DEF Statement

LEMMA MovesTyped ==
  ASSUME Typed, NEW r \in Reqs, Moves(r)
  PROVE  Control' /\ pc' \in [Reqs -> Statements \cup Ended \cup {"idle"}]
  <1> PICK s \in Statements \cup Ended : /\ pc' = [pc EXCEPT ![r] = s]
                                         /\ MayBeAt(req[r], s)
                                         /\ s = "saveHidden" => toggled'[r] \in MemberRow
    BY DEF Moves
  <1>1. pc \in [Reqs -> Statements \cup Ended \cup {"idle"}] /\ req' = req
    BY DEF Typed, TypeOK, Moves
  <1>2. \A q \in Reqs \ {r} : pc'[q] = pc[q] /\ toggled'[q] = toggled[q]
    BY <1>1 DEF Moves, Statements, Ended
  <1>3. pc'[r] = s
    BY <1>1 DEF Statements, Ended
  <1>4. Control'
    BY <1>1, <1>2, <1>3 DEF Typed, Control
  <1>5. QED
    BY <1>1, <1>4 DEF Statements, Ended

(* The row a request inserts.                                                *)
LEMMA InsertTyped ==
  ASSUME Typed, NEW r \in Reqs, NEW u \in Users, Insert(r, u)
  PROVE  members' \subseteq MemberRow /\ IsFiniteSet(members')
  <1>1. r \in 0..MaxRequests
    BY BoundsAssumption DEF Reqs
  <1>2. [id |-> r, user |-> u, hidden |-> FALSE] \in MemberRow
    BY <1>1 DEF MemberRow
  <1>3. QED
    BY <1>2, FS_AddElement DEF Insert, Typed, TypeOK, Finite

LEMMA StatementTyped == ASSUME Typed, NEW r \in Reqs, Statement(r) PROVE Typed'
  <1> DEFINE Located == /\ Control' /\ pc' \in [Reqs -> Statements \cup Ended \cup {"idle"}]
                        /\ req' = req /\ req \in [Reqs -> Request]
  <1>0. Located
    BY StatementMoves, MovesTyped DEF Moves, Typed, TypeOK
  <1> HIDE DEF Located
  <1>1. CASE FindGroup(r)
    <2>1. seen' \in [Reqs -> SUBSET MemberRow] /\ \A q \in Reqs : IsFiniteSet(seen'[q])
      BY <1>1 DEF FindGroup, Typed, TypeOK, Finite
    <2>2. QED
      BY <1>0, <1>1, <2>1 DEF Located, FindGroup, db, Typed, TypeOK, Finite
  <1>2. CASE FindMember(r)
    <2>1. toggled' \in [Reqs -> MemberRow \cup {NoRow}]
      BY <1>2 DEF FindMember, MembershipsOf, Typed, TypeOK
    <2>2. QED
      BY <1>0, <1>2, <2>1 DEF Located, FindMember, db, Typed, TypeOK, Finite
  <1>3. CASE ReadExpenses(r) \/ ReadSettlements(r)
    <2>1. CASE ReadExpenses(r)
      BY <1>0, <2>1 DEF Located, ReadExpenses, db, Typed, TypeOK, Finite
    <2>2. CASE ReadSettlements(r)
      BY <1>0, <2>2 DEF Located, ReadSettlements, db, Typed, TypeOK, Finite
    <2>3. QED
      BY <1>3, <2>1, <2>2
  <1>4. CASE SaveGroup(r)
    BY <1>0, <1>4 DEF Located, SaveGroup, Typed, TypeOK, Finite
  <1>5. CASE SaveCreator(r)
    <2>1. members' \subseteq MemberRow /\ IsFiniteSet(members')
      BY <1>5, InsertTyped DEF SaveCreator, Typed, Control, MayBeAt, Named
    <2>2. QED
      BY <1>0, <1>5, <2>1 DEF Located, SaveCreator, Typed, TypeOK, Finite
  <1>6. CASE SaveMember(r)
    <2>1. members' \subseteq MemberRow /\ IsFiniteSet(members')
      BY <1>6, InsertTyped DEF SaveMember, Subject, Typed, Control, MayBeAt, Named
    <2>2. queue' \in [Reqs -> SUBSET MemberRow]
      BY <1>6 DEF SaveMember, Notify, MemberAudience, Typed, TypeOK
    <2>3. QED
      BY <1>0, <1>6, <2>1, <2>2 DEF Located, SaveMember, Typed, TypeOK, Finite
  <1>7. CASE SaveExpense(r)
    <2>1. PICK d \in Charges(req[r], seen[r]) :
            expenses' = expenses \cup {[id |-> r, payer |-> req[r].other, amount |-> req[r].amount,
                                        charged |-> d.charged, credited |-> d.credited]}
      BY <1>7 DEF SaveExpense
    <2>2. d.charged \in [Users -> Nat] /\ d.credited \in [Users -> Nat]
      BY ChargeTypes DEF Typed, TypeOK, Finite, Division
    <2>3. req[r].other \in Users /\ req[r].amount \in Int
      BY <1>7 DEF SaveExpense, Typed, TypeOK, Control, MayBeAt, Named, Request
    <2>4. expenses' \subseteq ExpenseRow
      BY <2>1, <2>2, <2>3 DEF Typed, TypeOK, ExpenseRow
    <2>5. queue' \in [Reqs -> SUBSET MemberRow]
      BY <1>7 DEF SaveExpense, Notify, ExpenseAudience, Typed, TypeOK
    <2>6. QED
      BY <1>0, <1>7, <2>4, <2>5 DEF Located, SaveExpense, Typed, TypeOK, Finite
  <1>8. CASE SaveSettlement(r)
    <2>1. req[r].other \in Users /\ req[r].from \in Users /\ req[r].amount \in Int
      BY <1>8 DEF SaveSettlement, Typed, TypeOK, Control, MayBeAt, Named, Request
    <2>2. settlements' \subseteq TransferRow
      BY <1>8, <2>1 DEF SaveSettlement, Typed, TypeOK, TransferRow
    <2>3. QED
      BY <1>0, <1>8, <2>2 DEF Located, SaveSettlement, Typed, TypeOK, Finite
  <1>9. CASE SaveHidden(r)
    <2>1. toggled[r] \in MemberRow
      BY <1>9 DEF SaveHidden, Typed, Control
    <2>2. Flip(toggled[r]) \in MemberRow
      BY <2>1 DEF Flip, MemberRow
    <2>3. members' \subseteq MemberRow
      BY <1>9, <2>2 DEF SaveHidden, Typed, TypeOK
    <2>4. IsFiniteSet(members')
      <3>1. IsFiniteSet({m \in members : m.id # toggled[r].id \/ m.user # toggled[r].user})
        BY FS_Subset DEF Typed, Finite
      <3>2. QED
        BY <1>9, <3>1, FS_AddElement DEF SaveHidden
    <2>5. QED
      BY <1>0, <1>9, <2>3, <2>4 DEF Located, SaveHidden, Typed, TypeOK, Finite
  <1>10. CASE Dispatch(r)
    <2>1. PICK m \in queue[r] : /\ notified' = notified \cup ({<<r, m.user>>} \ {<<r, u>> : u \in Muted})
                                /\ queue' = [queue EXCEPT ![r] = queue[r] \ {m}]
      BY <1>10 DEF Dispatch, Notify
    <2>2. m.user \in Users
      BY DEF Typed, TypeOK, MemberRow
    <2>3. notified' \subseteq Reqs \X Users
      BY <2>1, <2>2 DEF Typed, TypeOK
    <2>4. queue' \in [Reqs -> SUBSET MemberRow]
      BY <2>1 DEF Typed, TypeOK
    <2>5. QED
      BY <1>0, <1>10, <2>3, <2>4 DEF Located, Dispatch, Typed, TypeOK, Finite
  <1>11. QED
    BY <1>1, <1>2, <1>3, <1>4, <1>5, <1>6, <1>7, <1>8, <1>9, <1>10 DEF Statement

LEMMA StepTyped == Typed /\ [Next]_vars => Typed'
  <1> SUFFICES ASSUME Typed, [Next]_vars PROVE Typed'
    OBVIOUS
  <1>1. ASSUME NEW r \in Reqs, Start(r) PROVE Typed'
    BY <1>1, StartTyped
  <1>2. ASSUME NEW r \in Reqs, Statement(r) PROVE Typed'
    BY <1>2, StatementTyped
  <1>3. ASSUME NEW r \in Reqs, Abort(r) PROVE Typed'
    BY <1>3 DEF Abort, InFlight, Ended, Goto, db, Typed, TypeOK, Control, MayBeAt, Finite
  <1>4. CASE Rest \/ UNCHANGED vars
    <2>1. UNCHANGED vars
      BY <1>4 DEF Rest
    <2>2. QED
      BY <2>1 DEF vars, Typed, TypeOK, Control, Finite
  <1>5. QED
    BY <1>1, <1>2, <1>3, <1>4 DEF Next

LEMMA AlwaysTyped == Spec => []Typed
  BY InitTyped, StepTyped, PTL DEF Spec

(* Every row has the columns of its entity and every local of a handler holds *)
(* what the handler has loaded: a share is a whole number of cents, and what *)
(* toggleHidden writes back is a member row.                                 *)
THEOREM TypeCorrect == Spec => []TypeOK
  <1>1. Typed => TypeOK
    BY DEF Typed
  <1>2. QED
    BY AlwaysTyped, <1>1, PTL

-----------------------------------------------------------------------------
(* The order of the requests *)

(* Requests start one after the other, and two that are under way at the same *)
(* time have met.                                                            *)
Ordered ==
  /\ \A r \in Reqs : pc[r] = "idle" => met[r] = {}
  /\ \A q, r \in Reqs : q \in met[r] => r \in met[q]
  /\ \A q, r \in Reqs : q < r /\ pc[r] # "idle" => /\ pc[q] # "idle"
                                                   /\ q \in InFlight => q \in met[r]

LEMMA BothMet == ASSUME Ordered, NEW q \in InFlight, NEW r \in InFlight, q # r PROVE q \in met[r]
  <1>1. q < r \/ r < q
    BY DEF InFlight, Reqs
  <1>2. QED
    BY <1>1 DEF Ordered, InFlight

(* A statement is one of a request under way, which may end with it.         *)
Proceeds(r) ==
  /\ r \in InFlight /\ UNCHANGED <<req, met>>
  /\ pc'[r] # "idle" /\ \A q \in Reqs \ {r} : pc'[q] = pc[q]

LEMMA StatementProceeds == ASSUME Typed, NEW r \in Reqs, Statement(r) \/ Abort(r) PROVE Proceeds(r)
  <1>1. CASE Statement(r)
    <2>1. pc[r] \in Statements
      BY <1>1 DEF Statement, FindGroup, FindMember, ReadExpenses, ReadSettlements, SaveGroup, SaveCreator,
                  SaveMember, SaveExpense, SaveSettlement, SaveHidden, Dispatch, Statements
    <2>2. met' = met
      BY <1>1 DEF Statement, FindGroup, FindMember, ReadExpenses, ReadSettlements, SaveGroup, SaveCreator,
                  SaveMember, SaveExpense, SaveSettlement, SaveHidden, Dispatch
    <2>3. req' = req /\ \E s \in Statements \cup Ended : pc' = [pc EXCEPT ![r] = s]
      BY <1>1, StatementMoves DEF Moves
    <2>4. QED
      BY <2>1, <2>2, <2>3 DEF Proceeds, InFlight, Ended, Statements, Typed, TypeOK
  <1>2. CASE Abort(r)
    BY <1>2 DEF Abort, Goto, Proceeds, Typed, TypeOK
  <1>3. QED
    BY <1>1, <1>2

LEMMA ProceedsOrdered == ASSUME Typed, Ordered, NEW r \in Reqs, Proceeds(r) PROVE Ordered' /\ InFlight' \subseteq InFlight
  BY DEF Proceeds, InFlight, Ended, Ordered

(* What a start changes.                                                     *)
Starts(r) ==
  /\ pc[r] = "idle" /\ pc'[r] \in {"saveGroup", "findGroup", "findMember"}
  /\ pc'[r] = "findMember" => req'[r].kind = "toggleHidden"
  /\ pc'[r] = "saveGroup" => req'[r].kind = "create"
  /\ req'[r].kind = "create" => ~group /\ \A q \in Reqs : req[q].kind # "create"
  /\ \A q \in Reqs \ {r} : pc'[q] = pc[q] /\ req'[q] = req[q]
  /\ \A q \in Reqs : q < r => pc[q] # "idle"
  /\ met' = [q \in Reqs |-> IF q = r THEN InFlight ELSE IF q \in InFlight THEN met[q] \cup {r} ELSE met[q]]
  /\ UNCHANGED <<db, seen, queue, read, toggled>>

LEMMA StartStarts == ASSUME Typed, NEW r \in Reqs, Start(r) PROVE Starts(r)
  <1> PICK k \in Kinds : \E q \in Requests(k) : req' = [req EXCEPT ![r] = q] /\ Goto(r, FirstStatement(k))
    BY DEF Start
  <1> PICK q \in Requests(k) : req' = [req EXCEPT ![r] = q] /\ Goto(r, FirstStatement(k))
    OBVIOUS
  <1>1. q.kind = k /\ k \in ReqKinds
    BY RequestTypes, KindsAssumption DEF Sent
  <1>2. /\ FirstStatement(k) \in {"saveGroup", "findGroup", "findMember"}
        /\ FirstStatement(k) = "findMember" => k = "toggleHidden"
        /\ FirstStatement(k) = "saveGroup" => k = "create"
    BY <1>1 DEF FirstStatement
  <1>3. pc'[r] = FirstStatement(k) /\ req'[r] = q
    BY DEF Goto, Typed, TypeOK
  <1>4. k = "create" => ~group /\ \A t \in Reqs : req[t].kind # "create"
    BY <1>1, OneCreates
  <1>5. QED
    BY <1>1, <1>2, <1>3, <1>4 DEF Start, Starts, Goto, Typed, TypeOK

LEMMA StartOrdered == ASSUME Typed, Ordered, NEW r \in Reqs, Starts(r) PROVE Ordered'
  <1> USE DEF Starts, Typed, TypeOK, InFlight, Ended
  <1>1. \A q \in Reqs : pc'[q] = "idle" => met'[q] = {}
    BY DEF Ordered
  <1>2. ASSUME NEW q \in Reqs, NEW t \in Reqs, q \in met'[t] PROVE t \in met'[q]
    <2>1. CASE t = r
      BY <1>2, <2>1
    <2>2. CASE t # r /\ q = r
      BY <1>2, <2>2 DEF Ordered
    <2>3. CASE t # r /\ q # r
      BY <1>2, <2>3 DEF Ordered
    <2>4. QED
      BY <2>1, <2>2, <2>3
  <1>3. ASSUME NEW q \in Reqs, NEW t \in Reqs, q < t, pc'[t] # "idle"
        PROVE  pc'[q] # "idle" /\ (q \in InFlight' => q \in met'[t])
    <2>1. q # t
      BY <1>3 DEF Reqs
    <2>2. CASE t = r
      BY <1>3, <2>1, <2>2
    <2>3. CASE t # r
      BY <1>3, <2>1, <2>3 DEF Ordered
    <2>4. QED
      BY <2>2, <2>3
  <1>4. QED
    BY <1>1, <1>2, <1>3 DEF Ordered

-----------------------------------------------------------------------------
(* Member rows *)

(* The statements before a request's own row is inserted.                    *)
Fresh     == {"idle", "saveGroup", "saveCreator", "findGroup", "findMember", "saveMember"}
Inserting == {"saveCreator", "saveMember"}

(* Every row is still there, hidden or not.                                  *)
Kept(rows, later) == \A m \in rows : \E n \in later : n.id = m.id /\ n.user = m.user

(* A row of a request was inserted by it, and there is one for each user.    *)
Rows ==
  /\ \A m \in members : m.id \in Reqs => /\ pc[m.id] \notin Fresh
                                         /\ req[m.id].kind \in {"create", "addMember", "joinByCode"}
  /\ \A m, n \in members : m.id = n.id /\ m.user = n.user => m = n

(* The group is created once, before anybody joins.                          *)
Creation ==
  /\ \A q, r \in Reqs : req[q].kind = "create" /\ req[r].kind = "create" => q = r
  /\ members # {} => group
  /\ \A r \in Reqs : /\ pc[r] = "saveGroup" => ~group
                     /\ pc[r] \in Inserting => group
                     /\ pc[r] = "findMember" /\ req[r].kind # "toggleHidden" => group

(* The member rows that requests hold on to are rows of the table.           *)
Held ==
  \A r \in Reqs : /\ Kept(seen[r], members)
                  /\ pc[r] = "saveHidden" => /\ Kept({toggled[r]}, members)
                                             /\ toggled[r].user = req[r].user

(* A request about to insert a row has met whoever inserted one for the same  *)
(* user since it looked.                                                     *)
Racing ==
  \A r \in Reqs : pc[r] \in Inserting =>
    \A m \in members : m.user = Subject(req[r]) => m.id \in met[r]

Membership == Rows /\ Creation /\ Held /\ Racing /\ MemberTwiceOnlyByRace

Base == Typed /\ Ordered /\ Membership

(* The three things a statement does to the table.                           *)
Inserts(r) ==
  /\ pc[r] \in Inserting /\ pc'[r] \notin Fresh
  /\ Insert(r, Subject(req[r]))

Hides(r) ==
  /\ pc[r] = "saveHidden" /\ pc'[r] = "done"
  /\ members' = {m \in members : m.id # toggled[r].id \/ m.user # toggled[r].user} \cup {Flip(toggled[r])}

LEMMA MembersChange ==
  ASSUME Typed, NEW r \in Reqs, Statement(r)
  PROVE  members' = members \/ Inserts(r) \/ Hides(r)
  <1>1. CASE SaveCreator(r)
    BY <1>1 DEF SaveCreator, Goto, Inserts, Inserting, Fresh, Subject, Typed, TypeOK, Control, MayBeAt
  <1>2. CASE SaveMember(r)
    BY <1>2 DEF SaveMember, Notify, Goto, Inserts, Inserting, Fresh, Typed, TypeOK
  <1>3. CASE SaveHidden(r)
    BY <1>3 DEF SaveHidden, Goto, Hides, Typed, TypeOK
  <1>4. CASE ~SaveCreator(r) /\ ~SaveMember(r) /\ ~SaveHidden(r)
    BY <1>4 DEF Statement, FindGroup, FindMember, ReadExpenses, ReadSettlements, SaveGroup,
                SaveExpense, SaveSettlement, Dispatch, db
  <1>5. QED
    BY <1>1, <1>2, <1>3, <1>4

LEMMA RowsStay ==
  ASSUME NEW r \in Reqs, members' = members \/ Inserts(r) \/ Hides(r)
  PROVE  Kept(members, members')
  <1>1. CASE members' = members
    BY <1>1 DEF Kept
  <1>2. CASE Inserts(r)
    BY <1>2 DEF Inserts, Insert, Kept
  <1>3. CASE Hides(r)
    <2>1. Flip(toggled[r]).id = toggled[r].id /\ Flip(toggled[r]).user = toggled[r].user
      BY DEF Flip
    <2>2. QED
      BY <1>3, <2>1 DEF Hides, Kept
  <1>4. QED
    BY <1>1, <1>2, <1>3

(* How a statement leads to the next, and what it then knows.                *)
Advances(r) ==
  /\ pc[r] \notin Fresh => pc'[r] \notin Fresh
  /\ pc'[r] # "saveGroup"
  /\ group => group'
  /\ group' => group \/ pc[r] = "saveGroup"
  /\ pc'[r] = "saveCreator" => pc[r] = "saveGroup" /\ group' /\ members' = members
  /\ pc'[r] = "findMember" => group
  /\ pc'[r] = "saveMember" => /\ pc[r] = "findMember" /\ req[r].kind # "toggleHidden"
                              /\ MembershipsOf(Subject(req[r])) = {} /\ members' = members
  /\ pc'[r] = "saveHidden" => toggled'[r] \in MembershipsOf(req[r].user) /\ members' = members
  /\ seen'[r] \in {seen[r], members}
  /\ \A q \in Reqs \ {r} : seen'[q] = seen[q] /\ toggled'[q] = toggled[q]

LEMMA StatementAdvances == ASSUME Typed, NEW r \in Reqs, Statement(r) PROVE Advances(r)
  <1> USE DEF Advances, Typed, TypeOK, Goto, Fresh
  <1>1. CASE FindGroup(r)
    <2>1. AfterGroup(req[r], members) \in {"failed", "findMember", "saveSettlement", "readExpenses", "saveExpense"}
      BY <1>1 DEF FindGroup, AfterGroup, Control, MayBeAt, ReqKinds
    <2>2. QED
      BY <1>1, <2>1 DEF FindGroup, db
  <1>2. CASE FindMember(r)
    <2>1. pc[r] = "findMember" /\ UNCHANGED <<db, req, seen>>
      BY <1>2 DEF FindMember
    <2>2. ASSUME NEW s \in {"failed", "done"}, pc' = [pc EXCEPT ![r] = s], toggled' = toggled PROVE Advances(r)
      BY <2>1, <2>2 DEF db
    <2>3. ASSUME MembershipsOf(Subject(req[r])) = {}, req[r].kind # "toggleHidden",
                 pc' = [pc EXCEPT ![r] = "saveMember"], toggled' = toggled
          PROVE  Advances(r)
      BY <2>1, <2>3 DEF db
    <2>4. ASSUME req[r].kind = "toggleHidden", pc' = [pc EXCEPT ![r] = "saveHidden"],
                 NEW m \in MembershipsOf(req[r].user), toggled' = [toggled EXCEPT ![r] = m]
          PROVE  Advances(r)
      BY <2>1, <2>4 DEF db
    <2> HIDE DEF Advances
    <2>5. QED
      BY <1>2, <2>2, <2>3, <2>4 DEF FindMember, Subject
  <1>3. CASE ReadExpenses(r) \/ ReadSettlements(r)
    BY <1>3 DEF ReadExpenses, ReadSettlements, db
  <1>4. CASE SaveGroup(r) \/ SaveCreator(r)
    BY <1>4 DEF SaveGroup, SaveCreator
  <1>5. CASE SaveMember(r) \/ SaveExpense(r) \/ Dispatch(r)
    BY <1>5 DEF SaveMember, SaveExpense, Dispatch, Notify
  <1>6. CASE SaveSettlement(r) \/ SaveHidden(r)
    BY <1>6 DEF SaveSettlement, SaveHidden
  <1>7. QED
    BY <1>1, <1>2, <1>3, <1>4, <1>5, <1>6 DEF Statement

(* What every statement and every abort has in common.                       *)
Steps(r) ==
  /\ Proceeds(r) /\ Advances(r)
  /\ members' = members \/ Inserts(r) \/ Hides(r)

LEMMA StatementSteps == ASSUME Typed, NEW r \in Reqs, Statement(r) \/ Abort(r) PROVE Steps(r)
  <1>1. CASE Statement(r)
    BY <1>1, StatementProceeds, StatementAdvances, MembersChange DEF Steps
  <1>2. CASE Abort(r)
    <2>1. Advances(r) /\ members' = members
      BY <1>2 DEF Abort, Goto, Advances, Fresh, db, Typed, TypeOK
    <2>2. QED
      BY <1>2, <2>1, StatementProceeds DEF Steps
  <1>3. QED
    BY <1>1, <1>2

LEMMA KeptOn == ASSUME NEW a, NEW b, NEW c, Kept(a, b), Kept(b, c) PROVE Kept(a, c)
  BY DEF Kept

(* A row written back by toggleHidden is a row there was.                    *)
LEMMA HidesARow ==
  ASSUME Held, NEW r \in Reqs, Hides(r)
  PROVE  /\ Flip(toggled[r]).id = toggled[r].id /\ Flip(toggled[r]).user = toggled[r].user
         /\ toggled[r].user = req[r].user
         /\ \E m \in members : m.id = toggled[r].id /\ m.user = toggled[r].user
  BY DEF Hides, Held, Kept, Flip

LEMMA RowsNext == ASSUME Typed, Rows, Held, NEW r \in Reqs, Steps(r) PROVE Rows'
  <1>1. UNCHANGED req /\ (pc[r] \notin Fresh => pc'[r] \notin Fresh) /\ \A q \in Reqs \ {r} : pc'[q] = pc[q]
    BY DEF Steps, Proceeds, Advances
  <1>2. CASE members' = members
    BY <1>1, <1>2 DEF Rows
  <1>3. CASE Inserts(r)
    <2> DEFINE new == [id |-> r, user |-> Subject(req[r]), hidden |-> FALSE]
    <2>1. members' = members \cup {new} /\ new.id = r
      BY <1>3 DEF Inserts, Insert
    <2>2. pc[r] \in Fresh /\ pc'[r] \notin Fresh
      BY <1>3 DEF Inserts, Inserting, Fresh
    <2>3. req[r].kind \in {"create", "addMember", "joinByCode"}
      BY <1>3 DEF Inserts, Inserting, Typed, Control, MayBeAt
    <2>4. \A m \in members : m.id # r
      BY <2>2 DEF Rows
    <2> HIDE DEF new
    <2>5. QED
      BY <1>1, <2>1, <2>2, <2>3, <2>4 DEF Rows
  <1>4. CASE Hides(r)
    <2> DEFINE new == Flip(toggled[r])
    <2>1. members' = {m \in members : m.id # toggled[r].id \/ m.user # toggled[r].user} \cup {new}
      BY <1>4 DEF Hides
    <2>2. PICK old \in members : old.id = new.id /\ old.user = new.user
      BY <1>4, HidesARow
    <2>3. new.id = toggled[r].id /\ new.user = toggled[r].user
      BY <1>4, HidesARow
    <2> HIDE DEF new
    <2>4. QED
      BY <1>1, <2>1, <2>2, <2>3 DEF Rows
  <1>5. QED
    BY <1>2, <1>3, <1>4 DEF Steps

LEMMA CreationNext == ASSUME Typed, Creation, Held, NEW r \in Reqs, Steps(r) PROVE Creation'
  <1>1. UNCHANGED req /\ Advances(r) /\ \A q \in Reqs \ {r} : pc'[q] = pc[q]
    BY DEF Steps, Proceeds
  <1>2. members' # {} => group'
    <2>1. CASE members' = members
      BY <1>1, <2>1 DEF Creation, Advances
    <2>2. CASE Inserts(r)
      BY <1>1, <2>2 DEF Inserts, Creation, Advances
    <2>3. CASE Hides(r)
      <3>1. members # {} /\ group
        BY <2>3, HidesARow DEF Creation
      <3>2. QED
        BY <1>1, <3>1 DEF Advances
    <2>4. QED
      BY <2>1, <2>2, <2>3 DEF Steps
  <1>3. ASSUME NEW q \in Reqs
        PROVE  /\ pc'[q] = "saveGroup" => ~group'
               /\ pc'[q] \in Inserting => group'
               /\ pc'[q] = "findMember" /\ req[q].kind # "toggleHidden" => group'
    <2>1. CASE q = r
      BY <1>1, <2>1 DEF Creation, Advances, Inserting
    <2>2. CASE q # r
      <3>1. ~(pc[q] = "saveGroup" /\ pc[r] = "saveGroup")
        BY <2>2 DEF Creation, Typed, Control, MayBeAt
      <3>2. QED
        BY <1>1, <2>2, <3>1 DEF Creation, Advances
    <2>3. QED
      BY <2>1, <2>2
  <1>4. QED
    BY <1>1, <1>2, <1>3 DEF Creation

LEMMA HeldNext == ASSUME Held, NEW r \in Reqs, Steps(r) PROVE Held'
  <1>1. Kept(members, members')
    BY RowsStay DEF Steps
  <1>2. UNCHANGED req /\ Advances(r) /\ \A q \in Reqs \ {r} : pc'[q] = pc[q]
    BY DEF Steps, Proceeds
  <1>3. ASSUME NEW q \in Reqs PROVE Kept(seen'[q], members')
    <2>1. seen'[q] = seen[q] \/ seen'[q] = members
      BY <1>2 DEF Advances
    <2>2. Kept(seen[q], members')
      BY <1>1, KeptOn DEF Held
    <2>3. QED
      BY <1>1, <2>1, <2>2
  <1>4. ASSUME NEW q \in Reqs, pc'[q] = "saveHidden"
        PROVE  Kept({toggled'[q]}, members') /\ toggled'[q].user = req[q].user
    <2>1. CASE q = r
      BY <1>2, <1>4, <2>1 DEF Advances, MembershipsOf, Kept
    <2>2. CASE q # r
      <3>1. toggled'[q] = toggled[q] /\ pc[q] = "saveHidden"
        BY <1>2, <1>4, <2>2 DEF Advances
      <3>2. Kept({toggled[q]}, members) /\ toggled[q].user = req[q].user
        BY <3>1 DEF Held
      <3>3. QED
        BY <1>1, <3>1, <3>2, KeptOn
    <2>3. QED
      BY <2>1, <2>2
  <1>5. QED
    BY <1>2, <1>3, <1>4 DEF Held

(* Only an insertion adds a row: toggleHidden writes back one there was.     *)
LEMMA NoNewRows == ASSUME Held, NEW r \in Reqs, members' = members \/ Hides(r) PROVE Kept(members', members)
  <1>1. CASE members' = members
    BY <1>1 DEF Kept
  <1>2. CASE Hides(r)
    BY <1>2, HidesARow DEF Hides, Kept
  <1>3. QED
    BY <1>1, <1>2

LEMMA RacingNext ==
  ASSUME Typed, Ordered, Creation, Held, Racing, NEW r \in Reqs, Steps(r)
  PROVE  Racing'
  <1>1. UNCHANGED <<req, met>> /\ Advances(r) /\ r \in InFlight /\ \A q \in Reqs \ {r} : pc'[q] = pc[q]
    BY DEF Steps, Proceeds
  <1>2. SUFFICES ASSUME NEW q \in Reqs, pc'[q] \in Inserting, NEW m \in members', m.user = Subject(req[q])
                 PROVE  m.id \in met[q]
    BY <1>1 DEF Racing, Subject
  <1>3. CASE q = r
    <2>1. members' = members
      BY <1>1, <1>2, <1>3 DEF Advances, Inserting
    <2>2. pc'[r] = "saveMember"
      BY <1>1, <1>2, <1>3, <2>1 DEF Advances, Inserting, Creation
    <2>3. QED
      BY <1>1, <1>2, <1>3, <2>1, <2>2 DEF Advances, MembershipsOf
  <1>4. CASE q # r
    <2>1. pc[q] \in Inserting
      BY <1>1, <1>2, <1>4
    <2>2. r \in met[q]
      <3>1. q \in InFlight
        BY <2>1 DEF Inserting, InFlight, Ended
      <3>2. QED
        BY <1>1, <1>4, <3>1, BothMet
    <2>3. CASE Inserts(r)
      BY <1>2, <2>1, <2>2, <2>3 DEF Inserts, Insert, Racing
    <2>4. CASE members' = members \/ Hides(r)
      <3>1. PICK n \in members : n.id = m.id /\ n.user = m.user
        BY <2>4, NoNewRows DEF Kept
      <3>2. QED
        BY <1>2, <2>1, <3>1 DEF Racing
    <2>5. QED
      BY <2>3, <2>4 DEF Steps
  <1>5. QED
    BY <1>3, <1>4

LEMMA RaceNext ==
  ASSUME Typed, Ordered, Held, Racing, MemberTwiceOnlyByRace, NEW r \in Reqs, Steps(r)
  PROVE  MemberTwiceOnlyByRace'
  <1>1. met' = met
    BY DEF Steps, Proceeds
  <1>2. SUFFICES ASSUME NEW m \in members', NEW n \in members', m.user = n.user, m.id < n.id
                 PROVE  m.id \in met[n.id]
    BY <1>1 DEF MemberTwiceOnlyByRace
  <1>3. CASE Inserts(r)
    <2> DEFINE new == [id |-> r, user |-> Subject(req[r]), hidden |-> FALSE]
    <2>1. members' = members \cup {new} /\ new.id = r /\ new.user = Subject(req[r])
      BY <1>3 DEF Inserts, Insert
    <2>2. \A x \in members : x.user = new.user => x.id \in met[r]
      BY <1>3, <2>1 DEF Inserts, Racing
    <2> HIDE DEF new
    <2>3. CASE m \in members /\ n \in members
      BY <1>2, <2>3 DEF MemberTwiceOnlyByRace
    <2>4. CASE m \in members /\ n = new
      BY <1>2, <2>1, <2>2, <2>4
    <2>5. CASE m = new /\ n \in members
      <3>1. n.id \in met[r] /\ n.id \in Reqs
        BY <1>2, <2>1, <2>2, <2>5 DEF Typed, TypeOK
      <3>2. QED
        BY <2>1, <2>5, <3>1 DEF Ordered
    <2>6. m # new \/ n # new
      BY <1>2, <2>1 DEF Reqs
    <2>7. QED
      BY <2>1, <2>3, <2>4, <2>5, <2>6
  <1>4. CASE members' = members \/ Hides(r)
    <2>1. PICK x \in members : x.id = m.id /\ x.user = m.user
      BY <1>4, NoNewRows DEF Kept
    <2>2. PICK y \in members : y.id = n.id /\ y.user = n.user
      BY <1>4, NoNewRows DEF Kept
    <2>3. QED
      BY <1>2, <2>1, <2>2 DEF MemberTwiceOnlyByRace
  <1>5. QED
    BY <1>3, <1>4 DEF Steps

LEMMA StartMembership == ASSUME Typed, Ordered, Membership, NEW r \in Reqs, Starts(r) PROVE Membership'
  <1>1. /\ pc[r] = "idle" /\ members' = members /\ group' = group /\ seen' = seen /\ toggled' = toggled
        /\ \A q \in Reqs \ {r} : pc'[q] = pc[q] /\ req'[q] = req[q]
    BY DEF Starts, db
  <1>2. \A q \in Reqs : met[q] \subseteq met'[q]
    BY DEF Starts, Ordered
  <1>3. Rows'
    <2>1. \A m \in members : m.id # r
      BY <1>1 DEF Membership, Rows, Fresh
    <2>2. QED
      BY <1>1, <2>1 DEF Membership, Rows
  <1>4. Creation'
    <2>1. \A q, t \in Reqs : req'[q].kind = "create" /\ req'[t].kind = "create" => q = t
      BY <1>1 DEF Starts, Membership, Creation
    <2>2. QED
      BY <1>1, <2>1 DEF Starts, Membership, Creation, Inserting
  <1>5. Held'
    BY <1>1 DEF Starts, Membership, Held
  <1>6. Racing'
    BY <1>1, <1>2 DEF Starts, Membership, Racing, Subject, Inserting
  <1>7. MemberTwiceOnlyByRace'
    <2>1. \A n \in members : n.id \in 0..MaxRequests
      BY DEF Typed, TypeOK, MemberRow
    <2>2. \A m, n \in members : m.id < n.id => n.id \in Reqs
      BY <2>1, BoundsAssumption DEF Reqs
    <2>3. QED
      BY <1>1, <1>2, <2>2 DEF Membership, MemberTwiceOnlyByRace
  <1>8. QED
    BY <1>3, <1>4, <1>5, <1>6, <1>7 DEF Membership

-----------------------------------------------------------------------------
LEMMA InitBase == Init => Base
  <1> SUFFICES ASSUME Init PROVE Base
    OBVIOUS
  <1>1. \A m \in members : m.id = 0
    BY DEF Init
  <1>2. \A r \in Reqs : pc[r] = "idle" /\ req[r].kind = "none" /\ seen[r] = {} /\ met[r] = {}
    BY DEF Init, Blank, Asks
  <1>3. Ordered
    BY <1>2 DEF Ordered
  <1>4. Rows
    <2>1. \A m \in members : m.id \notin Reqs
      BY <1>1 DEF Reqs
    <2>2. \A m \in members : \E u \in Users : m = [id |-> 0, user |-> u, hidden |-> FALSE]
      BY UsersAssumption DEF Init
    <2>3. ASSUME NEW m \in members, NEW n \in members, m.user = n.user PROVE m = n
      <3>1. PICK u \in Users : m = [id |-> 0, user |-> u, hidden |-> FALSE]
        BY <2>2
      <3>2. PICK v \in Users : n = [id |-> 0, user |-> v, hidden |-> FALSE]
        BY <2>2
      <3>3. QED
        BY <2>3, <3>1, <3>2
    <2>4. QED
      BY <2>1, <2>3 DEF Rows
  <1>5. Creation
    BY <1>2 DEF Init, Creation, Inserting
  <1>6. Held /\ Racing
    BY <1>2 DEF Held, Racing, Kept, Inserting
  <1>7. MemberTwiceOnlyByRace
    BY <1>1 DEF MemberTwiceOnlyByRace
  <1>8. QED
    BY <1>3, <1>4, <1>5, <1>6, <1>7, InitTyped DEF Base, Membership

LEMMA StepBase == Base /\ [Next]_vars => Base'
  <1> SUFFICES ASSUME Base, [Next]_vars PROVE Base'
    OBVIOUS
  <1> USE DEF Base
  <1>1. Typed'
    BY StepTyped
  <1>2. ASSUME NEW r \in Reqs, Start(r) PROVE Base'
    <2>1. Starts(r)
      BY <1>2, StartStarts
    <2>2. QED
      BY <1>1, <2>1, StartOrdered, StartMembership
  <1>3. ASSUME NEW r \in Reqs, Statement(r) \/ Abort(r) PROVE Base'
    <2>1. Steps(r)
      BY <1>3, StatementSteps
    <2>2. Ordered'
      BY <2>1, ProceedsOrdered DEF Steps
    <2>3. Membership'
      BY <2>1, RowsNext, CreationNext, HeldNext, RacingNext, RaceNext DEF Membership
    <2>4. QED
      BY <1>1, <2>2, <2>3
  <1>4. CASE Rest \/ UNCHANGED vars
    <2>1. UNCHANGED vars
      BY <1>4 DEF Rest
    <2>2. QED
      BY <1>1, <2>1 DEF vars, db, Ordered, InFlight, Membership, Rows, Creation, Held, Racing, Subject, MemberTwiceOnlyByRace
  <1>5. QED
    BY <1>2, <1>3, <1>4 DEF Next

LEMMA AlwaysBase == Spec => []Base
  BY InitBase, StepBase, PTL DEF Spec

(* Two rows of one user come only from requests that were served at the same  *)
(* time: "already a member" of addMember and joinByCode holds against        *)
(* whoever had joined before the request began, and against the creator.     *)
THEOREM NobodyJoinsTwiceInTurn == Spec => []MemberTwiceOnlyByRace
  <1>1. Base => MemberTwiceOnlyByRace
    BY DEF Base, Membership
  <1>2. QED
    BY AlwaysBase, <1>1, PTL

-----------------------------------------------------------------------------
(* Who records *)

(* An expense is of the request that recorded it, and whoever is about to     *)
(* record one has found the caller and the payer among the members.          *)
Records ==
  /\ \A x \in expenses : req[x.id].kind = "addExpense"
  /\ \A x \in settlements : req[x.id].kind = "settleUp"
  /\ \A r \in Reqs : /\ pc[r] = "saveExpense" => {req[r].user, req[r].other} \subseteq UsersOf(seen[r])
                     /\ pc[r] = "saveSettlement" => req[r].user \in UsersOf(seen[r])
  /\ OnlyMembersRecord

(* What a statement does to the books, and what it has checked before.       *)
Books(r) ==
  /\ \/ expenses' = expenses
     \/ /\ pc[r] = "saveExpense"
        /\ \E x \in expenses' : x.id = r /\ x.payer = req[r].other /\ expenses' = expenses \cup {x}
  /\ \/ settlements' = settlements
     \/ /\ pc[r] = "saveSettlement"
        /\ \E x \in settlements' : x.id = r /\ settlements' = settlements \cup {x}
  /\ pc'[r] = "saveExpense" => {req[r].user, req[r].other} \subseteq UsersOf(seen'[r])
  /\ pc'[r] = "saveSettlement" => req[r].user \in UsersOf(seen'[r])

LEMMA GroupBooks == ASSUME Typed, NEW r \in Reqs, FindGroup(r) PROVE Books(r)
  <1>1. /\ seen'[r] = members /\ UNCHANGED <<expenses, settlements>>
        /\ pc'[r] \in {AfterGroup(req[r], members), "failed"}
        /\ req[r].kind \in {"addMember", "joinByCode", "addExpense", "settleUp", "getDebts"}
    BY DEF FindGroup, Goto, db, Typed, TypeOK, Control, MayBeAt, ReqKinds
  <1>2. AfterGroup(req[r], members) = "saveExpense" => {req[r].user, req[r].other} \subseteq UsersOf(members)
    BY <1>1 DEF AfterGroup, MayAsk
  <1>3. AfterGroup(req[r], members) = "saveSettlement" => req[r].user \in UsersOf(members)
    BY <1>1 DEF AfterGroup, MayAsk
  <1>4. QED
    BY <1>1, <1>2, <1>3 DEF Books

LEMMA StatementBooks == ASSUME Typed, NEW r \in Reqs, Statement(r) \/ Abort(r) PROVE Books(r)
  <1> USE DEF Books, Goto, Typed, TypeOK
  <1>1. CASE FindMember(r)
    <2>1. UNCHANGED <<expenses, settlements>> /\ pc'[r] \in {"failed", "saveMember", "done", "saveHidden"}
      BY <1>1 DEF FindMember, db
    <2>2. QED
      BY <2>1
  <1>2. CASE ReadExpenses(r) \/ ReadSettlements(r) \/ Abort(r)
    BY <1>2 DEF ReadExpenses, ReadSettlements, Abort, db
  <1>3. CASE SaveGroup(r) \/ SaveCreator(r) \/ SaveHidden(r)
    BY <1>3 DEF SaveGroup, SaveCreator, SaveHidden
  <1>4. CASE SaveMember(r) \/ Dispatch(r)
    BY <1>4 DEF SaveMember, Dispatch, Notify
  <1>5. CASE SaveExpense(r)
    <2>1. PICK d \in Charges(req[r], seen[r]) :
            expenses' = expenses \cup {[id |-> r, payer |-> req[r].other, amount |-> req[r].amount,
                                        charged |-> d.charged, credited |-> d.credited]}
      BY <1>5 DEF SaveExpense
    <2>2. \E x \in expenses' : x.id = r /\ x.payer = req[r].other /\ expenses' = expenses \cup {x}
      BY <2>1
    <2>3. pc[r] = "saveExpense" /\ settlements' = settlements /\ pc'[r] \in {"dispatch", "done"}
      BY <1>5 DEF SaveExpense, Notify
    <2>4. QED
      BY <2>2, <2>3
  <1>6. CASE SaveSettlement(r)
    BY <1>6 DEF SaveSettlement
  <1>7. QED
    BY <1>1, <1>2, <1>3, <1>4, <1>5, <1>6, GroupBooks DEF Statement

LEMMA UsersKept == ASSUME NEW a, NEW b, Kept(a, b) PROVE UsersOf(a) \subseteq UsersOf(b)
  BY DEF Kept, UsersOf

LEMMA RecordsNext == ASSUME Typed, Held, Records, NEW r \in Reqs, Steps(r), Books(r) PROVE Records'
  <1>1. UNCHANGED req /\ \A q \in Reqs \ {r} : pc'[q] = pc[q] /\ seen'[q] = seen[q]
    BY DEF Steps, Proceeds, Advances
  <1>2. UsersOf(members) \subseteq UsersOf(members') /\ UsersOf(seen[r]) \subseteq UsersOf(members)
    BY RowsStay, UsersKept DEF Steps, Held
  <1>3. \A q \in Reqs : /\ pc'[q] = "saveExpense" => {req[q].user, req[q].other} \subseteq UsersOf(seen'[q])
                        /\ pc'[q] = "saveSettlement" => req[q].user \in UsersOf(seen'[q])
    BY <1>1 DEF Books, Records
  <1>4. \A x \in expenses' : /\ req[x.id].kind = "addExpense"
                             /\ {req[x.id].user, x.payer} \subseteq UsersOf(members')
    <2>1. CASE expenses' = expenses
      BY <1>2, <2>1 DEF Records, OnlyMembersRecord
    <2>2. CASE pc[r] = "saveExpense" /\ \E x \in expenses' : x.id = r /\ x.payer = req[r].other /\ expenses' = expenses \cup {x}
      BY <1>2, <2>2 DEF Records, OnlyMembersRecord, Typed, Control, MayBeAt
    <2>3. QED
      BY <2>1, <2>2 DEF Books
  <1>5. \A x \in settlements' : req[x.id].kind = "settleUp" /\ req[x.id].user \in UsersOf(members')
    <2>1. CASE settlements' = settlements
      BY <1>2, <2>1 DEF Records, OnlyMembersRecord
    <2>2. CASE pc[r] = "saveSettlement" /\ \E x \in settlements' : x.id = r /\ settlements' = settlements \cup {x}
      BY <1>2, <2>2 DEF Records, OnlyMembersRecord, Typed, Control, MayBeAt
    <2>3. QED
      BY <2>1, <2>2 DEF Books
  <1>6. QED
    BY <1>1, <1>3, <1>4, <1>5 DEF Records, OnlyMembersRecord

LEMMA StartRecords == ASSUME Typed, Records, NEW r \in Reqs, Starts(r) PROVE Records'
  <1>1. /\ req[r].kind = "none" /\ pc'[r] \notin {"saveExpense", "saveSettlement"}
        /\ UNCHANGED <<members, expenses, settlements, seen>>
        /\ \A q \in Reqs \ {r} : pc'[q] = pc[q] /\ req'[q] = req[q]
    BY DEF Starts, db, Typed, Control, MayBeAt
  <1>2. \A x \in expenses \cup settlements : x.id \in Reqs \ {r}
    BY <1>1 DEF Records, Typed, TypeOK, ExpenseRow, TransferRow
  <1>3. QED
    BY <1>1, <1>2 DEF Records, OnlyMembersRecord

LEMMA AlwaysRecords == Spec => [](Base /\ Records)
  <1>1. Init => Base /\ Records
    BY InitBase DEF Init, Records, OnlyMembersRecord
  <1>2. Base /\ Records /\ [Next]_vars => (Base /\ Records)'
    <2> SUFFICES ASSUME Base, Records, [Next]_vars PROVE Base' /\ Records'
      OBVIOUS
    <2>1. Base'
      BY StepBase
    <2>2. ASSUME NEW r \in Reqs, Start(r) PROVE Records'
      BY <2>2, StartStarts, StartRecords DEF Base
    <2>3. ASSUME NEW r \in Reqs, Statement(r) \/ Abort(r) PROVE Records'
      BY <2>3, StatementSteps, StatementBooks, RecordsNext DEF Base, Membership
    <2>4. CASE Rest \/ UNCHANGED vars
      BY <2>1, <2>4 DEF Rest, vars, Records, OnlyMembersRecord
    <2>5. QED
      BY <2>1, <2>2, <2>3, <2>4 DEF Next
  <1>3. QED
    BY <1>1, <1>2, PTL DEF Spec

(* Whoever records an expense or a settlement, and whoever is said to have    *)
(* paid an expense, is a member of the group when the row is there: the      *)
(* members the handler has loaded before stay members.                       *)
THEOREM RecordsAreOfMembers == Spec => []OnlyMembersRecord
  <1>1. Records => OnlyMembersRecord
    BY DEF Records
  <1>2. QED
    BY AlwaysRecords, <1>1, PTL

-----------------------------------------------------------------------------
(* Who is told *)

(* The kinds of requests that tell the members.                              *)
Telling == {"addMember", "joinByCode", "addExpense"}

Recorded(r) == \E x \in members \cup expenses : x.id = r

(* A request that may have told the members has loaded those who were there   *)
(* before it.                                                                *)
Loaded ==
  \A r \in Reqs :
    /\ req[r].kind \in Telling
    /\ pc[r] \notin {"idle", "findGroup", "failed"}
    /\ pc[r] # "aborted" \/ Recorded(r)
    => Kept(Before(members, r), seen[r])

Informed(m, r) == m.user \in Muted \cup Concerned(r) \/ <<r, m.user>> \in notified \/ m \in queue[r]

(* Once it has recorded its row, those it has loaded are told or wait in its  *)
(* queue, which is empty when it has succeeded.                              *)
Tells(r) == /\ pc[r] \in {"dispatch", "done", "aborted"}
            /\ pc[r] = "done" => queue[r] = {}
            /\ \A m \in seen[r] : Informed(m, r)

Told == \A r \in Reqs : Recorded(r) /\ req[r].kind \in Telling => Tells(r)

News == Loaded /\ Told

(* Rows that come while a request runs are not of those it must tell.        *)
LEMMA EarlierRows ==
  ASSUME Ordered, Held, NEW r \in Reqs, Steps(r), NEW q \in Reqs, pc'[q] # "idle"
  PROVE  Kept({m \in members' : m.id < q /\ m.id \notin met[q]}, Before(members, q))
  <1>1. CASE Inserts(r)
    <2>1. r < q => r \in met[q]
      BY DEF Steps, Proceeds, Ordered, Reqs
    <2>2. QED
      BY <1>1, <2>1 DEF Inserts, Insert, Kept, Before
  <1>2. CASE members' = members \/ Hides(r)
    BY <1>2, NoNewRows DEF Kept, Before
  <1>3. QED
    BY <1>1, <1>2 DEF Steps

(* A request records nothing for another.                                    *)
LEMMA OthersRecord ==
  ASSUME Held, NEW r \in Reqs, Steps(r), Books(r), NEW q \in Reqs \ {r}, Recorded(q)'
  PROVE  Recorded(q)
  <1>1. PICK x \in members' \cup expenses' : x.id = q
    BY DEF Recorded
  <1>2. x \in members' => \E m \in members : m.id = q
    <2>1. CASE members' = members \/ Hides(r)
      BY <1>1, <2>1, NoNewRows DEF Kept
    <2>2. CASE Inserts(r)
      BY <1>1, <2>2 DEF Inserts, Insert
    <2>3. QED
      BY <2>1, <2>2 DEF Steps
  <1>3. x \in expenses' => x \in expenses
    BY <1>1 DEF Books
  <1>4. QED
    BY <1>1, <1>2, <1>3 DEF Recorded

LEMMA LoadedNext ==
  ASSUME Ordered, Held, Loaded, NEW r \in Reqs, Steps(r), Books(r),
         req[r].kind \in Telling /\ pc'[r] # "failed" /\ (pc'[r] # "aborted" \/ Recorded(r)')
           => seen'[r] = members \/ (pc[r] # "findGroup" /\ seen'[r] = seen[r])
  PROVE  Loaded'
  <1>1. UNCHANGED <<req, met>> /\ r \in InFlight /\ \A q \in Reqs \ {r} : pc'[q] = pc[q] /\ seen'[q] = seen[q]
    BY DEF Steps, Proceeds, Advances
  <1>2. SUFFICES ASSUME NEW q \in Reqs, req[q].kind \in Telling, pc'[q] \notin {"idle", "findGroup", "failed"},
                        pc'[q] # "aborted" \/ Recorded(q)'
                 PROVE  Kept(Before(members, q)', seen'[q])
    BY <1>1 DEF Loaded
  <1>3. Kept(Before(members, q)', Before(members, q))
    BY <1>1, <1>2, EarlierRows DEF Before
  <1>4. Kept(Before(members, q), members)
    BY DEF Kept, Before
  <1>5. seen'[q] = members \/ (Kept(Before(members, q), seen[q]) /\ seen'[q] = seen[q])
    <2>1. CASE q = r
      BY <1>1, <1>2, <2>1 DEF Loaded, InFlight, Ended
    <2>2. CASE q # r
      BY <1>1, <1>2, <2>2, OthersRecord DEF Loaded
    <2>3. QED
      BY <2>1, <2>2
  <1>6. QED
    BY <1>3, <1>4, <1>5, KeptOn

LEMMA StatementLoads ==
  ASSUME Typed, Told, NEW r \in Reqs, Statement(r) \/ Abort(r), req[r].kind \in Telling,
         pc'[r] # "failed", pc'[r] # "aborted" \/ Recorded(r)'
  PROVE  seen'[r] = members \/ (pc[r] # "findGroup" /\ seen'[r] = seen[r])
  <1>1. CASE FindGroup(r) \/ FindMember(r) \/ ReadExpenses(r) \/ ReadSettlements(r)
    BY <1>1 DEF FindGroup, FindMember, ReadExpenses, ReadSettlements, Typed, TypeOK
  <1>2. CASE SaveGroup(r) \/ SaveCreator(r) \/ SaveMember(r) \/ SaveExpense(r)
    BY <1>2 DEF SaveGroup, SaveCreator, SaveMember, SaveExpense
  <1>3. CASE SaveSettlement(r) \/ SaveHidden(r) \/ Dispatch(r)
    BY <1>3 DEF SaveSettlement, SaveHidden, Dispatch
  <1>4. CASE Abort(r)
    <2>1. pc'[r] = "aborted" /\ UNCHANGED <<db, seen>>
      BY <1>4 DEF Abort, Goto, Typed, TypeOK
    <2>2. Recorded(r)
      BY <2>1 DEF db, Recorded
    <2>3. pc[r] \in {"dispatch", "done", "aborted"}
      BY <2>2 DEF Told, Tells
    <2>4. QED
      BY <2>1, <2>3
  <1>5. QED
    BY <1>1, <1>2, <1>3, <1>4 DEF Statement

(* After a statement of a telling request, those it has loaded are told, or   *)
(* wait in its queue.                                                        *)
LEMMA StatementTells ==
  ASSUME Typed, Told, NEW r \in Reqs, Statement(r) \/ Abort(r), req[r].kind \in Telling, Recorded(r)'
  PROVE  Tells(r)'
  <1>1. Recorded(r) => Tells(r)
    BY DEF Told
  <1>2. CASE FindGroup(r) \/ FindMember(r)
    <2>1. Recorded(r) /\ pc[r] \in {"findGroup", "findMember"}
      BY <1>2 DEF FindGroup, FindMember, db, Recorded
    <2>2. QED
      BY <1>1, <2>1 DEF Tells
  <1>3. CASE SaveMember(r) \/ SaveExpense(r)
    <2>1. /\ \A m \in seen[r] : m.user \in Concerned(r) \/ m \in queue'[r]
          /\ UNCHANGED <<req, seen>>
      BY <1>3 DEF SaveMember, MemberAudience, SaveExpense, ExpenseAudience, Notify, Concerned, Typed, TypeOK,
                  Control, MayBeAt
    <2>2. pc'[r] = IF queue'[r] = {} THEN "done" ELSE "dispatch"
      BY <1>3 DEF SaveMember, SaveExpense, Notify, Goto, Typed, TypeOK
    <2>3. QED
      BY <2>1, <2>2 DEF Tells, Informed, Concerned
  <1>4. CASE Dispatch(r)
    <2>1. PICK m \in queue[r] : /\ notified' = notified \cup ({<<r, m.user>>} \ {<<r, u>> : u \in Muted})
                                /\ Notify(r, queue[r] \ {m})
      BY <1>4 DEF Dispatch
    <2>2. queue'[r] = queue[r] \ {m} /\ pc'[r] = IF queue'[r] = {} THEN "done" ELSE "dispatch"
      BY <2>1 DEF Notify, Goto, Typed, TypeOK
    <2>3. Recorded(r) /\ UNCHANGED <<req, seen>>
      BY <1>4 DEF Dispatch, Recorded
    <2>4. m.user \in Muted \/ <<r, m.user>> \in notified'
      BY <2>1
    <2>5. notified \subseteq notified'
      BY <2>1
    <2>6. QED
      BY <1>1, <2>2, <2>3, <2>4, <2>5 DEF Tells, Informed, Concerned
  <1>5. CASE ReadExpenses(r) \/ ReadSettlements(r) \/ SaveGroup(r) \/ SaveCreator(r) \/ SaveSettlement(r) \/ SaveHidden(r)
    BY <1>5 DEF ReadExpenses, ReadSettlements, SaveGroup, SaveCreator, SaveSettlement, SaveHidden,
                Typed, Control, MayBeAt, Telling
  <1>6. CASE Abort(r)
    <2>1. pc'[r] = "aborted" /\ UNCHANGED <<db, req, seen, queue>>
      BY <1>6 DEF Abort, Goto, Typed, TypeOK
    <2>2. Recorded(r)
      BY <2>1 DEF db, Recorded
    <2>3. QED
      BY <1>1, <2>1, <2>2 DEF Tells, Informed, Concerned, db
  <1>7. QED
    BY <1>2, <1>3, <1>4, <1>5, <1>6 DEF Statement

LEMMA StatementLeaves ==
  ASSUME Typed, NEW r \in Reqs, Statement(r) \/ Abort(r)
  PROVE  notified \subseteq notified' /\ \A q \in Reqs \ {r} : queue'[q] = queue[q]
  <1> USE DEF Notify, Typed, TypeOK
  <1>1. CASE FindGroup(r) \/ FindMember(r) \/ ReadExpenses(r) \/ ReadSettlements(r)
    BY <1>1 DEF FindGroup, FindMember, ReadExpenses, ReadSettlements, db
  <1>2. CASE SaveGroup(r) \/ SaveCreator(r) \/ SaveMember(r) \/ SaveExpense(r)
    BY <1>2 DEF SaveGroup, SaveCreator, SaveMember, SaveExpense
  <1>3. CASE SaveSettlement(r) \/ SaveHidden(r) \/ Dispatch(r) \/ Abort(r)
    BY <1>3 DEF SaveSettlement, SaveHidden, Dispatch, Abort, db
  <1>4. QED
    BY <1>1, <1>2, <1>3 DEF Statement

LEMMA ToldNext ==
  ASSUME Typed, Held, Told, NEW r \in Reqs, Statement(r) \/ Abort(r)
  PROVE  Told'
  <1>1. Steps(r) /\ Books(r) /\ notified \subseteq notified' /\ \A q \in Reqs \ {r} : queue'[q] = queue[q]
    BY StatementSteps, StatementBooks, StatementLeaves
  <1>2. UNCHANGED req /\ \A q \in Reqs \ {r} : pc'[q] = pc[q] /\ seen'[q] = seen[q]
    BY <1>1 DEF Steps, Proceeds, Advances
  <1>3. SUFFICES ASSUME NEW q \in Reqs, Recorded(q)', req[q].kind \in Telling PROVE Tells(q)'
    BY <1>2 DEF Told
  <1>4. CASE q = r
    BY <1>3, <1>4, StatementTells
  <1>5. CASE q # r
    <2>1. Tells(q)
      BY <1>1, <1>3, <1>5, OthersRecord DEF Told
    <2>2. QED
      BY <1>1, <1>2, <1>5, <2>1 DEF Tells, Informed, Concerned
  <1>6. QED
    BY <1>4, <1>5

LEMMA StartNews == ASSUME Typed, Ordered, Rows, Records, News, NEW r \in Reqs, Starts(r) PROVE News'
  <1>1. /\ UNCHANGED <<members, expenses, notified, seen, queue>>
        /\ pc'[r] \in {"saveGroup", "findGroup", "findMember"} /\ (pc'[r] # "findGroup" => req'[r].kind \notin Telling)
        /\ \A q \in Reqs \ {r} : pc'[q] = pc[q] /\ req'[q] = req[q]
    BY DEF Starts, db, Telling
  <1>2. \A q \in Reqs : met[q] \subseteq met'[q]
    BY DEF Starts, Ordered
  <1>3. Loaded'
    BY <1>1, <1>2 DEF News, Loaded, Kept, Before, Recorded
  <1>4. ~Recorded(r)
    <2>1. pc[r] = "idle" /\ req[r].kind = "none"
      BY DEF Starts, Typed, Control, MayBeAt
    <2>2. QED
      BY <2>1 DEF Recorded, Rows, Records, Fresh
  <1>5. Told'
    <2> SUFFICES ASSUME NEW q \in Reqs, Recorded(q)', req'[q].kind \in Telling PROVE Tells(q)'
      BY DEF Told
    <2>1. q # r /\ Recorded(q)
      BY <1>1, <1>4 DEF Recorded
    <2>2. Tells(q)
      BY <1>1, <2>1 DEF News, Told
    <2>3. QED
      BY <1>1, <2>1, <2>2 DEF Tells, Informed, Concerned
  <1>6. QED
    BY <1>3, <1>5 DEF News

(* Once a request has stored a new member or an expense, every member who had *)
(* joined before it began is told or still waits in its loop, and when it has *)
(* succeeded nobody waits, whatever the others did meanwhile: joining, hiding *)
(* the group, telling their own news, failing.                               *)
THEOREM MembersAreTold == Spec => []NewsReachesMembers
  <1>1. Init => News
    BY DEF Init, Blank, Asks, News, Loaded, Told, Telling
  <1>2. Base /\ Records /\ News /\ [Next]_vars => News'
    <2> SUFFICES ASSUME Base, Records, News, [Next]_vars PROVE News'
      OBVIOUS
    <2>1. ASSUME NEW r \in Reqs, Start(r) PROVE News'
      BY <2>1, StartStarts, StartNews DEF Base, Membership
    <2>2. ASSUME NEW r \in Reqs, Statement(r) \/ Abort(r) PROVE News'
      <3>1. Steps(r) /\ Books(r)
        BY <2>2, StatementSteps, StatementBooks DEF Base
      <3>2. Loaded'
        BY <2>2, <3>1, StatementLoads, LoadedNext DEF Base, Membership, News
      <3>3. Told'
        BY <2>2, ToldNext DEF Base, Membership, News
      <3>4. QED
        BY <3>2, <3>3 DEF News
    <2>3. CASE Rest \/ UNCHANGED vars
      BY <2>3 DEF Rest, vars, News, Loaded, Told, Tells, Before, Recorded, Informed, Concerned
    <2>4. QED
      BY <2>1, <2>2, <2>3 DEF Next
  <1>3. Base /\ Records /\ News => NewsReachesMembers
    <2> SUFFICES ASSUME Base, Records, News, NEW r \in Reqs, req[r].kind # "create", Recorded(r)
                 PROVE  /\ pc[r] = "done" => queue[r] = {}
                        /\ \A m \in Before(members, r) :
                             m.user \in Muted \cup Concerned(r) \cup UsersOf(queue[r]) \/ <<r, m.user>> \in notified
      BY DEF NewsReachesMembers, Recorded
    <2>1. req[r].kind \in Telling
      BY DEF Base, Membership, Rows, Records, Recorded, Telling
    <2>2. Tells(r)
      BY <2>1 DEF News, Told
    <2>3. Kept(Before(members, r), seen[r])
      BY <2>1, <2>2 DEF News, Loaded, Tells
    <2>4. ASSUME NEW m \in Before(members, r)
          PROVE  m.user \in Muted \cup Concerned(r) \cup UsersOf(queue[r]) \/ <<r, m.user>> \in notified
      <3>1. PICK n \in seen[r] : n.user = m.user
        BY <2>3 DEF Kept
      <3>2. Informed(n, r)
        BY <2>2 DEF Tells
      <3>3. QED
        BY <3>1, <3>2 DEF Informed, UsersOf
    <2>5. QED
      BY <2>2, <2>4 DEF Tells
  <1>4. QED
    BY <1>1, <1>2, <1>3, AlwaysRecords, PTL DEF Spec

-----------------------------------------------------------------------------
(* What toggleHidden leaves behind *)

Odd(u)     == Cardinality(Toggles(u)) % 2 = 1
Overlap(u) == \E r, q \in Toggles(u) : q \in met[r]
Doubled(m) == \E n \in members : n.user = m.user /\ n.id # m.id

(* Only a member can have toggled.                                           *)
Joined == \A u \in Users : Toggles(u) # {} => u \in UsersOf(members)

(* A row that is loaded has not changed since, unless by a toggle that will   *)
(* have been served at the same time as this one.                            *)
Unflipped ==
  \A r \in Reqs : pc[r] = "saveHidden" =>
    \A m \in members : m.id = toggled[r].id /\ m.user = toggled[r].user =>
      Doubled(m) \/ m.hidden = toggled[r].hidden \/ \E q \in Toggles(m.user) : q \in met[r]

Flips == Joined /\ Unflipped /\ HiddenFollowsToggles

(* One more toggle makes an odd number of an even one.                       *)
LEMMA OneMoreIsOdd ==
  ASSUME NEW S, IsFiniteSet(S), NEW x, x \notin S
  PROVE  (Cardinality(S \cup {x}) % 2 = 1) = ~(Cardinality(S) % 2 = 1)
  <1>1. Cardinality(S) \in Nat /\ Cardinality(S \cup {x}) = Cardinality(S) + 1
    BY FS_CardinalityType, FS_AddElement
  <1>2. \A n \in Nat : (n + 1) % 2 = 1 <=> n % 2 # 1
    OBVIOUS
  <1>3. QED
    BY <1>1, <1>2

(* toggleHidden ends well only by writing the row back.                      *)
LEMMA ToggleEnds ==
  ASSUME Typed, NEW r \in Reqs, Statement(r) \/ Abort(r), req[r].kind = "toggleHidden", pc'[r] = "done"
  PROVE  Hides(r)
  <1>1. pc[r] \in {"findMember", "saveHidden"} /\ Statement(r)
    <2>1. CASE Abort(r)
      BY <2>1 DEF Abort, Goto, Typed, TypeOK
    <2>2. CASE Statement(r)
      BY <2>2, StatementProceeds DEF Proceeds, InFlight, Ended, Typed, TypeOK, Statements, Control, MayBeAt
    <2>3. QED
      BY <2>1, <2>2
  <1>2. CASE FindMember(r)
    BY <1>2 DEF FindMember, Goto, Typed, TypeOK
  <1>3. CASE SaveHidden(r)
    BY <1>3 DEF SaveHidden, Goto, Hides, Typed, TypeOK
  <1>4. QED
    BY <1>1, <1>2, <1>3 DEF Statement, FindGroup, ReadExpenses, ReadSettlements, SaveGroup, SaveCreator,
                            SaveMember, SaveExpense, SaveSettlement, Dispatch

LEMMA TogglesStay ==
  ASSUME NEW r \in Reqs, Steps(r), ~Hides(r), req[r].kind = "toggleHidden" /\ pc'[r] = "done" => Hides(r), NEW u
  PROVE  Toggles(u)' = Toggles(u)
  BY DEF Steps, Proceeds, Toggles, InFlight, Ended

LEMMA TogglesGrow ==
  ASSUME Typed, Held, NEW r \in Reqs, Steps(r), Hides(r), NEW user, user = req[r].user
  PROVE  /\ r \notin Toggles(user) /\ Toggles(user)' = Toggles(user) \cup {r}
         /\ \A u : u # user => Toggles(u)' = Toggles(u)
  <1>1. /\ req[r].kind = "toggleHidden" /\ pc[r] # "done" /\ pc'[r] = "done"
        /\ UNCHANGED req /\ \A q \in Reqs \ {r} : pc'[q] = pc[q]
    BY DEF Hides, Steps, Proceeds, Typed, Control, MayBeAt
  <1>2. QED
    BY <1>1 DEF Toggles

LEMMA TogglesFinite == ASSUME NEW u PROVE IsFiniteSet(Toggles(u))
  <1>1. IsFiniteSet(Reqs)
    BY FS_Interval, BoundsAssumption DEF Reqs
  <1>2. QED
    BY <1>1, FS_Subset DEF Toggles

LEMMA DoubledStays ==
  ASSUME NEW r \in Reqs, Steps(r), NEW m, Doubled(m)
  PROVE  Doubled(m)'
  <1>1. Kept(members, members')
    BY RowsStay DEF Steps
  <1>2. QED
    BY <1>1 DEF Doubled, Kept

(* The row r inserts is the second of its user, or its user has not toggled.  *)
LEMMA FlipsInsert ==
  ASSUME Typed, Rows, Held, Flips, NEW r \in Reqs, Steps(r), Inserts(r), \A u : Toggles(u)' = Toggles(u)
  PROVE  Flips'
  <1> PICK new : new = [id |-> r, user |-> Subject(req[r]), hidden |-> FALSE]
    OBVIOUS
  <1>1. members' = members \cup {new} /\ new.id = r /\ new.user = Subject(req[r]) /\ new.hidden = FALSE
    BY DEF Inserts, Insert
  <1>2. \A m \in members : m.id # r
    BY DEF Rows, Inserts, Inserting, Fresh
  <1>3. \A m \in members : m.user = new.user => Doubled(m)' /\ Doubled(new)'
    BY <1>1, <1>2 DEF Doubled
  <1>4. UNCHANGED <<req, met>> /\ \A q \in Reqs \ {r} : pc'[q] = pc[q] /\ toggled'[q] = toggled[q]
    BY DEF Steps, Proceeds, Advances
  <1>5. pc'[r] # "saveHidden"
    BY <1>1, <1>2 DEF Steps, Advances
  <1>6. Joined'
    BY <1>1 DEF Flips, Joined, UsersOf
  <1>7. Unflipped'
    <2> SUFFICES ASSUME NEW q \in Reqs, pc'[q] = "saveHidden",
                        NEW m \in members', m.id = toggled'[q].id, m.user = toggled'[q].user
                 PROVE  Doubled(m)' \/ m.hidden = toggled'[q].hidden \/ \E t \in Toggles(m.user) : t \in met[q]
      BY <1>4 DEF Unflipped
    <2>1. q # r /\ pc[q] = "saveHidden" /\ toggled'[q] = toggled[q]
      BY <1>4, <1>5
    <2>2. CASE m \in members
      BY <2>1, <2>2, DoubledStays DEF Flips, Unflipped
    <2>3. CASE m = new
      <3>1. \E n \in members : n.id = m.id
        BY <2>1 DEF Held, Kept
      <3>2. QED
        BY <1>1, <1>2, <2>3, <3>1
    <2>4. QED
      BY <1>1, <2>2, <2>3
  <1>8. HiddenFollowsToggles'
    <2> SUFFICES ASSUME NEW m \in members'
                 PROVE  Doubled(m)' \/ Overlap(m.user) \/ m.hidden = Odd(m.user)
      BY <1>4 DEF HiddenFollowsToggles, Doubled, Overlap, Odd
    <2>1. CASE m \in members
      <3>1. Doubled(m) \/ Overlap(m.user) \/ m.hidden = Odd(m.user)
        BY <2>1 DEF Flips, HiddenFollowsToggles, Doubled, Overlap, Odd
      <3>2. QED
        BY <3>1, DoubledStays
    <2>2. CASE m = new /\ \E n \in members : n.user = new.user
      BY <1>3, <2>2
    <2>3. CASE m = new /\ ~\E n \in members : n.user = new.user
      <3>1. m.user \in Users
        BY <1>1, <2>3 DEF Typed, Control, MayBeAt, Named, Inserts, Inserting, Subject
      <3>2. Toggles(m.user) = {}
        BY <2>3, <3>1 DEF Flips, Joined, UsersOf
      <3>3. ~Odd(m.user)
        BY <3>2, FS_EmptySet DEF Odd
      <3>4. QED
        BY <1>1, <2>3, <3>3 DEF Odd
    <2>4. QED
      BY <1>1, <2>1, <2>2, <2>3
  <1>9. QED
    BY <1>6, <1>7, <1>8 DEF Flips

(* The row written back is the other way round, and one more toggle is done.  *)
LEMMA FlipsHide ==
  ASSUME Typed, Ordered, Rows, Held, Flips, NEW r \in Reqs, Steps(r), Hides(r)
  PROVE  Flips'
  <1> PICK row : row = toggled[r]
    OBVIOUS
  <1> PICK user : user = req[r].user
    OBVIOUS
  <1>1. /\ members' = {m \in members : m.id # row.id \/ m.user # row.user} \cup {Flip(row)}
        /\ Flip(row).id = row.id /\ Flip(row).user = row.user /\ row.user = user
        /\ \E m \in members : m.id = row.id /\ m.user = row.user
    BY HidesARow DEF Hides
  <1>2. row \in MemberRow /\ Flip(row).hidden = ~row.hidden /\ row.hidden \in BOOLEAN
    BY DEF Hides, Typed, Control, Flip, MemberRow
  <1>3. /\ r \notin Toggles(user) /\ Toggles(user)' = Toggles(user) \cup {r}
        /\ \A u : u # user => Toggles(u)' = Toggles(u)
    BY TogglesGrow
  <1>4. /\ UNCHANGED <<req, met>> /\ r \in InFlight /\ pc[r] = "saveHidden" /\ pc'[r] = "done"
        /\ \A q \in Reqs \ {r} : pc'[q] = pc[q] /\ toggled'[q] = toggled[q]
    BY DEF Steps, Proceeds, Advances, Hides
  <1>5. Joined'
    BY <1>1, <1>3 DEF Flips, Joined, UsersOf
  <1>6. Unflipped'
    <2> SUFFICES ASSUME NEW q \in Reqs, pc'[q] = "saveHidden",
                        NEW m \in members', m.id = toggled'[q].id, m.user = toggled'[q].user
                 PROVE  Doubled(m)' \/ m.hidden = toggled'[q].hidden \/ \E t \in Toggles(m.user)' : t \in met[q]
      BY <1>4 DEF Unflipped
    <2>1. q # r /\ pc[q] = "saveHidden" /\ toggled'[q] = toggled[q]
      BY <1>4
    <2>2. r \in met[q]
      BY <1>4, <2>1, BothMet DEF InFlight, Ended
    <2>3. CASE m.user = user
      BY <1>3, <2>2, <2>3
    <2>4. CASE m.user # user
      BY <1>1, <1>3, <2>1, <2>4, DoubledStays DEF Flips, Unflipped
    <2>5. QED
      BY <2>3, <2>4
  <1>7. HiddenFollowsToggles'
    <2> SUFFICES ASSUME NEW m \in members'
                 PROVE  Doubled(m)' \/ Overlap(m.user)' \/ m.hidden = Odd(m.user)'
      BY DEF HiddenFollowsToggles, Doubled, Overlap, Odd
    <2>1. CASE m.user # user
      <3>1. Doubled(m) \/ Overlap(m.user) \/ m.hidden = Odd(m.user)
        BY <1>1, <2>1 DEF Flips, HiddenFollowsToggles, Doubled, Overlap, Odd
      <3>2. Overlap(m.user)' = Overlap(m.user) /\ Odd(m.user)' = Odd(m.user)
        BY <1>3, <1>4, <2>1 DEF Overlap, Odd
      <3>3. QED
        BY <3>1, <3>2, DoubledStays
    <2>2. CASE m.user = user /\ m.id # row.id
      BY <1>1, <2>2 DEF Doubled
    <2>3. CASE m.user = user /\ m.id = row.id
      <3>1. m = Flip(row)
        BY <1>1, <2>3
      <3>2. PICK old \in members : old.id = m.id /\ old.user = m.user
        BY <1>1, <3>1
      <3>3. Doubled(old) \/ old.hidden = row.hidden \/ \E q \in Toggles(user) : q \in met[r]
        BY <1>1, <1>4, <2>3, <3>1, <3>2 DEF Flips, Unflipped
      <3>4. Doubled(old) \/ Overlap(user) \/ old.hidden = Odd(user)
        BY <2>3, <3>2 DEF Flips, HiddenFollowsToggles, Doubled, Overlap, Odd
      <3>5. Doubled(old) => Doubled(m)'
        BY <3>2, DoubledStays DEF Doubled
      <3>6. Overlap(user) \/ (\E q \in Toggles(user) : q \in met[r]) => Overlap(user)'
        BY <1>3, <1>4 DEF Overlap
      <3>7. Odd(user)' = ~Odd(user)
        BY <1>3, TogglesFinite, OneMoreIsOdd DEF Odd
      <3>8. m.hidden = ~row.hidden
        BY <1>2, <3>1
      <3>9. QED
        BY <2>3, <3>3, <3>4, <3>5, <3>6, <3>7, <3>8
    <2>4. QED
      BY <2>1, <2>2, <2>3
  <1>8. QED
    BY <1>5, <1>6, <1>7 DEF Flips

LEMMA FlipsNext ==
  ASSUME Typed, Ordered, Rows, Held, Flips, NEW r \in Reqs, Statement(r) \/ Abort(r)
  PROVE  Flips'
  <1>1. Steps(r)
    BY StatementSteps
  <1>2. CASE Hides(r)
    BY <1>1, <1>2, FlipsHide
  <1>3. CASE ~Hides(r)
    <2>1. \A u : Toggles(u)' = Toggles(u)
      BY <1>1, <1>3, ToggleEnds, TogglesStay
    <2>2. CASE Inserts(r)
      BY <1>1, <2>1, <2>2, FlipsInsert
    <2>3. CASE members' = members
      <3>1. Joined'
        BY <2>1, <2>3 DEF Flips, Joined
      <3>2. Unflipped'
        <4>1. met' = met /\ \A q \in Reqs \ {r} : pc'[q] = pc[q] /\ toggled'[q] = toggled[q]
          BY <1>1 DEF Steps, Proceeds, Advances
        <4>2. ASSUME pc'[r] = "saveHidden", NEW m \in members, m.id = toggled'[r].id, m.user = toggled'[r].user
              PROVE  m.hidden = toggled'[r].hidden
          BY <1>1, <4>2 DEF Steps, Advances, MembershipsOf, Rows
        <4>3. QED
          BY <2>1, <2>3, <4>1, <4>2 DEF Flips, Unflipped, Doubled
      <3>3. HiddenFollowsToggles'
        BY <1>1, <2>1, <2>3 DEF Flips, HiddenFollowsToggles, Steps, Proceeds
      <3>4. QED
        BY <3>1, <3>2, <3>3 DEF Flips
    <2>4. QED
      BY <1>1, <1>3, <2>2, <2>3 DEF Steps
  <1>4. QED
    BY <1>2, <1>3

LEMMA StartFlips == ASSUME Typed, Ordered, Flips, NEW r \in Reqs, Starts(r) PROVE Flips'
  <1>1. /\ pc[r] = "idle" /\ pc'[r] \notin {"saveHidden", "done"} /\ members' = members /\ toggled' = toggled
        /\ \A q \in Reqs \ {r} : pc'[q] = pc[q] /\ req'[q] = req[q]
    BY DEF Starts, db
  <1>2. \A u : Toggles(u)' = Toggles(u)
    BY <1>1 DEF Toggles
  <1>3. \A q \in Reqs : met[q] \subseteq met'[q]
    BY DEF Starts, Ordered
  <1>4. \A u : Toggles(u) \subseteq Reqs
    BY DEF Toggles
  <1>5. Joined'
    BY <1>1, <1>2 DEF Flips, Joined
  <1>6. Unflipped'
    BY <1>1, <1>2, <1>3 DEF Flips, Unflipped, Doubled
  <1>7. HiddenFollowsToggles'
    BY <1>1, <1>2, <1>3, <1>4 DEF Flips, HiddenFollowsToggles
  <1>8. QED
    BY <1>5, <1>6, <1>7 DEF Flips

(* A group is hidden for whoever toggled it an odd number of times, unless    *)
(* two of the toggles, or two requests that added the user, were served at   *)
(* the same time: toggleHidden writes back the row it has loaded.            *)
THEOREM TogglesAreKept == Spec => []HiddenFollowsToggles
  <1>1. Init => Flips
    <2> SUFFICES ASSUME Init PROVE Flips
      OBVIOUS
    <2>1. \A r \in Reqs : pc[r] = "idle"
      BY DEF Init
    <2>2. \A u : Toggles(u) = {}
      BY <2>1 DEF Toggles
    <2>3. \A u : ~Odd(u)
      BY <2>2, FS_EmptySet DEF Odd
    <2>4. \A m \in members : m.hidden = FALSE
      BY DEF Init
    <2>5. HiddenFollowsToggles
      BY <2>3, <2>4 DEF HiddenFollowsToggles, Odd
    <2>6. QED
      BY <2>1, <2>2, <2>5 DEF Flips, Joined, Unflipped
  <1>2. Base /\ Flips /\ [Next]_vars => Flips'
    <2> SUFFICES ASSUME Base, Flips, [Next]_vars PROVE Flips'
      OBVIOUS
    <2>1. ASSUME NEW r \in Reqs, Start(r) PROVE Flips'
      BY <2>1, StartStarts, StartFlips DEF Base
    <2>2. ASSUME NEW r \in Reqs, Statement(r) \/ Abort(r) PROVE Flips'
      BY <2>2, FlipsNext DEF Base, Membership
    <2>3. CASE Rest \/ UNCHANGED vars
      <3>1. UNCHANGED vars
        BY <2>3 DEF Rest
      <3>2. \A u : Toggles(u)' = Toggles(u)
        BY <3>1 DEF vars, Toggles
      <3>3. QED
        BY <3>1, <3>2 DEF vars, Flips, Joined, Unflipped, HiddenFollowsToggles, Doubled
    <2>4. QED
      BY <2>1, <2>2, <2>3 DEF Next
  <1>3. Flips => HiddenFollowsToggles
    BY DEF Flips
  <1>4. QED
    BY <1>1, <1>2, <1>3, AlwaysBase, PTL DEF Spec

-----------------------------------------------------------------------------
(* What getDebts has read *)

Counted ==
  \A r \in Reqs : req[r].kind = "getDebts" =>
    /\ pc[r] \in {"readSettlements", "done"} => Before(expenses, r) \subseteq read[r].expenses
    /\ pc[r] = "done" => Before(settlements, r) \subseteq read[r].settlements

(* What a statement of getDebts has read.                                    *)
Reads(r) ==
  /\ \A q \in Reqs \ {r} : read'[q] = read[q]
  /\ req[r].kind = "getDebts" =>
       /\ pc'[r] = "readSettlements" => expenses \subseteq read'[r].expenses
       /\ pc'[r] = "done" => /\ pc[r] = "readSettlements" /\ read'[r].expenses = read[r].expenses
                             /\ settlements \subseteq read'[r].settlements

LEMMA StatementReads == ASSUME Typed, NEW r \in Reqs, Statement(r) \/ Abort(r) PROVE Reads(r)
  <1> USE DEF Reads, Goto, Typed, TypeOK
  <1>1. CASE ReadExpenses(r)
    BY <1>1 DEF ReadExpenses
  <1>2. CASE ReadSettlements(r)
    BY <1>2 DEF ReadSettlements
  <1>3. CASE FindGroup(r)
    <2>1. AfterGroup(req[r], members) \notin {"readSettlements", "done"}
      BY <1>3 DEF FindGroup, AfterGroup, Control, MayBeAt, ReqKinds
    <2>2. QED
      BY <1>3, <2>1 DEF FindGroup
  <1>4. CASE FindMember(r) \/ SaveGroup(r) \/ SaveCreator(r) \/ SaveMember(r) \/ SaveExpense(r)
    BY <1>4 DEF FindMember, SaveGroup, SaveCreator, SaveMember, SaveExpense, Control, MayBeAt
  <1>5. CASE SaveSettlement(r) \/ SaveHidden(r) \/ Dispatch(r) \/ Abort(r)
    BY <1>5 DEF SaveSettlement, SaveHidden, Dispatch, Abort, Control, MayBeAt
  <1>6. QED
    BY <1>1, <1>2, <1>3, <1>4, <1>5 DEF Statement

(* Rows that are recorded while a request runs are not of those it must count. *)
LEMMA EarlierBooks ==
  ASSUME Ordered, NEW r \in Reqs, Steps(r), Books(r), NEW q \in Reqs, pc'[q] # "idle"
  PROVE  /\ Before(expenses, q)' \subseteq Before(expenses, q)
         /\ Before(settlements, q)' \subseteq Before(settlements, q)
  <1>1. met' = met /\ (r < q => r \in met[q])
    BY DEF Steps, Proceeds, Ordered, Reqs
  <1>2. QED
    BY <1>1 DEF Books, Before

LEMMA CountedNext == ASSUME Typed, Ordered, Counted, NEW r \in Reqs, Statement(r) \/ Abort(r) PROVE Counted'
  <1>1. Steps(r) /\ Books(r) /\ Reads(r)
    BY StatementSteps, StatementBooks, StatementReads
  <1>2. UNCHANGED <<req, met>> /\ \A q \in Reqs \ {r} : pc'[q] = pc[q] /\ read'[q] = read[q]
    BY <1>1 DEF Steps, Proceeds, Reads
  <1>3. SUFFICES ASSUME NEW q \in Reqs, req[q].kind = "getDebts", pc'[q] \in {"readSettlements", "done"}
                 PROVE  /\ Before(expenses, q)' \subseteq read'[q].expenses
                        /\ pc'[q] = "done" => Before(settlements, q)' \subseteq read'[q].settlements
    BY <1>2 DEF Counted
  <1>4. /\ Before(expenses, q)' \subseteq Before(expenses, q) /\ Before(expenses, q) \subseteq expenses
        /\ Before(settlements, q)' \subseteq Before(settlements, q) /\ Before(settlements, q) \subseteq settlements
    BY <1>1, <1>3, EarlierBooks DEF Before
  <1>5. CASE q = r
    BY <1>1, <1>3, <1>4, <1>5 DEF Reads, Counted
  <1>6. CASE q # r
    BY <1>2, <1>3, <1>4, <1>6 DEF Counted
  <1>7. QED
    BY <1>5, <1>6

LEMMA StartCounted == ASSUME Typed, Ordered, Counted, NEW r \in Reqs, Starts(r) PROVE Counted'
  <1>1. /\ UNCHANGED <<expenses, settlements, read>> /\ pc'[r] \notin {"readSettlements", "done"}
        /\ \A q \in Reqs \ {r} : pc'[q] = pc[q] /\ req'[q] = req[q]
    BY DEF Starts, db
  <1>2. \A q \in Reqs : met[q] \subseteq met'[q]
    BY DEF Starts, Ordered
  <1>3. QED
    BY <1>1, <1>2 DEF Counted, Before

(* getDebts counts every expense and settlement recorded before it was asked, *)
(* though it reads them one table after the other while others record.       *)
THEOREM DebtsMissNothing == Spec => []DebtsCoverLedger
  <1>1. Init => Counted
    BY DEF Init, Counted
  <1>2. Base /\ Counted /\ [Next]_vars => Counted'
    <2> SUFFICES ASSUME Base, Counted, [Next]_vars PROVE Counted'
      OBVIOUS
    <2>1. ASSUME NEW r \in Reqs, Start(r) PROVE Counted'
      BY <2>1, StartStarts, StartCounted DEF Base
    <2>2. ASSUME NEW r \in Reqs, Statement(r) \/ Abort(r) PROVE Counted'
      BY <2>2, CountedNext DEF Base
    <2>3. CASE Rest \/ UNCHANGED vars
      BY <2>3 DEF Rest, vars, Counted, Before
    <2>4. QED
      BY <2>1, <2>2, <2>3 DEF Next
  <1>3. Counted => DebtsCoverLedger
    BY DEF Counted, DebtsCoverLedger, Asked
  <1>4. QED
    BY <1>1, <1>2, <1>3, AlwaysBase, PTL DEF Spec

-----------------------------------------------------------------------------
(* What the balances add up to *)

(* What one row does to the balances.                                        *)
OfExpense(x) == [u \in Users |-> (IF x.payer = u THEN x.amount ELSE 0) - Owes(x)[u]]
OfTransfer(x) == [u \in Users |-> (IF x.from = u THEN x.amount ELSE 0) - (IF x.to = u THEN x.amount ELSE 0)]

(* Exactly one user is credited with an amount.                              *)
LEMMA OnlyOneGets ==
  ASSUME NEW v \in Users, NEW a \in Int
  PROVE  /\ [u \in Users |-> IF v = u THEN a ELSE 0] \in [Users -> Int]
         /\ SumFunction([u \in Users |-> IF v = u THEN a ELSE 0]) = a
  <1> PICK f : f = [u \in Users |-> IF v = u THEN a ELSE 0]
    OBVIOUS
  <1>1. f \in [Users -> Int] /\ f[v] = a /\ \A u \in Users \ {v} : f[u] = 0
    OBVIOUS
  <1>2. SumFunction(f) = f[v]
    BY <1>1, SumOne, UsersAssumption
  <1>3. QED
    BY <1>1, <1>2

(* An expense leaves what its splits do not assign, a settlement nothing.     *)
LEMMA ExpenseAddsUp ==
  ASSUME NEW x \in ExpenseRow
  PROVE  /\ OfExpense(x) \in [Users -> Int]
         /\ SumFunction(OfExpense(x)) = x.amount - SumFunction(Owes(x))
  <1>1. x.payer \in Users /\ x.amount \in Int /\ Owes(x) \in [Users -> Int]
    BY OwesTypes DEF ExpenseRow
  <1> PICK owed \in [Users -> Int] : owed = Owes(x)
    BY <1>1
  <1>2. PICK paid \in [Users -> Int] : /\ \A u \in Users : paid[u] = IF x.payer = u THEN x.amount ELSE 0
                                       /\ SumFunction(paid) = x.amount
    BY <1>1, OnlyOneGets
  <1>3. PICK net \in [Users -> Int] : net = OfExpense(x) /\ \A u \in Users : paid[u] = net[u] + owed[u]
    <2>1. OfExpense(x) = [u \in Users |-> paid[u] - owed[u]]
      BY <1>2 DEF OfExpense
    <2>2. [u \in Users |-> paid[u] - owed[u]] \in [Users -> Int]
      OBVIOUS
    <2>3. \A u \in Users : OfExpense(x)[u] = paid[u] - owed[u] /\ paid[u] \in Int /\ owed[u] \in Int
      BY <2>1
    <2>4. \A u \in Users : paid[u] = OfExpense(x)[u] + owed[u]
      BY <2>3
    <2>5. QED
      BY <2>1, <2>2, <2>4
  <1>4. SumFunction(paid) = SumFunction(net) + SumFunction(owed)
    BY <1>3, SumPlus, UsersAssumption
  <1>5. SumFunction(net) \in Int /\ SumFunction(owed) \in Int
    BY SumType, UsersAssumption
  <1>6. QED
    BY <1>2, <1>3, <1>4, <1>5

LEMMA TransferAddsUp ==
  ASSUME NEW x \in TransferRow
  PROVE  OfTransfer(x) \in [Users -> Int] /\ SumFunction(OfTransfer(x)) = 0
  <1>1. x.from \in Users /\ x.to \in Users /\ x.amount \in Int
    BY DEF TransferRow
  <1>2. PICK give \in [Users -> Int] : /\ \A u \in Users : give[u] = IF x.from = u THEN x.amount ELSE 0
                                       /\ SumFunction(give) = x.amount
    BY <1>1, OnlyOneGets
  <1>3. PICK take \in [Users -> Int] : /\ \A u \in Users : take[u] = IF x.to = u THEN x.amount ELSE 0
                                       /\ SumFunction(take) = x.amount
    BY <1>1, OnlyOneGets
  <1>4. PICK net \in [Users -> Int] : net = OfTransfer(x) /\ \A u \in Users : give[u] = net[u] + take[u]
    <2>1. OfTransfer(x) = [u \in Users |-> give[u] - take[u]]
      BY <1>2, <1>3 DEF OfTransfer
    <2>2. [u \in Users |-> give[u] - take[u]] \in [Users -> Int]
      OBVIOUS
    <2>3. \A u \in Users : OfTransfer(x)[u] = give[u] - take[u] /\ give[u] \in Int /\ take[u] \in Int
      BY <2>1
    <2>4. \A u \in Users : give[u] = OfTransfer(x)[u] + take[u]
      BY <2>3
    <2>5. QED
      BY <2>1, <2>2, <2>4
  <1>5. SumFunction(give) = SumFunction(net) + SumFunction(take)
    BY <1>4, SumPlus, UsersAssumption
  <1>6. SumFunction(net) \in Int
    BY SumType, UsersAssumption
  <1>7. QED
    <2>1. PICK n \in Int : n = SumFunction(net)
      BY <1>6
    <2>2. x.amount = n + x.amount
      BY <1>2, <1>3, <1>5, <2>1
    <2>3. n = 0
      BY <1>1, <2>1, <2>2
    <2>4. QED
      BY <1>4, <2>1, <2>3

(* The rows of a table can be added up user by user or row by row.            *)
LEMMA TableAddsUp ==
  ASSUME NEW rows, IsFiniteSet(rows), NEW of \in [rows -> [Users -> Int]],
         NEW total, total = [u \in Users |-> SumFunction([x \in rows |-> of[x][u]])]
  PROVE  /\ total \in [Users -> Int]
         /\ SumFunction(total) = SumFunction([x \in rows |-> SumFunction(of[x])])
  <1>1. ASSUME NEW u \in Users PROVE total[u] \in Int
    <2>1. PICK f \in [rows -> Int] : f = [x \in rows |-> of[x][u]]
      OBVIOUS
    <2>2. SumFunction(f) \in Int
      BY <2>1, SumType
    <2>3. QED
      BY <2>1, <2>2
  <1>2. SumFunction([x \in rows |-> SumFunction(of[x])]) = SumFunction(total)
    BY SumSwap, UsersAssumption
  <1>3. QED
    BY <1>1, <1>2

LEMMA BalancesAddUp ==
  ASSUME NEW e \in SUBSET ExpenseRow, IsFiniteSet(e), NEW s \in SUBSET TransferRow, IsFiniteSet(s)
  PROVE  /\ NetBalances(e, s) \in [Users -> Int]
         /\ SumFunction(NetBalances(e, s)) = SumFunction([x \in e |-> x.amount - SumFunction(Owes(x))])
  <1>1. PICK ofE \in [e -> [Users -> Int]] : \A x \in e : ofE[x] = OfExpense(x)
    <2>1. [x \in e |-> OfExpense(x)] \in [e -> [Users -> Int]]
      BY ExpenseAddsUp
    <2>2. QED
      BY <2>1
  <1>2. PICK ofS \in [s -> [Users -> Int]] : \A x \in s : ofS[x] = OfTransfer(x)
    <2>1. [x \in s |-> OfTransfer(x)] \in [s -> [Users -> Int]]
      BY TransferAddsUp
    <2>2. QED
      BY <2>1
  <1>3. PICK byE : byE = [u \in Users |-> SumFunction([x \in e |-> ofE[x][u]])]
    OBVIOUS
  <1>4. PICK byS : byS = [u \in Users |-> SumFunction([x \in s |-> ofS[x][u]])]
    OBVIOUS
  <1>5. byE \in [Users -> Int] /\ SumFunction(byE) = SumFunction([x \in e |-> SumFunction(ofE[x])])
    BY <1>3, TableAddsUp
  <1>6. byS \in [Users -> Int] /\ SumFunction(byS) = SumFunction([x \in s |-> SumFunction(ofS[x])])
    BY <1>4, TableAddsUp
  <1>7. NetBalances(e, s) = [u \in Users |-> byE[u] + byS[u]]
    <2>1. ASSUME NEW u \in Users
          PROVE  /\ byE[u] = SumFunction([x \in e |-> (IF x.payer = u THEN x.amount ELSE 0) - Owes(x)[u]])
                 /\ byS[u] = SumFunction([x \in s |-> (IF x.from = u THEN x.amount ELSE 0)
                                                     - (IF x.to = u THEN x.amount ELSE 0)])
      <3>1. [x \in e |-> ofE[x][u]] = [x \in e |-> (IF x.payer = u THEN x.amount ELSE 0) - Owes(x)[u]]
        BY <1>1 DEF OfExpense
      <3>2. [x \in s |-> ofS[x][u]] = [x \in s |-> (IF x.from = u THEN x.amount ELSE 0)
                                                   - (IF x.to = u THEN x.amount ELSE 0)]
        BY <1>2 DEF OfTransfer
      <3>3. QED
        BY <1>3, <1>4, <3>1, <3>2
    <2>2. QED
      BY <2>1 DEF NetBalances
  <1>8. PICK net \in [Users -> Int] : net = NetBalances(e, s) /\ \A u \in Users : net[u] = byE[u] + byS[u]
    BY <1>5, <1>6, <1>7
  <1>9. SumFunction(net) = SumFunction(byE) + SumFunction(byS)
    <2>1. byE \in [Users -> Int] /\ byS \in [Users -> Int] /\ IsFiniteSet(Users)
      BY <1>5, <1>6, UsersAssumption
    <2>2. QED
      BY <1>8, <2>1, SumPlus
  <1>10. SumFunction(byS) = 0
    <2>1. PICK f \in [s -> Int] : f = [x \in s |-> SumFunction(ofS[x])] /\ \A x \in s : f[x] = 0
      <3>1. \A x \in s : SumFunction(ofS[x]) = 0
        BY <1>2, TransferAddsUp
      <3>2. [x \in s |-> SumFunction(ofS[x])] \in [s -> Int]
        BY <3>1
      <3>3. \A x \in s : [y \in s |-> SumFunction(ofS[y])][x] = 0
        BY <3>1
      <3>4. QED
        BY <3>2, <3>3
    <2>2. SumFunction(f) = 0
      BY <2>1, SumZero
    <2>3. QED
      BY <1>6, <2>1, <2>2
  <1>11. [x \in e |-> SumFunction(ofE[x])] = [x \in e |-> x.amount - SumFunction(Owes(x))]
    BY <1>1, ExpenseAddsUp
  <1>12. SumFunction(byE) \in Int
    BY <1>5, SumType, UsersAssumption
  <1>13. SumFunction([x \in e |-> x.amount - SumFunction(Owes(x))]) = SumFunction(byE)
    BY <1>5, <1>11
  <1>14. SumFunction(net) = SumFunction(byE)
    BY <1>9, <1>10, <1>12
  <1>15. QED
    BY <1>8, <1>13, <1>14

Tables ==
  /\ IsFiniteSet(expenses) /\ IsFiniteSet(settlements)
  /\ \A r \in Reqs : IsFiniteSet(read[r].expenses) /\ IsFiniteSet(read[r].settlements)

(* A statement stores one row at most, and a query loads what is stored.     *)
LEMMA StatementTables == ASSUME Typed, Tables, NEW r \in Reqs, Statement(r) \/ Abort(r) PROVE Tables'
  <1>1. /\ IsFiniteSet(expenses) /\ IsFiniteSet(settlements)
        /\ \A q \in Reqs : IsFiniteSet(read[q].expenses) /\ IsFiniteSet(read[q].settlements)
        /\ read \in [Reqs -> [expenses : SUBSET ExpenseRow, settlements : SUBSET TransferRow]]
    BY DEF Tables, Typed, TypeOK
  <1>2. CASE ReadExpenses(r)
    <2>1. /\ UNCHANGED <<expenses, settlements>> /\ \A q \in Reqs \ {r} : read'[q] = read[q]
          /\ read'[r].expenses = expenses /\ read'[r].settlements = read[r].settlements
      BY <1>1, <1>2 DEF ReadExpenses, db
    <2>2. QED
      BY <1>1, <2>1 DEF Tables
  <1>3. CASE ReadSettlements(r)
    <2>1. /\ UNCHANGED <<expenses, settlements>> /\ \A q \in Reqs \ {r} : read'[q] = read[q]
          /\ read'[r].expenses = read[r].expenses /\ read'[r].settlements = settlements
      BY <1>1, <1>3 DEF ReadSettlements, db
    <2>2. QED
      BY <1>1, <2>1 DEF Tables
  <1>4. CASE SaveExpense(r)
    <2>1. PICK x : expenses' = expenses \cup {x}
      BY <1>4 DEF SaveExpense
    <2>2. UNCHANGED <<settlements, read>>
      BY <1>4 DEF SaveExpense
    <2>3. QED
      BY <1>1, <2>1, <2>2, FS_AddElement DEF Tables
  <1>5. CASE SaveSettlement(r)
    <2>1. PICK x : settlements' = settlements \cup {x}
      BY <1>5 DEF SaveSettlement
    <2>2. UNCHANGED <<expenses, read>>
      BY <1>5 DEF SaveSettlement
    <2>3. QED
      BY <1>1, <2>1, <2>2, FS_AddElement DEF Tables
  <1>6. CASE \/ FindGroup(r) \/ FindMember(r) \/ SaveGroup(r) \/ SaveCreator(r) \/ SaveMember(r)
             \/ SaveHidden(r) \/ Dispatch(r) \/ Abort(r)
    <2>1. UNCHANGED <<expenses, settlements, read>>
      BY <1>6 DEF FindGroup, FindMember, SaveGroup, SaveCreator, SaveMember, SaveHidden, Dispatch, Abort, db
    <2>2. QED
      BY <2>1 DEF Tables
  <1>7. QED
    BY <1>2, <1>3, <1>4, <1>5, <1>6 DEF Statement

LEMMA AlwaysTables == Spec => []Tables
  <1>1. Init => Tables
    <2> SUFFICES ASSUME Init PROVE Tables
      OBVIOUS
    <2>1. IsFiniteSet({})
      BY FS_EmptySet
    <2>2. QED
      BY <2>1 DEF Init, Tables, NothingRead
  <1>2. Typed /\ Tables /\ [Next]_vars => Tables'
    <2> SUFFICES ASSUME Typed, Tables, [Next]_vars PROVE Tables'
      OBVIOUS
    <2>1. ASSUME NEW r \in Reqs, Start(r) PROVE Tables'
      BY <2>1 DEF Start, db, Tables
    <2>2. ASSUME NEW r \in Reqs, Statement(r) \/ Abort(r) PROVE Tables'
      BY <2>2, StatementTables
    <2>3. CASE Rest \/ UNCHANGED vars
      BY <2>3 DEF Rest, vars, Tables
    <2>4. QED
      BY <2>1, <2>2, <2>3 DEF Next
  <1>3. QED
    BY <1>1, <1>2, AlwaysTyped, PTL DEF Spec

(* The balances getDebts answers with are of every expense and settlement     *)
(* recorded before it was asked, and add up, over all the users there are, to *)
(* what the expenses it read leave unassigned: a settlement, whenever it is   *)
(* recorded, makes no money and loses none.                                  *)
THEOREM DebtsAreAccountedFor == Spec => []DebtsAccountForLedger
  <1>1. Typed /\ Tables => DebtsAddUp
    <2> SUFFICES ASSUME Typed, Tables, NEW r \in Reqs
                 PROVE  SumFunction(NetBalances(read[r].expenses, read[r].settlements)) =
                          SumFunction([x \in read[r].expenses |-> x.amount - SumFunction(Owes(x))])
      BY DEF DebtsAddUp
    <2>1. PICK e \in SUBSET ExpenseRow : e = read[r].expenses /\ IsFiniteSet(e)
      BY DEF Typed, TypeOK, Tables
    <2>2. PICK s \in SUBSET TransferRow : s = read[r].settlements /\ IsFiniteSet(s)
      BY DEF Typed, TypeOK, Tables
    <2>3. SumFunction(NetBalances(e, s)) = SumFunction([x \in e |-> x.amount - SumFunction(Owes(x))])
      BY <2>1, <2>2, BalancesAddUp
    <2>4. QED
      BY <2>1, <2>2, <2>3
  <1>2. DebtsCoverLedger /\ DebtsAddUp => DebtsAccountForLedger
    BY DEF DebtsAccountForLedger
  <1>3. QED
    BY <1>1, <1>2, AlwaysTyped, AlwaysTables, DebtsMissNothing, PTL

-----------------------------------------------------------------------------
(* Reports *)

TransactionRow == [id : Reqs, user : Users, amount : Int]
Answer == [pc : Queries \cup {"idle", "refused", "done"}, kind : {"group", "user"}, user : Users \cup {NoUser},
           open : BOOLEAN, cut : SUBSET (ExpenseRow \cup TransferRow \cup TransactionRow),
           members : SUBSET MemberRow, expenses : SUBSET ExpenseRow,
           transactions : SUBSET TransactionRow, transfers : SUBSET TransferRow]

(* Which report comes to which query.                                        *)
Asking ==
  /\ report.pc \in {"findGroup", "settlements"} => report.kind = "group"
  /\ report.pc \in {"findUser", "transactions"} => report.kind = "user"

ReportTyped ==
  /\ report \in Answer /\ Asking
  /\ transactions \subseteq TransactionRow /\ IsFiniteSet(transactions)
  /\ since \subseteq expenses \cup settlements \cup transactions

(* A report holds rows of the tables and nothing else.                       *)
Quoted ==
  /\ report.expenses \subseteq expenses /\ report.transfers \subseteq settlements
  /\ report.transactions \subseteq transactions
  /\ report.kind = "group" => report.transactions = {}
  /\ \A x \in report.expenses \cup report.transfers : x.id \notin Early

(* The rows the report must count lie before the end of its period, and the   *)
(* members it has loaded are those who paid them.                            *)
Covered ==
  report.pc \in {"expenses", "settlements", "transactions", "done"} =>
    /\ since \subseteq report.cut
    /\ report.kind = "group" => \A x \in since \cap expenses : x.payer \in Listed

(* The queries that are done have loaded what is due.                        *)
Due(rows) == {x \in since \cap rows : x.id \notin Early}
Fetched ==
  /\ report.kind = "group" =>
       /\ report.pc \in {"settlements", "done"} => Due(expenses) \subseteq report.expenses
       /\ report.pc = "done" => Due(settlements) \subseteq report.transfers
  /\ report.kind = "user" =>
       /\ report.pc \in {"expenses", "done"} =>
            {t \in since \cap transactions : t.user = report.user} \subseteq report.transactions
       /\ report.pc = "done" => {x \in Due(expenses) : x.payer = report.user} \subseteq report.expenses

ReportInv == ReportTyped /\ Quoted /\ Covered /\ Fetched

(* The rows of different tables differ.                                      *)
LEMMA RowsDiffer ==
  /\ ExpenseRow \cap TransferRow = {} /\ ExpenseRow \cap TransactionRow = {}
  /\ TransferRow \cap TransactionRow = {}
  <1>1. \A x \in ExpenseRow : "payer" \in DOMAIN x
    BY DEF ExpenseRow
  <1>2. \A x \in TransferRow : "from" \in DOMAIN x /\ "payer" \notin DOMAIN x
    BY DEF TransferRow
  <1>3. \A x \in TransactionRow : "from" \notin DOMAIN x /\ "payer" \notin DOMAIN x
    BY DEF TransactionRow
  <1>4. QED
    BY <1>1, <1>2, <1>3

(* Only what the report must count counts: what is recorded since does not.   *)
LEMMA SinceStays ==
  ASSUME TypeOK, TypeOK', transactions \subseteq TransactionRow, transactions' \subseteq TransactionRow,
         since \subseteq expenses \cup settlements \cup transactions, UNCHANGED since,
         expenses \subseteq expenses', settlements \subseteq settlements', transactions \subseteq transactions'
  PROVE  /\ since \cap expenses' = since \cap expenses
         /\ since \cap settlements' = since \cap settlements
         /\ since \cap transactions' = since \cap transactions
  <1>1. /\ expenses \subseteq ExpenseRow /\ expenses' \subseteq ExpenseRow
        /\ settlements \subseteq TransferRow /\ settlements' \subseteq TransferRow
    BY DEF TypeOK
  <1>2. QED
    BY <1>1, RowsDiffer

(* No row is ever removed.                                                   *)
LEMMA LedgerGrows == ASSUME Typed, [Next]_vars PROVE expenses \subseteq expenses' /\ settlements \subseteq settlements'
  <1>1. ASSUME NEW r \in Reqs, Start(r) PROVE UNCHANGED <<expenses, settlements>>
    BY <1>1 DEF Start, db
  <1>2. ASSUME NEW r \in Reqs, Statement(r) \/ Abort(r)
        PROVE  expenses \subseteq expenses' /\ settlements \subseteq settlements'
    BY <1>2, StatementBooks DEF Books
  <1>3. CASE Rest \/ UNCHANGED vars
    BY <1>3 DEF Rest, vars
  <1>4. QED
    BY <1>1, <1>2, <1>3 DEF Next

(* While the report waits, requests record and transactions are stored.       *)
LEMMA TablesGrow ==
  ASSUME ReportInv, TypeOK, TypeOK', UNCHANGED <<report, since>>,
         transactions' \subseteq TransactionRow, IsFiniteSet(transactions'),
         expenses \subseteq expenses', settlements \subseteq settlements', transactions \subseteq transactions'
  PROVE  ReportInv'
  <1>1. /\ since \cap expenses' = since \cap expenses
        /\ since \cap settlements' = since \cap settlements
        /\ since \cap transactions' = since \cap transactions
    BY SinceStays DEF ReportInv, ReportTyped
  <1>2. ReportTyped'
    BY DEF ReportInv, ReportTyped, Asking
  <1>3. Quoted'
    BY DEF ReportInv, Quoted
  <1>4. Covered'
    BY <1>1 DEF ReportInv, Covered, Listed
  <1>5. Fetched'
    <2>1. Due(expenses)' = Due(expenses) /\ Due(settlements)' = Due(settlements)
      BY <1>1 DEF Due
    <2>2. QED
      BY <1>1, <2>1 DEF ReportInv, Fetched
  <1>6. QED
    BY <1>2, <1>3, <1>4, <1>5 DEF ReportInv

LEMMA TransactionSaved ==
  ASSUME Typed, ReportInv, NEW r \in Reqs, SaveTransaction(r)
  PROVE  ReportInv'
  <1>1. PICK t : t \in TransactionRow /\ transactions' = transactions \cup {t}
    <2>1. req[r].amount \in Int /\ req[r].user \in Users
      BY DEF SaveTransaction, UsersOf, Typed, TypeOK, Request, MemberRow
    <2>2. \A a \in {Abs(req[r].amount), -Abs(req[r].amount)} : [id |-> r, user |-> req[r].user, amount |-> a] \in TransactionRow
      BY <2>1 DEF Abs, TransactionRow
    <2>3. QED
      BY <2>2 DEF SaveTransaction
  <1>2. IsFiniteSet(transactions') /\ transactions' \subseteq TransactionRow
    BY <1>1, FS_AddElement DEF ReportInv, ReportTyped
  <1>3. TypeOK /\ UNCHANGED vars /\ UNCHANGED <<report, since>>
    BY DEF SaveTransaction, Typed
  <1>4. TypeOK' /\ UNCHANGED <<expenses, settlements>>
    BY <1>3 DEF vars, TypeOK
  <1>5. QED
    BY <1>1, <1>2, <1>3, <1>4, TablesGrow

(* The report is asked for: nothing is loaded yet.                           *)
LEMMA AskedNext == ASSUME Typed, ReportInv, AskReport PROVE ReportInv'
  <1>1. /\ UNCHANGED vars /\ UNCHANGED transactions /\ since' = expenses \cup settlements \cup transactions
        /\ UNCHANGED <<expenses, settlements>>
    BY DEF AskReport, vars
  <1>2. /\ report' \in Answer
        /\ \/ report'.kind = "group" /\ report'.pc = "findGroup"
           \/ report'.kind = "user" /\ report'.pc = "findUser"
        /\ report'.expenses = {} /\ report'.transfers = {} /\ report'.transactions = {}
    <2>1. NoReport \in Answer
      BY DEF NoReport, Answer
    <2>2. PICK k \in {"group", "user"}, u \in Users, b \in BOOLEAN :
            report' = [NoReport EXCEPT !.kind = k, !.user = IF k = "group" THEN NoUser ELSE u, !.open = b,
                                       !.pc = IF k = "group" THEN "findGroup" ELSE "findUser"]
      BY DEF AskReport
    <2>3. PICK asked, first, who :
            /\ report' = [NoReport EXCEPT !.kind = asked, !.user = who, !.open = b, !.pc = first]
            /\ <<asked, first>> \in {<<"group", "findGroup">>, <<"user", "findUser">>}
            /\ who \in Users \cup {NoUser}
      BY <2>2
    <2>4. /\ report'.kind = asked /\ report'.pc = first
          /\ report'.expenses = {} /\ report'.transfers = {} /\ report'.transactions = {}
      BY <2>3 DEF NoReport
    <2>5. report' \in Answer
      BY <2>1, <2>3 DEF Answer, Queries
    <2>6. QED
      BY <2>3, <2>4, <2>5
  <1>3. ReportTyped'
    BY <1>1, <1>2 DEF ReportInv, ReportTyped, Asking
  <1>4. Quoted'
    BY <1>2 DEF Quoted
  <1>5. Covered' /\ Fetched'
    BY <1>2 DEF Covered, Fetched
  <1>6. QED
    BY <1>3, <1>4, <1>5 DEF ReportInv

(* The group or the user is found, with the end of the period.                *)
LEMMA FoundNext == ASSUME Typed, Records, ReportInv, FindSubject PROVE ReportInv'
  <1>1. /\ UNCHANGED vars /\ UNCHANGED <<transactions, since, expenses, settlements>>
        /\ report \in Answer
    BY DEF FindSubject, vars, ReportInv, ReportTyped
  <1>2. /\ report'.kind = report.kind /\ report'.user = report.user
        /\ report'.expenses = report.expenses /\ report'.transfers = report.transfers
        /\ report'.transactions = report.transactions
        /\ report' \in Answer
        /\ \/ report'.pc = "refused"
           \/ /\ report'.cut = expenses \cup settlements \cup transactions
              /\ \/ report.kind = "group" /\ report'.pc = "expenses" /\ report'.members = members
                 \/ report.kind = "user" /\ report'.pc = "transactions"
    <2>1. CASE report' = [report EXCEPT !.pc = "refused"]
      BY <1>1, <2>1 DEF Answer
    <2>2. CASE report' = [report EXCEPT
             !.members = IF report.kind = "group" THEN members ELSE {},
             !.cut = expenses \cup settlements \cup transactions,
             !.pc = IF report.kind = "group" THEN "expenses" ELSE "transactions"]
      <3>1. /\ members \subseteq MemberRow /\ expenses \subseteq ExpenseRow /\ settlements \subseteq TransferRow
            /\ transactions \subseteq TransactionRow
        BY DEF Typed, TypeOK, ReportInv, ReportTyped
      <3>2. report.kind \in {"group", "user"}
        BY <1>1 DEF Answer
      <3>3. QED
        BY <1>1, <2>2, <3>1, <3>2 DEF Answer, Queries
    <2>3. QED
      BY <2>1, <2>2 DEF FindSubject
  <1>3. ReportTyped'
    BY <1>1, <1>2 DEF ReportInv, ReportTyped, Asking
  <1>4. Quoted'
    BY <1>1, <1>2 DEF ReportInv, Quoted
  <1>5. Covered'
    <2>1. \A x \in expenses : x.payer \in UsersOf(members)
      BY DEF Records, OnlyMembersRecord
    <2>2. since \subseteq expenses \cup settlements \cup transactions
      BY DEF ReportInv, ReportTyped
    <2>3. QED
      BY <1>1, <1>2, <2>1, <2>2 DEF Covered, Listed
  <1>6. Fetched'
    BY <1>2 DEF Fetched
  <1>7. QED
    BY <1>3, <1>4, <1>5, <1>6 DEF ReportInv

(* The queries of a report load what is due and belongs to it.                *)
LEMMA TransactionsNext == ASSUME Typed, ReportInv, LoadTransactions PROVE ReportInv'
  <1>1. /\ UNCHANGED vars /\ UNCHANGED <<transactions, since, expenses, settlements>>
        /\ report \in Answer /\ report.kind = "user" /\ transactions \subseteq TransactionRow
    BY DEF LoadTransactions, vars, ReportInv, ReportTyped, Asking
  <1> PICK rows : rows = {t \in transactions : t.user = report.user /\ Created(t)}
    OBVIOUS
  <1>2. rows \subseteq transactions /\ report' = [report EXCEPT !.transactions = rows, !.pc = "expenses"]
    BY DEF LoadTransactions, Load
  <1>3. /\ report' \in Answer /\ report'.pc = "expenses" /\ report'.transactions = rows
        /\ report'.kind = report.kind /\ report'.user = report.user /\ report'.cut = report.cut
        /\ report'.expenses = report.expenses /\ report'.transfers = report.transfers
    BY <1>1, <1>2 DEF Answer, Queries
  <1>4. since \subseteq report.cut
    BY DEF ReportInv, Covered, LoadTransactions
  <1>5. ReportTyped'
    BY <1>1, <1>3 DEF ReportInv, ReportTyped, Asking
  <1>6. Quoted'
    BY <1>1, <1>2, <1>3 DEF ReportInv, Quoted
  <1>7. Covered'
    BY <1>1, <1>3, <1>4 DEF Covered
  <1>8. Fetched'
    BY <1>1, <1>3, <1>4 DEF Fetched, Created
  <1>9. QED
    BY <1>5, <1>6, <1>7, <1>8 DEF ReportInv

LEMMA ExpensesNext == ASSUME Typed, ReportInv, LoadExpenses PROVE ReportInv'
  <1>1. /\ UNCHANGED vars /\ UNCHANGED <<transactions, since, expenses, settlements>>
        /\ report \in Answer /\ report.kind \in {"group", "user"} /\ expenses \subseteq ExpenseRow
        /\ report.pc = "expenses"
    BY DEF LoadExpenses, vars, ReportInv, ReportTyped, Typed, TypeOK, Answer
  <1>2. PICK rows \in SUBSET expenses, next \in {"settlements", "done"} :
          /\ report' = [report EXCEPT !.expenses = rows, !.pc = next]
          /\ report.kind = "group" => next = "settlements" /\ rows = {x \in expenses : Dated(x)}
          /\ report.kind = "user" => next = "done" /\ rows = {x \in expenses : x.payer = report.user /\ Dated(x)}
    <2>1. CASE report.kind = "group"
      BY <2>1 DEF LoadExpenses, Load
    <2>2. CASE report.kind = "user"
      BY <2>2 DEF LoadExpenses, Load
    <2>3. QED
      BY <1>1, <2>1, <2>2
  <1>3. /\ report' \in Answer /\ report'.pc = next /\ report'.expenses = rows
        /\ report'.kind = report.kind /\ report'.user = report.user /\ report'.cut = report.cut
        /\ report'.transactions = report.transactions /\ report'.transfers = report.transfers
        /\ report'.members = report.members
    BY <1>1, <1>2 DEF Answer, Queries
  <1>4. /\ since \subseteq report.cut
        /\ report.kind = "group" => \A x \in since \cap expenses : x.payer \in Listed
        /\ report.kind = "user" => {t \in since \cap transactions : t.user = report.user} \subseteq report.transactions
    BY <1>1 DEF ReportInv, Covered, Fetched
  <1>5. ReportTyped'
    BY <1>1, <1>2, <1>3 DEF ReportInv, ReportTyped, Asking
  <1>6. Quoted'
    <2>1. \A x \in rows : x.id \notin Early
      BY <1>1, <1>2 DEF Dated
    <2>2. QED
      BY <1>1, <1>2, <1>3, <2>1 DEF ReportInv, Quoted
  <1>7. Covered'
    BY <1>1, <1>3, <1>4 DEF Covered, Listed
  <1>8. Fetched'
    BY <1>1, <1>2, <1>3, <1>4 DEF Fetched, Due, Dated, Created
  <1>9. QED
    BY <1>5, <1>6, <1>7, <1>8 DEF ReportInv

LEMMA SettlementsNext == ASSUME Typed, ReportInv, LoadSettlements PROVE ReportInv'
  <1>1. /\ UNCHANGED vars /\ UNCHANGED <<transactions, since, expenses, settlements>>
        /\ report \in Answer /\ report.kind = "group" /\ settlements \subseteq TransferRow
        /\ report.pc = "settlements"
    BY DEF LoadSettlements, vars, ReportInv, ReportTyped, Asking, Typed, TypeOK
  <1> PICK rows : rows = {x \in settlements : Dated(x)}
    OBVIOUS
  <1>2. rows \subseteq settlements /\ report' = [report EXCEPT !.transfers = rows, !.pc = "done"]
    BY DEF LoadSettlements, Load
  <1>3. /\ report' \in Answer /\ report'.pc = "done" /\ report'.transfers = rows
        /\ report'.kind = report.kind /\ report'.user = report.user /\ report'.cut = report.cut
        /\ report'.transactions = report.transactions /\ report'.expenses = report.expenses
        /\ report'.members = report.members
    BY <1>1, <1>2 DEF Answer, Queries
  <1>4. /\ since \subseteq report.cut
        /\ \A x \in since \cap expenses : x.payer \in Listed
        /\ Due(expenses) \subseteq report.expenses
    BY <1>1 DEF ReportInv, Covered, Fetched
  <1>5. ReportTyped'
    BY <1>1, <1>2, <1>3 DEF ReportInv, ReportTyped, Asking
  <1>6. Quoted'
    <2>1. \A x \in rows : x.id \notin Early
      BY <1>1 DEF Dated
    <2>2. QED
      BY <1>1, <1>2, <1>3, <2>1 DEF ReportInv, Quoted
  <1>7. Covered'
    BY <1>1, <1>3, <1>4 DEF Covered, Listed
  <1>8. Fetched'
    BY <1>1, <1>3, <1>4 DEF Fetched, Due, Dated, Created
  <1>9. QED
    BY <1>5, <1>6, <1>7, <1>8 DEF ReportInv

(* Reports and transactions leave the requests of the ledger as they are.     *)
LEMMA ReportsWatch == ReportSpec => Spec
  <1>1. ReportInit => Init
    BY DEF ReportInit
  <1>2. [ReportNext]_rvars => [Next]_vars
    BY DEF ReportNext, rvars, SaveTransaction, AskReport, FindSubject, LoadTransactions, LoadExpenses, LoadSettlements
  <1>3. QED
    BY <1>1, <1>2, PTL DEF ReportSpec, Spec

LEMMA InitReport == ReportInit => ReportInv
  <1> SUFFICES ASSUME ReportInit PROVE ReportInv
    OBVIOUS
  <1>1. report \in Answer
    BY DEF ReportInit, NoReport, Answer
  <1>2. ReportTyped
    BY <1>1, FS_EmptySet DEF ReportInit, NoReport, ReportTyped, Asking
  <1>3. QED
    BY <1>2 DEF ReportInit, NoReport, ReportInv, Quoted, Covered, Fetched

LEMMA StepReport == Typed /\ Typed' /\ Records /\ ReportInv /\ [ReportNext]_rvars => ReportInv'
  <1> SUFFICES ASSUME Typed, Typed', Records, ReportInv, [ReportNext]_rvars PROVE ReportInv'
    OBVIOUS
  <1>1. CASE [Next]_vars /\ UNCHANGED <<transactions, report, since>>
    <2>1. expenses \subseteq expenses' /\ settlements \subseteq settlements'
      BY <1>1, LedgerGrows
    <2>2. /\ UNCHANGED <<report, since>> /\ transactions \subseteq transactions'
          /\ transactions' \subseteq TransactionRow /\ IsFiniteSet(transactions')
      BY <1>1 DEF ReportInv, ReportTyped
    <2>3. TypeOK /\ TypeOK'
      BY DEF Typed
    <2>4. QED
      BY <2>1, <2>2, <2>3, TablesGrow
  <1>2. ASSUME NEW r \in Reqs, SaveTransaction(r) PROVE ReportInv'
    BY <1>2, TransactionSaved
  <1>3. CASE AskReport \/ FindSubject
    BY <1>3, AskedNext, FoundNext
  <1>4. CASE LoadTransactions \/ LoadExpenses \/ LoadSettlements
    BY <1>4, TransactionsNext, ExpensesNext, SettlementsNext
  <1>5. QED
    BY <1>1, <1>2, <1>3, <1>4 DEF ReportNext, rvars

LEMMA AlwaysReport == ReportSpec => [](Typed /\ Tables /\ ReportInv)
  <1>1. Base => Typed
    BY DEF Base
  <1>2. QED
    BY <1>1, InitReport, StepReport, ReportsWatch, AlwaysRecords, AlwaysTables, PTL DEF ReportSpec

(* The magnitudes of some rows of a table.                                   *)
LEMMA MagnitudesOf ==
  ASSUME NEW rows \in SUBSET ExpenseRow, IsFiniteSet(rows), NEW own \in SUBSET rows, NEW f \in [rows -> Int],
         \A x \in rows : f[x] = IF x \in own THEN Abs(x.amount) ELSE 0
  PROVE  SumFunction(Magnitudes(own)) = SumFunction(f)
  <1>1. Magnitudes(own) \in [own -> Int]
    BY DEF Magnitudes, ExpenseRow, Abs
  <1>2. PICK g \in [own -> Int] : g = Magnitudes(own)
    BY <1>1
  <1>3. \A x \in own : g[x] = f[x]
    BY <1>2 DEF Magnitudes
  <1>4. \A x \in rows \ own : f[x] = 0
    OBVIOUS
  <1>5. SumFunction(f) = SumFunction(g)
    BY <1>3, <1>4, SumSupport
  <1>6. QED
    BY <1>2, <1>5

(* What each of some users has paid adds up to the expenses they paid.        *)
LEMMA PaidAddsUp ==
  ASSUME NEW rows \in SUBSET ExpenseRow, IsFiniteSet(rows), NEW who \in SUBSET Users,
         \A x \in rows : x.payer \in who
  PROVE  SumFunction(Magnitudes(rows)) =
           SumFunction([u \in who |-> SumFunction(Magnitudes({x \in rows : x.payer = u}))])
  <1>1. IsFiniteSet(who) /\ \A x \in rows : Abs(x.amount) \in Int
    BY UsersAssumption, FS_Subset DEF ExpenseRow, Abs
  <1>2. PICK share \in [rows -> [who -> Int]] :
          \A x \in rows, u \in who : share[x][u] = IF x.payer = u THEN Abs(x.amount) ELSE 0
    <2>1. [x \in rows |-> [u \in who |-> IF x.payer = u THEN Abs(x.amount) ELSE 0]] \in [rows -> [who -> Int]]
      BY <1>1
    <2>2. QED
      BY <2>1
  <1>3. SumFunction([x \in rows |-> SumFunction(share[x])]) =
          SumFunction([u \in who |-> SumFunction([x \in rows |-> share[x][u]])])
    BY <1>1, SumSwap
  <1>4. ASSUME NEW x \in rows PROVE SumFunction(share[x]) = Abs(x.amount)
    <2>1. PICK f \in [who -> Int] : f = share[x]
      OBVIOUS
    <2>2. PICK v \in who : v = x.payer
      OBVIOUS
    <2>3. \A u \in who \ {v} : f[u] = 0
      BY <1>2, <2>1, <2>2
    <2>4. SumFunction(f) = f[v]
      BY <1>1, <2>3, SumOne
    <2>5. QED
      BY <1>2, <2>1, <2>2, <2>4
  <1>5. ASSUME NEW u \in who
        PROVE  SumFunction([x \in rows |-> share[x][u]]) = SumFunction(Magnitudes({x \in rows : x.payer = u}))
    <2>1. PICK f \in [rows -> Int] : f = [x \in rows |-> share[x][u]]
      OBVIOUS
    <2>2. PICK own \in SUBSET rows : own = {x \in rows : x.payer = u}
      OBVIOUS
    <2>3. \A x \in rows : f[x] = IF x \in own THEN Abs(x.amount) ELSE 0
      BY <1>2, <2>1, <2>2
    <2>4. SumFunction(Magnitudes(own)) = SumFunction(f)
      BY <2>3, MagnitudesOf
    <2>5. QED
      BY <2>1, <2>2, <2>4
  <1>6. Magnitudes(rows) = [x \in rows |-> SumFunction(share[x])]
    BY <1>4 DEF Magnitudes
  <1>7. [u \in who |-> SumFunction([x \in rows |-> share[x][u]])] =
          [u \in who |-> SumFunction(Magnitudes({x \in rows : x.payer = u}))]
    BY <1>5
  <1>8. QED
    BY <1>3, <1>6, <1>7

(* A report counts every row that was there when it was asked for and belongs *)
(* to its period, and none dated outside of it, though it reads one table    *)
(* after the other while requests record; and unless an expense is newer     *)
(* than the report, its total is what the members it lists have paid.        *)
THEOREM ReportsMissNothing == ReportSpec => []ReportIsComplete
  <1>1. Typed /\ Tables /\ ReportInv => ReportIsComplete
    <2> SUFFICES ASSUME Typed, Tables, ReportInv PROVE ReportIsComplete
      OBVIOUS
    <2>1. ASSUME Answered("group")
          PROVE  /\ Due(expenses) \subseteq report.expenses /\ Due(settlements) \subseteq report.transfers
                 /\ \A x \in Due(expenses) : x.payer \in Listed
      BY <2>1 DEF Answered, ReportInv, Fetched, Covered, Due
    <2>2. ASSUME Answered("user")
          PROVE  /\ {x \in Due(expenses) : x.payer = report.user} \subseteq report.expenses
                 /\ {t \in since \cap transactions : t.user = report.user} \subseteq report.transactions
      BY <2>2 DEF Answered, ReportInv, Fetched
    <2>3. \A x \in report.expenses \cup report.transfers : x.id \notin Early
      BY DEF ReportInv, Quoted
    <2>4. ASSUME Answered("group"), report.expenses \subseteq since
          PROVE  TotalSpent = SumFunction([u \in Listed |-> Paid(u)])
      <3>1. PICK rows \in SUBSET ExpenseRow : rows = report.expenses /\ IsFiniteSet(rows)
        BY FS_Subset DEF Typed, TypeOK, Tables, ReportInv, Quoted
      <3>2. \A x \in rows : x.payer \in Listed
        BY <2>1, <2>4, <3>1 DEF ReportInv, Quoted, Due
      <3>3. PICK who \in SUBSET Users : who = Listed
        <4>1. report.members \subseteq MemberRow
          BY DEF ReportInv, ReportTyped, Answer
        <4>2. UsersOf(report.members) \subseteq Users
          BY <4>1 DEF UsersOf, MemberRow
        <4>3. QED
          BY <4>2 DEF Listed
      <3>4. SumFunction(Magnitudes(rows)) =
              SumFunction([u \in who |-> SumFunction(Magnitudes({x \in rows : x.payer = u}))])
        BY <3>1, <3>2, <3>3, PaidAddsUp
      <3>5. [u \in Listed |-> Paid(u)] = [u \in who |-> SumFunction(Magnitudes({x \in rows : x.payer = u}))]
        BY <3>1, <3>3 DEF Paid
      <3>6. SumFunction(Magnitudes(report.transactions)) = 0
        <4>1. report.transactions = {}
          BY <2>4 DEF Answered, ReportInv, Quoted
        <4>2. Magnitudes({}) \in [{} -> Int]
          BY DEF Magnitudes
        <4>3. QED
          BY <4>1, <4>2, SumEmpty
      <3>7. SumFunction(Magnitudes(rows)) \in Int
        <4>1. Magnitudes(rows) \in [rows -> Int]
          BY DEF Magnitudes, ExpenseRow, Abs
        <4>2. QED
          BY <3>1, <4>1, SumType
      <3>8. SumFunction(Magnitudes(rows)) = SumFunction([u \in Listed |-> Paid(u)])
        BY <3>4, <3>5
      <3>9. TotalSpent = SumFunction(Magnitudes(rows))
        BY <3>1, <3>6, <3>7 DEF TotalSpent
      <3>10. QED
        BY <3>8, <3>9
    <2>5. QED
      BY <2>1, <2>2, <2>3, <2>4 DEF ReportIsComplete, Due
  <1>2. QED
    BY <1>1, AlwaysReport, PTL

(* Paid less owed is what getDebts computes from the same expenses.           *)
LEMMA PaidLessOwed ==
  ASSUME NEW rows \in SUBSET ExpenseRow, IsFiniteSet(rows), NEW u \in Users,
         NothingNegative(rows)
  PROVE  SumFunction(Magnitudes({x \in rows : x.payer = u}))
           - SumFunction([x \in rows |-> x.charged[u] + x.credited[u]]) = NetBalances(rows, {})[u]
  <1>1. ASSUME NEW x \in rows
        PROVE  /\ x.amount \in Int /\ x.amount >= 0
               /\ Owes(x)[u] \in Int /\ x.charged[u] + x.credited[u] = Owes(x)[u]
    <2>1. x.amount \in Int /\ x.charged[u] \in Nat /\ x.credited[u] = 0 /\ x.amount >= 0
      BY DEF ExpenseRow, NothingNegative
    <2>2. QED
      BY <2>1 DEF Owes
  <1>2. PICK paid \in [rows -> Int] : \A x \in rows : paid[x] = IF x.payer = u THEN x.amount ELSE 0
    <2>1. [x \in rows |-> IF x.payer = u THEN x.amount ELSE 0] \in [rows -> Int]
      BY <1>1
    <2>2. QED
      BY <2>1
  <1>3. PICK owes \in [rows -> Int] : /\ owes = [x \in rows |-> x.charged[u] + x.credited[u]]
                                      /\ \A x \in rows : owes[x] = Owes(x)[u]
    <2>1. /\ [x \in rows |-> x.charged[u] + x.credited[u]] \in [rows -> Int]
          /\ \A x \in rows : [y \in rows |-> y.charged[u] + y.credited[u]][x] = Owes(x)[u]
      BY <1>1
    <2>2. QED
      BY <2>1
  <1>4. PICK net \in [rows -> Int] :
          /\ net = [x \in rows |-> (IF x.payer = u THEN x.amount ELSE 0) - Owes(x)[u]]
          /\ \A x \in rows : paid[x] = net[x] + owes[x]
    <2>1. PICK f : f = [x \in rows |-> (IF x.payer = u THEN x.amount ELSE 0) - Owes(x)[u]]
      OBVIOUS
    <2>2. f \in [rows -> Int] /\ \A x \in rows : paid[x] = f[x] + owes[x]
      BY <1>1, <1>2, <1>3, <2>1
    <2>3. QED
      BY <2>1, <2>2
  <1>5. SumFunction(paid) = SumFunction(net) + SumFunction(owes)
    BY <1>4, SumPlus
  <1>6. SumFunction(net) \in Int /\ SumFunction(owes) \in Int
    BY SumType
  <1>7. SumFunction(Magnitudes({x \in rows : x.payer = u})) = SumFunction(paid)
    <2>1. PICK own \in SUBSET rows : own = {x \in rows : x.payer = u}
      OBVIOUS
    <2>2. \A x \in rows : paid[x] = IF x \in own THEN Abs(x.amount) ELSE 0
      BY <1>1, <1>2, <2>1 DEF Abs
    <2>3. SumFunction(Magnitudes(own)) = SumFunction(paid)
      BY <2>2, MagnitudesOf
    <2>4. QED
      BY <2>1, <2>3
  <1>8. NetBalances(rows, {})[u] = SumFunction(net)
    <2>1. PICK none : none = [x \in {} |-> (IF x.from = u THEN x.amount ELSE 0) - (IF x.to = u THEN x.amount ELSE 0)]
      OBVIOUS
    <2>2. SumFunction(none) = 0
      <3>1. none \in [{} -> Int]
        BY <2>1
      <3>2. QED
        BY <3>1, SumEmpty
    <2>3. NetBalances(rows, {})[u] = SumFunction(net) + SumFunction(none)
      BY <1>4, <2>1 DEF NetBalances
    <2>4. QED
      BY <1>6, <2>2, <2>3
  <1>9. QED
    BY <1>3, <1>5, <1>6, <1>7, <1>8

(* The balances of a report, paid less owed, are those getDebts computes from *)
(* the same expenses before any settlement, however the splits divide them,   *)
(* unless an amount or a split is negative, which the report counts by its    *)
(* magnitude.                                                                *)
THEOREM ReportsAgreeWithDebts == ReportSpec => []ReportAgreesWithDebts
  <1>1. Typed /\ Tables /\ ReportInv => ReportAgreesWithDebts
    <2> SUFFICES ASSUME Typed, Tables, ReportInv, NothingNegative(report.expenses), NEW u \in Listed
                 PROVE  Balance[u] = NetBalances(report.expenses, {})[u]
      BY DEF ReportAgreesWithDebts
    <2>1. PICK rows \in SUBSET ExpenseRow : rows = report.expenses /\ IsFiniteSet(rows)
      BY FS_Subset DEF Typed, TypeOK, Tables, ReportInv, Quoted
    <2>2. u \in Users
      <3>1. report.members \subseteq MemberRow
        BY DEF ReportInv, ReportTyped, Answer
      <3>2. QED
        BY <3>1 DEF Listed, UsersOf, MemberRow
    <2>3. SumFunction(Magnitudes({x \in rows : x.payer = u}))
            - SumFunction([x \in rows |-> x.charged[u] + x.credited[u]]) = NetBalances(rows, {})[u]
      BY <2>1, <2>2, PaidLessOwed
    <2>4. Balance[u] = Paid(u) - Owed(u)
      BY DEF Balance
    <2>5. Paid(u) = SumFunction(Magnitudes({x \in rows : x.payer = u}))
      BY <2>1 DEF Paid
    <2>6. Owed(u) = SumFunction([x \in rows |-> x.charged[u] + x.credited[u]])
      BY <2>1 DEF Owed
    <2>7. QED
      BY <2>1, <2>3, <2>4, <2>5, <2>6
  <1>2. QED
    BY <1>1, AlwaysReport, ReportsWatch, PTL
=============================================================================
