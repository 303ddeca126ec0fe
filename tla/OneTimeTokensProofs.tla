------------------------ MODULE OneTimeTokensProofs -------------------------
(***************************************************************************)
(* Theorems about OneTimeTokens, for any number of users and requests, any *)
(* life of a ticket and any bounds: it implements OneTimeTicket, a second  *)
(* ticket of a user is open only by a race, and nobody is refused without  *)
(* a cause.                                                                *)
(*                                                                         *)
(* The inductive invariant says who may hold a ticket: a request has       *)
(* stored none before its insert, and one that accepted a ticket is at the *)
(* statements that close it, or has closed it for good.  SInv adds the     *)
(* order of the requests, CInv what keeps a ticket open.                   *)
(***************************************************************************)
EXTENDS OneTimeTokens, TLAPS

Fresh == {"idle", "findUser", "findCodes", "deactivate", "erase", "insert", "findCode", "findLink"}

(* A request has stored its ticket only after it passed its insert.           *)
Storing ==
  \A r \in Reqs : /\ pc[r] \in Fresh => r \notin issued
                  /\ pc[r] = "mail" => r \in issued

(* The statements a request may be at when it has accepted a ticket.          *)
Accepting == {"markVerified", "markInactive", "markUsed", "log", "getUser", "granted", "failed"}

(* Only codes are marked by the statements for codes, and only links by those *)
(* for links.                                                                *)
Accepted ==
  \A r \in Reqs :
    /\ seen[r] # NoTicket => pc[r] \in Accepting
    /\ pc[r] \in {"markVerified", "markInactive"} => seen[r] \in Codes
    /\ pc[r] = "markUsed" => seen[r] \in issued \ Codes
    /\ pc[r] \in {"getUser", "granted"} => seen[r] # NoTicket
    /\ seen[r] # NoTicket => seen[r] \in issued

Open == active \cup (links \ used)

(* When the marks are set the ticket is closed, and stays so.                 *)
Closed ==
  \A r \in Reqs : (pc[r] \in {"log", "getUser", "granted"} /\ seen[r] # NoTicket) => seen[r] \notin Open

IInv == TypeOK /\ Storing /\ Accepted /\ Closed

LEMMA InitHolds == Init => IInv
  BY TokensAssumption DEF Init, IInv, TypeOK, Storing, Accepted, Closed, Open, Codes, Reqs, NoTicket,
     Blank, Steps, AllKinds

RequestShape == [kind : AllKinds \cup {"none"}, user : Users \cup {NoUser}, item : Reqs \cup {NoTicket}]

(* What a client can send.                                                   *)
LEMMA RequestTypes == ASSUME sent \subseteq Reqs, NEW k \in AllKinds PROVE Requests(k) \subseteq RequestShape
  <1>1. CASE k \in {"askCode", "askLink"}
    <2>1. Requests(k) = {[Blank EXCEPT !.kind = k, !.user = u] : u \in Users \cup {NoUser}}
      <3>1. Requests("askCode") = {[Blank EXCEPT !.kind = "askCode", !.user = u] : u \in Users \cup {NoUser}}
        BY DEF Requests
      <3>2. Requests("askLink") = {[Blank EXCEPT !.kind = "askLink", !.user = u] : u \in Users \cup {NoUser}}
        BY DEF Requests
      <3>3. QED
        BY <1>1, <3>1, <3>2
    <2>2. \A u \in Users \cup {NoUser} : [Blank EXCEPT !.kind = k, !.user = u] \in RequestShape
      BY <1>1 DEF RequestShape, Blank, AllKinds
    <2>3. QED
      BY <2>1, <2>2, Zenon
  <1>2. CASE k = "checkCode"
    <2> DEFINE Code(u, t) == [Blank EXCEPT !.kind = "checkCode", !.user = u, !.item = t]
    <2>1. Requests("checkCode") = {Code(u, t) : u \in Users, t \in sent \cup {NoTicket}}
      BY DEF Requests
    <2>2. \A u \in Users : \A t \in sent \cup {NoTicket} : Code(u, t) \in RequestShape
      BY DEF RequestShape, Blank, AllKinds
    <2> HIDE DEF Code
    <2>3. Requests("checkCode") \subseteq RequestShape
      BY <2>1, <2>2
    <2>4. QED
      BY <1>2, <2>3
  <1>3. CASE k = "checkLink"
    <2>1. Requests("checkLink") = {[Blank EXCEPT !.kind = "checkLink", !.item = t] : t \in sent \cup {NoTicket}}
      BY DEF Requests
    <2>2. \A t \in sent \cup {NoTicket} : [Blank EXCEPT !.kind = "checkLink", !.item = t] \in RequestShape
      BY DEF RequestShape, Blank, AllKinds
    <2>3. QED
      BY <1>3, <2>1, <2>2, Zenon
  <1>4. QED
    BY <1>1, <1>2, <1>3 DEF AllKinds

(* The requests keep their kinds once they have stored a ticket.              *)
LEMMA StartHolds == ASSUME IInv, NEW r \in Reqs, Start(r) PROVE IInv'
  <1> PICK k \in Kinds : \E q \in Requests(k) : req' = [req EXCEPT ![r] = q]
    BY DEF Start
  <1> PICK q \in Requests(k) : req' = [req EXCEPT ![r] = q]
    OBVIOUS
  <1>1. sent \subseteq Reqs
    BY DEF IInv, TypeOK
  <1>2. q \in RequestShape
    BY <1>1, TokensAssumption, RequestTypes
  <1>3. /\ pc[r] = "idle"
        /\ \E s \in {"findLink", "findUser"} : pc' = [pc EXCEPT ![r] = s]
        /\ UNCHANGED <<now, active, verified, links, used, expires, sent, queue, seen, errors, issued>>
        /\ before' \in [Reqs -> SUBSET Reqs]
    BY DEF Start, db, Goto, IInv, TypeOK
  <1>4. r \notin issued /\ seen[r] = NoTicket
    BY <1>3 DEF IInv, Storing, Accepted, Fresh, Accepting
  <1>5. Codes' = Codes
    BY <1>3, <1>4 DEF Codes, IInv, TypeOK
  <1>6. TypeOK'
    <2>1. req' \in [Reqs -> RequestShape]
      BY <1>2 DEF IInv, TypeOK, RequestShape
    <2>2. pc' \in [Reqs -> Steps]
      BY <1>3 DEF IInv, TypeOK, Steps
    <2>3. QED
      BY <1>3, <1>5, <2>1, <2>2 DEF IInv, TypeOK, RequestShape
  <1>7. Storing' /\ Accepted' /\ Closed'
    BY <1>3, <1>4, <1>5 DEF IInv, TypeOK, Storing, Accepted, Closed, Open, Fresh, Accepting
  <1>8. QED
    BY <1>6, <1>7 DEF IInv

(* Every other statement of a request leaves what the requests ask for alone. *)
Other(r) ==
  \/ Fail(r) \/ FindUser(r) \/ FindCodes(r) \/ Deactivate(r) \/ Erase(r) \/ Insert(r) \/ SendMail(r)
  \/ FindCode(r) \/ Retire(r) \/ MarkVerified(r) \/ MarkInactive(r) \/ FindLink(r) \/ MarkUsed(r)
  \/ Log(r) \/ Refuse(r) \/ GetUser(r)

LEMMA StatementTypes == ASSUME IInv, NEW r \in Reqs, Other(r) PROVE TypeOK'
  <1> USE DEF IInv, TypeOK, Codes, db, Goto, Steps, Ended, NoTicket
  <1>1. CASE Fail(r)
    <2>1. pc' \in [Reqs -> Steps] /\ errors' \in 0..MaxErrors
      BY <1>1, TokensAssumption DEF Fail
    <2>2. sent' \subseteq issued
      BY <1>1 DEF Fail, Storing
    <2>3. QED
      BY <1>1, <2>1, <2>2 DEF Fail
  <1>2. CASE FindUser(r) BY <1>2, TokensAssumption DEF FindUser
  <1>3. CASE FindCodes(r) BY <1>3 DEF FindCodes, CodesOf
  <1>4. CASE Deactivate(r) BY <1>4 DEF Deactivate
  <1>5. CASE Erase(r) BY <1>5 DEF Erase
  <1>6. CASE Insert(r) BY <1>6 DEF Insert
  <1>7. CASE SendMail(r) BY <1>7 DEF SendMail, Storing
  <1>8. CASE FindCode(r) BY <1>8 DEF FindCode, ActiveCodes, CodesOf
  <1>9. CASE Retire(r) BY <1>9 DEF Retire
  <1>10. CASE MarkVerified(r) BY <1>10 DEF MarkVerified, Accepted
  <1>11. CASE MarkInactive(r) BY <1>11 DEF MarkInactive
  <1>12. CASE FindLink(r) BY <1>12 DEF FindLink
  <1>13. CASE MarkUsed(r) BY <1>13 DEF MarkUsed
  <1>14. CASE Log(r) \/ Refuse(r) \/ GetUser(r) BY <1>14 DEF Log, Refuse, GetUser
  <1>15. QED
    BY <1>1, <1>2, <1>3, <1>4, <1>5, <1>6, <1>7, <1>8, <1>9, <1>10, <1>11, <1>12, <1>13, <1>14 DEF Other

LEMMA StatementHolds == ASSUME IInv, NEW r \in Reqs, Other(r) PROVE Storing' /\ Accepted' /\ Closed'
  <1> USE DEF IInv, TypeOK, Codes, db, Goto, Fresh, Storing, Accepted, Accepting, Closed, Open, NoTicket, Reqs
  <1>1. CASE Fail(r) BY <1>1 DEF Fail, InFlight, Ended
  <1>2. CASE FindUser(r)
    <2>1. /\ pc[r] = "findUser"
          /\ \E s \in {"refused", "findCode", "findCodes", "erase"} : pc' = [pc EXCEPT ![r] = s]
          /\ UNCHANGED <<seen, issued, req, active, links, used>>
      BY <1>2 DEF FindUser
    <2>2. QED
      BY <2>1
  <1>3. CASE FindCodes(r) BY <1>3 DEF FindCodes
  <1>4. CASE Deactivate(r) BY <1>4 DEF Deactivate
  <1>5. CASE Erase(r) BY <1>5 DEF Erase
  <1>6. CASE Insert(r) BY <1>6 DEF Insert
  <1>7. CASE SendMail(r) BY <1>7 DEF SendMail
  <1>8. CASE FindCode(r)
    <2>1. /\ pc[r] = "findCode"
          /\ \/ /\ \E s \in {"refuse", "retire"} : pc' = [pc EXCEPT ![r] = s]
                /\ seen' = seen
             \/ /\ pc' = [pc EXCEPT ![r] = "markVerified"]
                /\ \E t \in active : seen' = [seen EXCEPT ![r] = t]
          /\ UNCHANGED <<issued, req, active, links, used>>
      BY <1>8 DEF FindCode, ActiveCodes, CodesOf
    <2>2. CASE seen' = seen /\ \E s \in {"refuse", "retire", "refused"} : pc' = [pc EXCEPT ![r] = s]
      BY <2>1, <2>2
    <2>3. CASE /\ pc' = [pc EXCEPT ![r] = "markVerified"]
               /\ \E t \in Codes : seen' = [seen EXCEPT ![r] = t]
      <3>1. PICK t \in Codes : seen' = [seen EXCEPT ![r] = t]
        BY <2>3
      <3>2. Storing' /\ Closed'
        BY <2>1, <2>3, <3>1
      <3>3. Accepted'
        BY <2>1, <2>3, <3>1
      <3>4. QED
        BY <3>2, <3>3
    <2>4. QED
      BY <2>1, <2>2, <2>3
  <1>9. CASE Retire(r) BY <1>9 DEF Retire
  <1>10. CASE MarkVerified(r) BY <1>10 DEF MarkVerified
  <1>11. CASE MarkInactive(r) BY <1>11 DEF MarkInactive
  <1>12. CASE FindLink(r)
    <2>1. /\ pc[r] = "findLink"
          /\ \/ /\ \E s \in {"refuse", "refused"} : pc' = [pc EXCEPT ![r] = s]
                /\ seen' = seen
             \/ /\ pc' = [pc EXCEPT ![r] = "markUsed"]
                /\ \E t \in links : seen' = [seen EXCEPT ![r] = t]
          /\ UNCHANGED <<issued, req, active, links, used>>
      BY <1>12 DEF FindLink
    <2>2. CASE seen' = seen /\ \E s \in {"refuse", "retire", "refused"} : pc' = [pc EXCEPT ![r] = s]
      BY <2>1, <2>2
    <2>3. CASE /\ pc' = [pc EXCEPT ![r] = "markUsed"]
               /\ \E t \in issued \ Codes : seen' = [seen EXCEPT ![r] = t]
      <3>1. PICK t \in issued \ Codes : seen' = [seen EXCEPT ![r] = t]
        BY <2>3
      <3>2. Storing' /\ Closed'
        BY <2>1, <2>3, <3>1
      <3>3. Accepted'
        BY <2>1, <2>3, <3>1
      <3>4. QED
        BY <3>2, <3>3
    <2>4. QED
      BY <2>1, <2>2, <2>3
  <1>13. CASE MarkUsed(r) BY <1>13 DEF MarkUsed
  <1>14. CASE Log(r) BY <1>14 DEF Log
  <1>15. CASE Refuse(r) BY <1>15 DEF Refuse
  <1>16. CASE GetUser(r) BY <1>16 DEF GetUser
  <1>17. QED
    BY <1>1, <1>2, <1>3, <1>4, <1>5, <1>6, <1>7, <1>8, <1>9, <1>10, <1>11, <1>12, <1>13, <1>14, <1>15, <1>16 DEF Other

LEMMA StepHolds == IInv /\ [Next]_vars => IInv'
  <1> SUFFICES ASSUME IInv, [Next]_vars PROVE IInv'
    OBVIOUS
  <1>1. ASSUME NEW r \in Reqs, Start(r) PROVE IInv'
    BY <1>1, StartHolds
  <1>2. ASSUME NEW r \in Reqs, Other(r) PROVE IInv'
    BY <1>2, StatementTypes, StatementHolds DEF IInv
  <1>3. CASE Tick
    BY <1>3, TokensAssumption DEF Tick, db, local, IInv, TypeOK, Codes, Storing, Accepted, Closed, Open
  <1>4. CASE Rest \/ UNCHANGED vars
    BY <1>4 DEF Rest, vars, IInv, TypeOK, Codes, Storing, Accepted, Closed, Open
  <1>5. QED
    BY <1>1, <1>2, <1>3, <1>4 DEF Next, Other, Ask, Check, Close

LEMMA Invariance == Spec => []IInv
  BY InitHolds, StepHolds, PTL DEF Spec

(* Rows keep the shape of the entities: what is mailed was stored before, a   *)
(* code that was verified was one, and a used link is still a row.            *)
THEOREM TypeCorrect == Spec => []TypeOK
  <1>1. IInv => TypeOK
    BY DEF IInv
  <1>2. QED
    BY Invariance, <1>1, PTL

(* The tickets that would be accepted now and the checks that were answered.  *)
Granted == {r \in Reqs : pc[r] = "granted"}

LEMMA Clock == IInv => now \in Nat /\ now <= now
  BY TokensAssumption DEF IInv, TypeOK

LEMMA Expiry == IInv => \A t \in Open : expires[t] \in Nat
  BY DEF Open, Codes, IInv, TypeOK

(* Time passes and rows are closed: nothing comes alive but at its insert.    *)
LEMMA OpenTickets == ASSUME IInv, now' \in Nat, now <= now', Open' \subseteq Open,
                            UNCHANGED <<expires, issued, seen>>, Granted' = Granted
                     PROVE Ticket!Close
  <1>1. Live' \subseteq Live
    BY Clock, Expiry DEF Live, Open
  <1>2. QED
    BY <1>1 DEF Ticket!Close, Granted

(* Each statement of a request is a step of OneTimeTicket, or none.          *)
LEMMA TicketStep == IInv /\ [Next]_vars => [Ticket!Next]_Ticket!vars
  <1> SUFFICES ASSUME IInv, Next PROVE Ticket!Next \/ UNCHANGED Ticket!vars
    BY DEF vars, Ticket!vars, Live
  <1>1. ASSUME NEW r \in Reqs, Start(r) PROVE Ticket!Next
    <2>1. /\ UNCHANGED <<now, active, links, used, expires, issued, seen>>
          /\ pc[r] = "idle" /\ \E s \in {"findLink", "findUser"} : pc' = [pc EXCEPT ![r] = s]
      BY <1>1 DEF Start, db, Goto
    <2>2. Granted' = Granted
      BY <2>1 DEF Granted, IInv, TypeOK
    <2>3. QED
      BY <2>1, <2>2, Clock, OpenTickets DEF Open, Ticket!Next
  <1>2. ASSUME NEW r \in Reqs, Other(r), ~FindUser(r), ~Insert(r), ~FindCode(r), ~FindLink(r), ~GetUser(r)
        PROVE Ticket!Next
    <2>1. Open' \subseteq Open /\ UNCHANGED <<now, expires, issued, seen>>
      BY <1>2 DEF Other, Fail, FindCodes, Deactivate, Erase, SendMail, Retire, MarkVerified,
                  MarkInactive, MarkUsed, Log, Refuse, db, Open
    <2>2. Granted' = Granted
      <3>1. /\ pc[r] # "granted" /\ \E s \in Steps \ {"granted"} : pc' = [pc EXCEPT ![r] = s]
        BY <1>2 DEF Other, Fail, FindCodes, Deactivate, Erase, SendMail, Retire, MarkVerified,
                    MarkInactive, MarkUsed, Log, Refuse, Goto, InFlight, Ended, Steps
      <3>2. QED
        BY <3>1 DEF Granted, IInv, TypeOK
    <2>3. QED
      BY <2>1, <2>2, Clock, OpenTickets DEF Ticket!Next
  <1>3. ASSUME NEW r \in Reqs, FindUser(r) PROVE UNCHANGED Ticket!vars
    <2>1. r \notin Open /\ \A t \in Open : t \in Reqs \ {r}
      BY <1>3 DEF FindUser, Storing, Fresh, Open, Codes, IInv, TypeOK
    <2>2. /\ UNCHANGED <<now, active, links, used, issued, seen>>
          /\ pc[r] = "findUser"
          /\ \E s \in {"refused", "findCode", "findCodes", "erase"} : pc' = [pc EXCEPT ![r] = s]
          /\ \A t \in Reqs \ {r} : expires'[t] = expires[t]
      BY <1>3 DEF FindUser, db, Goto, IInv, TypeOK
    <2>3. Live' = Live
      BY <2>1, <2>2 DEF Live, Open
    <2>4. Granted' = Granted
      BY <2>2 DEF Granted, IInv, TypeOK
    <2>5. QED
      BY <2>2, <2>3, <2>4 DEF Ticket!vars, Granted
  <1>4. ASSUME NEW r \in Reqs, Insert(r) PROVE Ticket!Issue(r)
    <2>1. r \notin issued
      BY <1>4 DEF Insert, IInv, Storing, Fresh
    <2>2. Open' = Open \cup {r} /\ UNCHANGED <<now, expires, seen>> /\ issued' = issued \cup {r}
      BY <1>4, <2>1 DEF Insert, Open, Codes, IInv, TypeOK
    <2>3. Live' \in {Live, Live \cup {r}}
      BY <2>2 DEF Live, Open
    <2>4. Granted' = Granted
      BY <1>4 DEF Insert, Goto, Granted, IInv, TypeOK
    <2>5. QED
      BY <2>1, <2>2, <2>3, <2>4 DEF Ticket!Issue, Granted
  <1>5. ASSUME NEW r \in Reqs, FindCode(r) \/ FindLink(r) PROVE Ticket!Next
    <2>1. /\ pc[r] \in {"findCode", "findLink"}
          /\ \E s \in Steps \ {"granted"} : pc' = [pc EXCEPT ![r] = s]
          /\ UNCHANGED <<now, active, links, used, expires, issued>>
      BY <1>5 DEF FindCode, FindLink, db, Goto, Steps, Ended
    <2>2. Granted' = Granted
      BY <2>1 DEF Granted, IInv, TypeOK
    <2>3. seen[r] = NoTicket
      BY <2>1 DEF IInv, Accepted, Accepting
    <2>4. CASE seen' = seen
      BY <2>1, <2>2, <2>4, Clock, OpenTickets DEF Open, Ticket!Next
    <2>5. CASE seen' # seen
      <3>1. PICK t \in Open : ~Late(t) /\ seen' = [seen EXCEPT ![r] = t]
        BY <1>5, <2>5 DEF FindCode, FindLink, ActiveCodes, CodesOf, Open
      <3>2. t \in Live
        BY <3>1, Clock, Expiry DEF Live, Open, Late
      <3>3. Ticket!Look(r)
        BY <2>1, <2>2, <2>3, <3>1, <3>2 DEF Ticket!Look, Live, Granted
      <3>4. QED
        BY <3>3 DEF Ticket!Next
    <2>6. QED
      BY <2>4, <2>5
  <1>6. ASSUME NEW r \in Reqs, GetUser(r) PROVE Ticket!Grant(r)
    <2>1. /\ UNCHANGED <<now, active, links, used, expires, issued, seen>>
          /\ pc[r] = "getUser" /\ pc' = [pc EXCEPT ![r] = "granted"]
      BY <1>6 DEF GetUser, db, Goto
    <2>2. seen[r] # NoTicket /\ seen[r] \notin Open
      BY <2>1 DEF IInv, Accepted, Closed
    <2>3. Granted' = Granted \cup {r}
      BY <2>1 DEF Granted, IInv, TypeOK
    <2>4. QED
      BY <2>1, <2>2, <2>3 DEF Ticket!Grant, Granted, Live, Open
  <1>7. CASE Tick
    <2>1. now' \in Nat /\ now <= now' /\ UNCHANGED <<active, links, used, expires, issued, seen, pc>>
      BY <1>7, Clock DEF Tick, db, local
    <2>2. QED
      BY <2>1, OpenTickets DEF Open, Granted, Ticket!Next
  <1>8. CASE Rest
    BY <1>8 DEF Rest, vars, Ticket!vars, Live
  <1>9. QED
    BY <1>1, <1>2, <1>3, <1>4, <1>5, <1>6, <1>7, <1>8 DEF Next, Other, Ask, Check, Close, Ticket!Next

(* Codes and links keep the promise of OneTimeTicket, and inherit what is     *)
(* proved of it: granted only for a ticket seen live and closed before the    *)
(* answer, whatever the requests that overlap.                               *)
THEOREM Refinement == Spec => ImplementsTicket
  <1>1. Init => Ticket!Init
    BY DEF Init, Ticket!Init, Live
  <1>2. QED
    BY Invariance, <1>1, TicketStep, PTL DEF Spec, ImplementsTicket, Ticket!Spec

(* The ticket of a request that signed somebody in would never be accepted    *)
(* again: a code or a link is closed before the answer leaves.               *)
THEOREM GrantedStaysDead == Spec => []Ticket!GrantedIsDead
  <1>1. IInv => Ticket!GrantedIsDead
    BY DEF IInv, Accepted, Closed, Ticket!GrantedIsDead, Live, Open
  <1>2. QED
    BY Invariance, <1>1, PTL

(* No request accepts a ticket after another one was signed in with it: two   *)
(* sign-ins with one code or link must overlap.                              *)
THEOREM OnlyOverlappingChecks == Spec => Ticket!NoLookAfterGrant
  <1> DEFINE Later == \A c, d \in Reqs :
                        (c \in Granted /\ seen[d] # seen[c]) => seen'[d] # seen[c]
  <1>1. IInv /\ [Next]_vars => [Later]_Ticket!vars
    <2> SUFFICES ASSUME IInv, Ticket!Next, NEW c \in Reqs, NEW d \in Reqs, c \in Granted, seen[d] # seen[c]
                 PROVE seen'[d] # seen[c]
      BY TicketStep
    <2>1. seen[c] \notin Live
      BY DEF IInv, Accepted, Closed, Live, Open, Granted
    <2>2. ASSUME NEW e \in Reqs, Ticket!Look(e) PROVE seen'[d] # seen[c]
      BY <2>1, <2>2 DEF Ticket!Look, IInv, TypeOK
    <2>3. ASSUME seen' = seen PROVE seen'[d] # seen[c]
      BY <2>3
    <2>4. QED
      BY <2>2, <2>3 DEF Ticket!Next, Ticket!Issue, Ticket!Close, Ticket!Grant
  <1>2. QED
    BY Invariance, <1>1, PTL DEF Spec, Ticket!NoLookAfterGrant, Granted

-----------------------------------------------------------------------------
(* Two open tickets *)

Rows == active \cup links
Same(s, t) == req[s].kind = req[t].kind /\ User(s) = User(t)

(* The statements that close the earlier tickets of a user run for requests   *)
(* of the right kind.                                                        *)
Asking ==
  \A t \in Reqs : /\ pc[t] \in {"findCodes", "deactivate"} => req[t].kind = "askCode"
                  /\ pc[t] = "erase" => req[t].kind # "askCode"

(* A ticket whose request had ended when another for the same user started is *)
(* closed before that one is stored: until then it waits in the queue.        *)
Superseding ==
  \A s, t \in Reqs : s \in before[t] =>
    /\ pc[s] \in Ended
    /\ (s \in Rows /\ Same(s, t)) =>
         /\ t \notin issued /\ pc[t] # "insert"
         /\ pc[t] = "deactivate" => s \in queue[t]

SInv == IInv /\ Asking /\ Superseding

LEMMA AskingHolds == ASSUME SInv, NEW r \in Reqs, Other(r) PROVE Asking'
  <1>1. req' = req
    BY DEF Other, Fail, FindUser, FindCodes, Deactivate, Erase, Insert, SendMail, FindCode, Retire,
           MarkVerified, MarkInactive, FindLink, MarkUsed, Log, Refuse, GetUser
  <1>2. Asking /\ pc \in [Reqs -> Steps]
    BY DEF SInv, IInv, TypeOK
  <1>3. CASE FindUser(r)
    <2>1. PICK s \in {"refused", "findCode", "findCodes", "erase"} :
            /\ pc' = [pc EXCEPT ![r] = s]
            /\ s = "findCodes" => req[r].kind = "askCode"
            /\ s = "erase" => req[r].kind # "askCode"
      BY <1>3 DEF FindUser, Goto
    <2>2. QED
      BY <1>1, <1>2, <2>1 DEF Asking
  <1>4. CASE FindCodes(r) \/ Deactivate(r)
    BY <1>1, <1>2, <1>4 DEF FindCodes, Deactivate, Goto, Asking
  <1>5. CASE ~FindUser(r) /\ ~FindCodes(r) /\ ~Deactivate(r)
    <2>1. PICK s \in Steps \ {"findCodes", "deactivate", "erase"} : pc' = [pc EXCEPT ![r] = s]
      BY <1>5 DEF Other, Fail, Erase, Insert, SendMail, FindCode, Retire, MarkVerified, MarkInactive,
                  FindLink, MarkUsed, Log, Refuse, GetUser, Goto, Steps, Ended
    <2>2. QED
      BY <1>1, <1>2, <2>1 DEF Asking
  <1>6. QED
    BY <1>3, <1>4, <1>5

LEMMA SupersedingHolds == ASSUME SInv, NEW r \in Reqs, Other(r) PROVE Superseding'
  <1> USE DEF SInv, IInv, TypeOK, Superseding, Goto, db, Same, User, Rows, Ended
  <1>0. req' = req /\ before' = before
    BY DEF Other, Fail, FindUser, FindCodes, Deactivate, Erase, Insert, SendMail, FindCode, Retire, MarkVerified,
           MarkInactive, FindLink, MarkUsed, Log, Refuse, GetUser
  <1>1. CASE Insert(r)
    BY <1>0, <1>1 DEF Insert
  <1>2. CASE FindCodes(r)
    BY <1>0, <1>2 DEF FindCodes, CodesOf, Asking, Codes
  <1>3. CASE Deactivate(r)
    <2>1. PICK u \in queue[r] : active' = active \ {u} /\ queue' = [queue EXCEPT ![r] = @ \ {u}]
      BY <1>3 DEF Deactivate
    <2>2. /\ pc[r] = "deactivate" /\ links' = links /\ issued' = issued
          /\ pc' = [pc EXCEPT ![r] = IF queue'[r] = {} THEN "insert" ELSE "deactivate"]
      BY <1>3 DEF Deactivate
    <2> SUFFICES ASSUME NEW s \in Reqs, NEW t \in Reqs, s \in before[t]
                 PROVE /\ pc'[s] \in Ended
                       /\ (s \in Rows' /\ Same(s, t)) =>
                            /\ t \notin issued /\ pc'[t] # "insert"
                            /\ pc'[t] = "deactivate" => s \in queue'[t]
      BY <1>0, <2>2
    <2>3. pc'[s] \in Ended /\ s # r
      BY <2>2
    <2>4. CASE t # r
      BY <2>1, <2>2, <2>3, <2>4
    <2>5. ASSUME t = r, s \in Rows', Same(s, t) PROVE s \in queue'[r]
      <3>1. s \in Rows /\ s \in queue[r]
        BY <2>1, <2>2, <2>5
      <3>2. req[s].kind = "askCode" /\ s \notin links
        BY <2>2, <2>5 DEF Asking, Codes
      <3>3. s # u
        BY <2>1, <2>2, <2>5, <3>2
      <3>4. QED
        BY <2>1, <3>1, <3>3
    <2>6. ASSUME t = r, s \in Rows', Same(s, t) PROVE pc'[r] = "deactivate" /\ r \notin issued
      BY <2>1, <2>2, <2>5, <2>6
    <2> HIDE DEF SInv, IInv, TypeOK, Superseding, Same, Rows, Ended
    <2>7. QED
      BY <2>3, <2>4, <2>5, <2>6
  <1>4. CASE Erase(r)
    BY <1>0, <1>4 DEF Erase, Erased, Asking, Codes
  <1>5. CASE Fail(r) \/ SendMail(r) \/ Retire(r)
    BY <1>0, <1>5 DEF Fail, SendMail, Retire, InFlight
  <1>6. CASE FindUser(r) \/ FindCode(r)
    <2>1. PICK s \in Steps \ {"insert", "deactivate"} : pc' = [pc EXCEPT ![r] = s]
      BY <1>6 DEF FindUser, FindCode, Steps
    <2>2. /\ pc[r] \in {"findUser", "findCode"} /\ UNCHANGED <<active, links, issued>>
          /\ \A t \in Reqs \ {r} : queue'[t] = queue[t]
      BY <1>6 DEF FindUser, FindCode
    <2>3. QED
      BY <1>0, <2>1, <2>2
  <1>7. CASE \/ MarkVerified(r) \/ MarkInactive(r) \/ FindLink(r) \/ MarkUsed(r)
             \/ Log(r) \/ Refuse(r) \/ GetUser(r)
    BY <1>0, <1>7 DEF MarkVerified, MarkInactive, FindLink, MarkUsed, Log, Refuse, GetUser
  <1>8. QED
    BY <1>1, <1>2, <1>3, <1>4, <1>5, <1>6, <1>7 DEF Other

LEMMA StartKeepsOrder == ASSUME SInv, NEW r \in Reqs, Start(r) PROVE Asking' /\ Superseding'
  <1>1. /\ pc[r] = "idle" /\ r \notin issued
        /\ \E s \in {"findLink", "findUser"} : pc' = [pc EXCEPT ![r] = s]
        /\ \E q : req' = [req EXCEPT ![r] = q]
        /\ before' = [before EXCEPT ![r] = {q \in Reqs : pc[q] \in Ended}]
        /\ UNCHANGED <<active, links, queue, issued>>
    BY DEF Start, db, Goto, SInv, IInv, Storing, Fresh
  <1>2. Asking'
    BY <1>1 DEF SInv, IInv, TypeOK, Asking
  <1>3. Superseding'
    <2> SUFFICES ASSUME NEW s \in Reqs, NEW t \in Reqs, s \in before'[t]
                 PROVE /\ pc'[s] \in Ended
                       /\ (s \in Rows' /\ Same(s, t)') =>
                            /\ t \notin issued' /\ pc'[t] # "insert"
                            /\ pc'[t] = "deactivate" => s \in queue'[t]
      BY DEF Superseding
    <2> USE DEF SInv, IInv, TypeOK
    <2>1. pc[s] \in Ended /\ s # r
      BY <1>1 DEF Superseding, Ended
    <2>2. pc'[s] \in Ended
      BY <1>1, <2>1
    <2>3. CASE t = r
      BY <1>1, <2>2, <2>3
    <2>4. CASE t # r
      <3>1. Same(s, t)' = Same(s, t) /\ Rows' = Rows /\ pc'[t] = pc[t] /\ s \in before[t]
        BY <1>1, <2>1, <2>4 DEF Same, User, Rows
      <3>2. QED
        BY <1>1, <2>2, <3>1 DEF Superseding
    <2>5. QED
      BY <2>3, <2>4
  <1>4. QED
    BY <1>2, <1>3

LEMMA OrderStep == SInv /\ [Next]_vars => SInv'
  <1> SUFFICES ASSUME SInv, [Next]_vars PROVE SInv'
    OBVIOUS
  <1>1. IInv'
    BY StepHolds DEF SInv
  <1>2. ASSUME NEW r \in Reqs, Start(r) PROVE Asking' /\ Superseding'
    BY <1>2, StartKeepsOrder
  <1>3. ASSUME NEW r \in Reqs, Other(r) PROVE Asking' /\ Superseding'
    BY <1>3, AskingHolds, SupersedingHolds
  <1>4. ASSUME Tick \/ Rest \/ UNCHANGED vars PROVE Asking' /\ Superseding'
    <2>1. UNCHANGED <<pc, req, queue, before, issued, active, links>>
      BY <1>4 DEF Tick, Rest, db, local, vars
    <2>2. QED
      BY <2>1 DEF SInv, Asking, Superseding, Same, User, Rows
  <1>5. QED
    BY <1>1, <1>2, <1>3, <1>4 DEF Next, Other, Ask, Check, Close, SInv

LEMMA OrderHolds == Spec => []SInv
  <1>1. Init => SInv
    BY InitHolds DEF Init, SInv, Asking, Superseding
  <1>2. QED
    BY <1>1, OrderStep, PTL DEF Spec

(* A user has two open codes, or two links, only when the requests for them   *)
(* overlapped: otherwise the later request has closed the earlier ticket     *)
(* before it stored its own, even if one of them failed halfway.             *)
THEOREM OneIsOpen == Spec => []OneOpenTicketUnlessRaced
  <1>1. SInv => OneOpenTicketUnlessRaced
    <2>1. SInv => Rows \subseteq Reqs \cap issued
      BY DEF SInv, IInv, TypeOK, Rows, Codes
    <2>2. QED
      BY <2>1 DEF SInv, Superseding, Same, Rows, OneOpenTicketUnlessRaced
  <1>2. QED
    BY OrderHolds, <1>1, PTL
-----------------------------------------------------------------------------
(* Refusals *)

(* Which requests reach a statement, and what a client presents: a ticket that *)
(* was mailed, and with a code the address of a user.                         *)
Staged ==
  \A r \in Reqs :
    /\ pc[r] = "findUser" => req[r].kind \in {"askCode", "askLink", "checkCode"}
    /\ pc[r] \in {"findCode", "retire"} => req[r].kind = "checkCode"
    /\ pc[r] = "findLink" => req[r].kind = "checkLink"
    /\ pc[r] \in {"erase", "insert"} \/ r \in issued => req[r].kind \in {"askCode", "askLink"}
    /\ req[r].kind = "checkCode" => User(r) # NoUser
    /\ req[r].item # NoTicket => /\ req[r].kind \in {"checkCode", "checkLink"}
                                 /\ req[r].item \in sent

(* A queue holds the user's own codes, or the one code found too old.         *)
Queued ==
  \A r \in Reqs : \A t \in queue[r] :
    /\ pc[r] = "deactivate" => t \in Codes /\ User(t) = User(r)
    /\ pc[r] = "retire" => t \in issued /\ Late(t)

Spent(t) == Late(t) \/ Superseded(t)

(* A ticket stays open until it is too old, another request for the user's    *)
(* tickets overlaps or follows its own, or a check has accepted it.           *)
Kept == \A t \in issued : Spent(t) \/ t \in Open \/ \E q \in Reqs : seen[q] = t

(* The holder presents the ticket.                                            *)
Presents(r) ==
  LET t == req[r].item IN
  /\ t # NoTicket
  /\ req[r].kind = "checkCode" => req[t].kind = "askCode" /\ User(t) = User(r)
  /\ req[r].kind = "checkLink" => req[t].kind = "askLink"

Cause(r) == Spent(req[r].item) \/ \E q \in Reqs \ {r} : seen[q] = req[r].item

(* A check on its way to be refused has its cause already.                    *)
Caused == \A r \in Reqs : (pc[r] \in {"retire", "refuse", "refused"} /\ Presents(r)) => Cause(r)

CInv == SInv /\ Staged /\ Queued /\ Kept /\ Caused


LEMMA Holding == ASSUME CInv, NEW r \in Reqs, Other(r) PROVE req' = req /\ before' = before
  BY DEF Other, Fail, FindUser, FindCodes, Deactivate, Erase, Insert, SendMail, FindCode, Retire,
         MarkVerified, MarkInactive, FindLink, MarkUsed, Log, Refuse, GetUser

(* Without a cause of its own, a ticket is the only open one of its user, and *)
(* every other request for that user's tickets has ended.                     *)
LEMMA Alone == ASSUME CInv, NEW t \in issued, ~Superseded(t), NEW q \in Reqs \ {t},
                      pc[q] # "idle", Same(q, t)
               PROVE pc[q] \in Ended /\ q \notin Rows
  <1>1. q \in before[t]
    BY DEF Superseded, Same
  <1>2. t \in Reqs
    BY DEF CInv, SInv, IInv, TypeOK
  <1>3. QED
    BY <1>1, <1>2 DEF CInv, SInv, Superseding

LEMMA StagedHolds == ASSUME CInv, NEW r \in Reqs, Other(r) PROVE Staged'
  <1>1. req' = req
    BY Holding
  <1>2. sent \subseteq sent'
    BY DEF Other, Fail, FindUser, FindCodes, Deactivate, Erase, Insert, SendMail, FindCode, Retire,
           MarkVerified, MarkInactive, FindLink, MarkUsed, Log, Refuse, GetUser
  <1>3. \A q \in Reqs : \/ pc'[q] = pc[q] /\ (q \in issued' => q \in issued)
                        \/ q = r
    BY DEF Other, Fail, FindUser, FindCodes, Deactivate, Erase, Insert, SendMail, FindCode, Retire,
           MarkVerified, MarkInactive, FindLink, MarkUsed, Log, Refuse, GetUser, Goto, CInv, SInv, IInv, TypeOK
  <1>4. /\ pc'[r] \notin {"findUser", "findLink"}
        /\ pc'[r] \in {"findCode", "retire"} => req[r].kind = "checkCode"
        /\ pc'[r] \in {"erase", "insert"} \/ r \in issued' => req[r].kind \in {"askCode", "askLink"}
    <2> USE DEF CInv, SInv, IInv, TypeOK, Staged, Asking, Goto
    <2>1. CASE FindUser(r) BY <2>1 DEF FindUser, Storing, Fresh
    <2>2. CASE FindCodes(r) \/ Deactivate(r) BY <2>2 DEF FindCodes, Deactivate
    <2>3. CASE Erase(r) \/ Insert(r) BY <2>3 DEF Erase, Insert
    <2>4. CASE FindCode(r)
      <3>1. pc[r] = "findCode" /\ \E s \in {"refuse", "retire", "markVerified"} : pc' = [pc EXCEPT ![r] = s]
        BY <2>4 DEF FindCode
      <3>2. issued' = issued
        BY <2>4 DEF FindCode
      <3>3. QED
        BY <3>1, <3>2
    <2>5. CASE \/ Fail(r) \/ SendMail(r) \/ Retire(r) \/ MarkVerified(r) \/ MarkInactive(r) \/ FindLink(r)
               \/ MarkUsed(r) \/ Log(r) \/ Refuse(r) \/ GetUser(r)
      BY <2>5 DEF Fail, SendMail, Retire, MarkVerified, MarkInactive, FindLink, MarkUsed, Log, Refuse, GetUser
    <2>6. QED
      BY <2>1, <2>2, <2>3, <2>4, <2>5 DEF Other
  <1>5. QED
    BY <1>1, <1>2, <1>3, <1>4 DEF CInv, Staged, User

LEMMA ExpiryStays == ASSUME CInv, NEW r \in Reqs, Other(r), NEW t \in issued PROVE expires'[t] = expires[t]
  <1>1. CASE FindUser(r)
    <2>1. r # t
      BY <1>1 DEF FindUser, CInv, SInv, IInv, Storing, Fresh
    <2>2. t \in Reqs /\ \A q \in Reqs \ {r} : expires'[q] = expires[q]
      BY <1>1 DEF FindUser, CInv, SInv, IInv, TypeOK
    <2>3. QED
      BY <2>1, <2>2
  <1>2. CASE ~FindUser(r)
    BY <1>2 DEF Other, Fail, FindCodes, Deactivate, Erase, Insert, SendMail, FindCode, Retire,
       MarkVerified, MarkInactive, FindLink, MarkUsed, Log, Refuse, GetUser
  <1>3. QED
    BY <1>1, <1>2

(* What makes a ticket worthless lasts, and so does its acceptance.           *)
LEMMA SpentStays == ASSUME CInv, NEW r \in Reqs, Other(r), NEW t \in issued, Spent(t) PROVE Spent(t)'
  <1>1. /\ now' = now /\ req' = req /\ before' = before
        /\ \A q \in Reqs : pc[q] # "idle" => pc'[q] # "idle"
    BY Holding DEF Other, Fail, FindUser, FindCodes, Deactivate, Erase, Insert, SendMail, FindCode, Retire,
       MarkVerified, MarkInactive, FindLink, MarkUsed, Log, Refuse, GetUser, Goto, CInv, SInv, IInv, TypeOK
  <1>2. expires'[t] = expires[t]
    BY ExpiryStays
  <1>3. QED
    BY <1>1, <1>2 DEF Spent, Late, Superseded, User

LEMMA SeenStays == ASSUME CInv, NEW r \in Reqs, Other(r), NEW q \in Reqs, seen[q] # NoTicket
                   PROVE seen'[q] = seen[q]
  <1>1. CASE FindCode(r) \/ FindLink(r)
    <2>1. q # r
      BY <1>1 DEF FindCode, FindLink, CInv, SInv, IInv, Accepted, Accepting
    <2>2. QED
      BY <1>1, <2>1 DEF FindCode, FindLink, CInv, SInv, IInv, TypeOK
  <1>2. CASE ~FindCode(r) /\ ~FindLink(r)
    BY <1>2 DEF Other, Fail, FindUser, FindCodes, Deactivate, Erase, Insert, SendMail, Retire,
       MarkVerified, MarkInactive, MarkUsed, Log, Refuse, GetUser
  <1>3. QED
    BY <1>1, <1>2


LEMMA QueuedHolds == ASSUME CInv, NEW r \in Reqs, Other(r) PROVE Queued'
  <1>1. req' = req
    BY Holding
  <1>2. \A t \in issued : Late(t) => Late(t)'
    <2> SUFFICES ASSUME NEW t \in issued, Late(t) PROVE Late(t)'
      OBVIOUS
    <2>1. now' = now
      BY DEF Other, Fail, FindUser, FindCodes, Deactivate, Erase, Insert, SendMail, FindCode, Retire,
         MarkVerified, MarkInactive, FindLink, MarkUsed, Log, Refuse, GetUser
    <2>2. expires'[t] = expires[t]
      BY ExpiryStays
    <2>3. QED
      BY <2>1, <2>2 DEF Late
  <1>3. issued \subseteq issued' /\ Codes \subseteq Codes'
    BY <1>1 DEF Codes, Other, Fail, FindUser, FindCodes, Deactivate, Erase, Insert, SendMail, FindCode, Retire,
       MarkVerified, MarkInactive, FindLink, MarkUsed, Log, Refuse, GetUser
  <1>4. ASSUME NEW q \in Reqs, q # r PROVE queue'[q] = queue[q] /\ pc'[q] = pc[q]
    BY <1>4 DEF Other, Fail, FindUser, FindCodes, Deactivate, Erase, Insert, SendMail, FindCode, Retire,
       MarkVerified, MarkInactive, FindLink, MarkUsed, Log, Refuse, GetUser, Goto, CInv, SInv, IInv, TypeOK
  <1>5. ASSUME NEW t \in queue'[r] PROVE /\ pc'[r] = "deactivate" => t \in Codes /\ User(t) = User(r)
                                         /\ pc'[r] = "retire" => t \in issued /\ Late(t)
    <2> USE DEF CInv, SInv, IInv, TypeOK, Goto
    <2>1. CASE FindCodes(r)
      BY <1>5, <2>1 DEF FindCodes, CodesOf
    <2>2. CASE Deactivate(r)
      BY <1>5, <2>2 DEF Deactivate, Queued
    <2>3. CASE FindCode(r)
      <3>1. CASE pc'[r] = "retire"
        <4>1. PICK u \in ActiveCodes(r) : Late(u) /\ queue' = [queue EXCEPT ![r] = {u}]
          BY <2>3, <3>1 DEF FindCode
        <4>2. u \in issued
          BY DEF ActiveCodes, CodesOf, Codes
        <4>3. QED
          BY <1>5, <3>1, <4>1, <4>2
      <3>2. CASE pc'[r] # "retire"
        BY <2>3, <3>2 DEF FindCode
      <3>3. QED
        BY <3>1, <3>2
    <2>4. CASE ~FindCodes(r) /\ ~Deactivate(r) /\ ~FindCode(r)
      BY <2>4 DEF Other, Fail, FindUser, Erase, Insert, SendMail, Retire,
         MarkVerified, MarkInactive, FindLink, MarkUsed, Log, Refuse, GetUser
    <2>5. QED
      BY <2>1, <2>2, <2>3, <2>4
  <1>6. QED
    <2> SUFFICES ASSUME NEW q \in Reqs, NEW t \in queue'[q]
                 PROVE /\ pc'[q] = "deactivate" => t \in Codes' /\ User(t)' = User(q)'
                       /\ pc'[q] = "retire" => t \in issued' /\ Late(t)'
      BY DEF Queued
    <2>1. /\ pc'[q] = "deactivate" => t \in Codes /\ User(t) = User(q)
          /\ pc'[q] = "retire" => t \in issued /\ Late(t)
      BY <1>4, <1>5 DEF CInv, Queued
    <2>2. QED
      BY <1>1, <1>2, <1>3, <2>1 DEF User

(* Nobody else closes the only ticket of a user.                              *)
LEMMA OpenStays == ASSUME CInv, NEW r \in Reqs, Other(r), NEW t \in issued, t \in Open, ~Spent(t),
                          \A q \in Reqs : seen[q] # t
                   PROVE t \in Open'
  <1>1. /\ t \in Reqs /\ active \subseteq Codes /\ links \cap Codes = {} /\ used \subseteq links
        /\ req[t].kind \in {"askCode", "askLink"}
    BY DEF CInv, SInv, IInv, TypeOK, Codes, Staged
  <1>2. CASE Deactivate(r)
    <2>1. PICK u \in queue[r] : active' = active \ {u} /\ pc[r] = "deactivate" /\ links' = links /\ used' = used
      BY <1>2 DEF Deactivate
    <2>2. ASSUME u = t PROVE FALSE
      <3>1. t \in Codes /\ User(t) = User(r) /\ req[r].kind = "askCode" /\ r \notin issued
        BY <2>1, <2>2 DEF CInv, SInv, IInv, Queued, Asking, Storing, Fresh
      <3>2. Same(r, t) /\ r # t
        BY <3>1 DEF Same, Codes
      <3>3. QED
        BY <2>1, <3>2, Alone DEF Spent, Ended
    <2>3. QED
      BY <2>1, <2>2 DEF Open
  <1>3. CASE Erase(r)
    <2>1. pc[r] = "erase" /\ links' = links \ Erased(r) /\ used' = used \cap links' /\ active' = active
      BY <1>3 DEF Erase
    <2>2. ASSUME t \in Erased(r) PROVE FALSE
      <3>1. t \in links /\ User(t) = User(r) /\ req[t].kind = "askLink"
        BY <1>1, <2>2 DEF Erased, Codes
      <3>2. req[r].kind = "askLink" /\ r \notin issued
        BY <2>1 DEF CInv, SInv, IInv, Staged, Asking, Storing, Fresh
      <3>3. Same(r, t) /\ r # t
        BY <3>1, <3>2 DEF Same
      <3>4. QED
        BY <2>1, <3>3, Alone DEF Spent, Ended
    <2>3. QED
      BY <2>1, <2>2 DEF Open
  <1>4. CASE Retire(r)
    <2>1. pc[r] = "retire" /\ active' = active \ queue[r] /\ links' = links /\ used' = used
      BY <1>4 DEF Retire
    <2>2. t \notin queue[r]
      BY <2>1 DEF CInv, Queued, Spent
    <2>3. QED
      BY <2>1, <2>2 DEF Open
  <1>5. CASE MarkInactive(r) \/ MarkUsed(r)
    BY <1>5 DEF MarkInactive, MarkUsed, Open
  <1>6. CASE Insert(r)
    BY <1>1, <1>6 DEF Insert, Open
  <1>7. CASE \/ Fail(r) \/ FindUser(r) \/ FindCodes(r) \/ SendMail(r) \/ FindCode(r) \/ MarkVerified(r)
             \/ FindLink(r) \/ Log(r) \/ Refuse(r) \/ GetUser(r)
    BY <1>7 DEF Fail, FindUser, FindCodes, SendMail, FindCode, MarkVerified, FindLink, Log, Refuse, GetUser,
       db, Open
  <1>8. QED
    BY <1>2, <1>3, <1>4, <1>5, <1>6, <1>7 DEF Other

LEMMA KeptHolds == ASSUME CInv, NEW r \in Reqs, Other(r) PROVE Kept'
  <1> SUFFICES ASSUME NEW t \in issued' PROVE Spent(t)' \/ t \in Open' \/ \E q \in Reqs : seen'[q] = t
    BY DEF Kept
  <1>1. CASE t \in issued
    <2>1. CASE Spent(t)
      BY <1>1, <2>1, SpentStays
    <2>2. CASE \E q \in Reqs : seen[q] = t
      <3>1. t # NoTicket
        BY <1>1 DEF CInv, SInv, IInv, TypeOK, Reqs, NoTicket
      <3>2. QED
        BY <2>2, <3>1, SeenStays
    <2>3. CASE t \in Open /\ ~Spent(t) /\ \A q \in Reqs : seen[q] # t
      BY <1>1, <2>3, OpenStays
    <2>4. QED
      BY <1>1, <2>1, <2>2, <2>3 DEF CInv, Kept
  <1>2. CASE t \notin issued
    <2>1. Insert(r) /\ t = r
      BY <1>2 DEF Other, Fail, FindUser, FindCodes, Deactivate, Erase, Insert, SendMail, FindCode, Retire,
         MarkVerified, MarkInactive, FindLink, MarkUsed, Log, Refuse, GetUser
    <2>2. used \subseteq issued
      BY DEF CInv, SInv, IInv, TypeOK
    <2>3. QED
      BY <1>2, <2>1, <2>2 DEF Insert, Open
  <1>3. QED
    BY <1>1, <1>2


(* The holder of a ticket finds it, unless there is a cause: a code because   *)
(* it is the user's only one, a link because it is looked up by itself.       *)
LEMMA RefusedWithCause ==
  ASSUME CInv, NEW r \in Reqs, FindCode(r) \/ FindLink(r), Presents(r), ~Cause(r)
  PROVE pc'[r] \notin {"retire", "refuse", "refused"}
  <1>1. PICK t \in Reqs : t = req[r].item
    BY DEF Presents, CInv, SInv, IInv, TypeOK, NoTicket
  <1>2. /\ pc[r] \in {"findCode", "findLink"} /\ seen[r] = NoTicket
        /\ FindCode(r) => req[r].kind = "checkCode"
        /\ FindLink(r) => req[r].kind = "checkLink"
    BY DEF FindCode, FindLink, CInv, SInv, IInv, Accepted, Accepting, Staged
  <1>3. t \in issued /\ t # NoTicket /\ ~Spent(t) /\ \A q \in Reqs : seen[q] # t
    BY <1>1, <1>2 DEF Presents, Cause, CInv, SInv, IInv, TypeOK, Staged
  <1>4. t \in Open
    BY <1>3 DEF CInv, Kept
  <1>5. CASE FindCode(r)
    <2>1. req[t].kind = "askCode" /\ User(t) = User(r)
      BY <1>1, <1>2, <1>5 DEF Presents
    <2>2. t \in ActiveCodes(r)
      BY <1>3, <1>4, <2>1 DEF Open, ActiveCodes, CodesOf, Codes, CInv, SInv, IInv, TypeOK
    <2>3. ASSUME NEW u \in ActiveCodes(r), u # t PROVE FALSE
      <3>1. u \in active /\ u \in issued /\ u \in Reqs \ {t} /\ Same(u, t)
        BY <2>1, <2>3 DEF ActiveCodes, CodesOf, Codes, Same, CInv, SInv, IInv, TypeOK
      <3>2. pc[u] # "idle"
        BY <3>1 DEF CInv, SInv, IInv, Storing, Fresh
      <3>3. QED
        BY <1>3, <3>1, <3>2, Alone DEF Spent, Rows
    <2>4. ActiveCodes(r) = {t} /\ ~Late(t)
      BY <1>3, <2>2, <2>3 DEF Spent
    <2>5. pc'[r] = "markVerified"
      BY <1>1, <1>5, <2>4 DEF FindCode, Goto, CInv, SInv, IInv, TypeOK
    <2>6. QED
      BY <2>5
  <1>6. CASE FindLink(r)
    <2>1. req[t].kind = "askLink"
      BY <1>1, <1>2, <1>6 DEF Presents
    <2>2. t \in links \ used /\ ~Late(t)
      BY <1>3, <1>4, <2>1 DEF Open, Codes, Spent, CInv, SInv, IInv, TypeOK
    <2>3. pc'[r] = "markUsed"
      BY <1>1, <1>6, <2>2 DEF FindLink, Goto, CInv, SInv, IInv, TypeOK
    <2>4. QED
      BY <2>3
  <1>7. QED
    BY <1>5, <1>6

LEMMA CauseStays == ASSUME CInv, NEW r \in Reqs, Other(r), NEW q \in Reqs, Presents(q), Cause(q) PROVE Cause(q)'
  <1>1. PICK t \in issued : t = req[q].item /\ t # NoTicket
    BY DEF Presents, CInv, SInv, IInv, TypeOK, Staged
  <1>2. req'[q].item = t
    BY <1>1, Holding
  <1>3. Spent(t) => Spent(t)'
    BY SpentStays
  <1>4. ASSUME NEW s \in Reqs \ {q}, seen[s] = t PROVE seen'[s] = t
    BY <1>1, <1>4, SeenStays
  <1>5. CASE Spent(t)
    BY <1>2, <1>3, <1>5 DEF Cause
  <1>6. CASE ~Spent(t)
    <2>1. PICK s \in Reqs \ {q} : seen[s] = t
      BY <1>1, <1>6 DEF Cause
    <2>2. QED
      BY <1>2, <1>4, <2>1 DEF Cause
  <1>7. QED
    BY <1>5, <1>6

LEMMA CausedHolds == ASSUME CInv, NEW r \in Reqs, Other(r) PROVE Caused'
  <1> SUFFICES ASSUME NEW q \in Reqs, pc'[q] \in {"retire", "refuse", "refused"}, Presents(q)' PROVE Cause(q)'
    BY DEF Caused
  <1>1. Presents(q)
    BY Holding DEF Presents, User
  <1>2. CASE pc[q] \in {"retire", "refuse", "refused"}
    BY <1>1, <1>2, CauseStays DEF CInv, Caused
  <1>3. CASE pc[q] \notin {"retire", "refuse", "refused"}
    <2>1. q = r /\ (FindUser(r) \/ FindCode(r) \/ FindLink(r))
      <3>1. q = r
        BY <1>3 DEF Other, Fail, FindUser, FindCodes, Deactivate, Erase, Insert, SendMail, FindCode, Retire,
           MarkVerified, MarkInactive, FindLink, MarkUsed, Log, Refuse, GetUser, Goto, CInv, SInv, IInv, TypeOK
      <3>2. QED
        BY <1>3, <3>1 DEF Other, Fail, FindCodes, Deactivate, Erase, Insert, SendMail, Retire,
           MarkVerified, MarkInactive, MarkUsed, Log, Refuse, GetUser, Goto, CInv, SInv, IInv, TypeOK
    <2>2. CASE FindUser(r)
      <3>1. req[r].kind = "checkCode" /\ User(r) # NoUser
        BY <1>1, <2>1, <2>2 DEF FindUser, Presents, CInv, Staged
      <3>2. pc'[r] = "findCode"
        BY <2>2, <3>1 DEF FindUser, Goto, CInv, SInv, IInv, TypeOK
      <3>3. QED
        BY <2>1, <3>2
    <2>3. CASE FindCode(r) \/ FindLink(r)
      BY <1>1, <2>1, <2>3, RefusedWithCause, CauseStays
    <2>4. QED
      BY <2>1, <2>2, <2>3
  <1>4. QED
    BY <1>2, <1>3

(* What the requests that a client can send ask for.                          *)
LEMMA Presented == ASSUME NoUser \notin Users, NEW k \in AllKinds
                   PROVE \A q \in Requests(k) :
                           /\ q.kind = k
                           /\ k = "checkCode" => q.user # NoUser
                           /\ q.item # NoTicket => k \in {"checkCode", "checkLink"} /\ q.item \in sent
  <1> DEFINE Good(q) == /\ q.kind = k
                        /\ k = "checkCode" => q.user # NoUser
                        /\ q.item # NoTicket => k \in {"checkCode", "checkLink"} /\ q.item \in sent
  <1>1. CASE k \in {"askCode", "askLink"}
    <2> DEFINE Asked(u) == [Blank EXCEPT !.kind = k, !.user = u]
    <2>1. Requests(k) = {Asked(u) : u \in Users \cup {NoUser}}
      <3>1. Requests("askCode") = {[Blank EXCEPT !.kind = "askCode", !.user = u] : u \in Users \cup {NoUser}}
        BY DEF Requests
      <3>2. Requests("askLink") = {[Blank EXCEPT !.kind = "askLink", !.user = u] : u \in Users \cup {NoUser}}
        BY DEF Requests
      <3>3. QED
        BY <1>1, <3>1, <3>2
    <2>2. \A u \in Users \cup {NoUser} : Good(Asked(u))
      BY <1>1 DEF Blank
    <2> HIDE DEF Good, Asked
    <2>3. \A q \in Requests(k) : Good(q)
      BY <2>1, <2>2
    <2>4. QED
      BY <2>3 DEF Good
  <1>2. CASE k = "checkCode"
    <2> DEFINE Code(u, t) == [Blank EXCEPT !.kind = "checkCode", !.user = u, !.item = t]
    <2>1. Requests("checkCode") = {Code(u, t) : u \in Users, t \in sent \cup {NoTicket}}
      BY DEF Requests
    <2>2. \A u \in Users : \A t \in sent \cup {NoTicket} : Good(Code(u, t))
      BY <1>2 DEF Blank
    <2> HIDE DEF Good, Code
    <2>3. \A q \in Requests(k) : Good(q)
      BY <1>2, <2>1, <2>2
    <2>4. QED
      BY <2>3 DEF Good
  <1>3. CASE k = "checkLink"
    <2> DEFINE Link(t) == [Blank EXCEPT !.kind = "checkLink", !.item = t]
    <2>1. Requests("checkLink") = {Link(t) : t \in sent \cup {NoTicket}}
      BY DEF Requests
    <2>2. \A t \in sent \cup {NoTicket} : Good(Link(t))
      BY <1>3 DEF Blank
    <2> HIDE DEF Good, Link
    <2>3. \A q \in Requests(k) : Good(q)
      BY <1>3, <2>1, <2>2
    <2>4. QED
      BY <2>3 DEF Good
  <1>4. QED
    BY <1>1, <1>2, <1>3 DEF AllKinds

(* A new request disturbs none of the others, but it may supersede a ticket.  *)
LEMMA StartKeepsCauses == ASSUME CInv, NEW r \in Reqs, Start(r) PROVE Staged' /\ Queued' /\ Kept' /\ Caused'
  <1> PICK k \in Kinds : \E a \in Requests(k) : req' = [req EXCEPT ![r] = a]
    BY DEF Start
  <1> PICK a \in Requests(k) : req' = [req EXCEPT ![r] = a]
    OBVIOUS
  <1>1. /\ a.kind = k
        /\ k = "checkCode" => a.user # NoUser
        /\ a.item # NoTicket => k \in {"checkCode", "checkLink"} /\ a.item \in sent
    <2>1. NoUser \notin Users /\ k \in AllKinds
      BY TokensAssumption
    <2>2. QED
      BY <2>1, Presented
  <1>2. /\ pc[r] = "idle"
        /\ \E s \in {"findLink", "findUser"} :
             pc' = [pc EXCEPT ![r] = s] /\ s = (IF k = "checkLink" THEN "findLink" ELSE "findUser")
        /\ UNCHANGED <<now, active, verified, links, used, expires, sent, queue, seen, errors, issued>>
        /\ \A q \in Reqs \ {r} : before'[q] = before[q]
    <2>1. req'[r] = a
      BY DEF CInv, SInv, IInv, TypeOK
    <2>2. QED
      BY <1>1, <2>1 DEF Start, db, Goto, CInv, SInv, IInv, TypeOK
  <1>3. r \notin issued /\ seen[r] = NoTicket /\ issued \subseteq Reqs
    BY <1>2 DEF CInv, SInv, IInv, TypeOK, Storing, Accepted, Fresh, Accepting
  <1>4. \A q \in Reqs \ {r} : req'[q] = req[q] /\ pc'[q] = pc[q]
    BY <1>2 DEF CInv, SInv, IInv, TypeOK
  <1>5. req'[r] = a /\ pc'[r] \in {"findLink", "findUser"}
    BY <1>2 DEF CInv, SInv, IInv, TypeOK
  <1>6. pc'[r] = IF k = "checkLink" THEN "findLink" ELSE "findUser"
    BY <1>2 DEF CInv, SInv, IInv, TypeOK
  <1>7. Staged'
    BY <1>1, <1>2, <1>3, <1>4, <1>5, <1>6, TokensAssumption DEF CInv, Staged, User, AllKinds
  <1>8. Queued'
    <2>1. \A t \in issued : req'[t] = req[t]
      BY <1>3, <1>4
    <2>2. QED
      BY <1>2, <1>3, <1>4, <1>5, <2>1 DEF CInv, Queued, Codes, User, Late
  <1>9. \A t \in issued : Spent(t) => Spent(t)'
    BY <1>2, <1>3, <1>4 DEF Spent, Late, Superseded, User
  <1>10. Kept'
    BY <1>2, <1>9 DEF CInv, Kept, Open
  <1>11. Caused'
    <2> SUFFICES ASSUME NEW q \in Reqs, pc'[q] \in {"retire", "refuse", "refused"}, Presents(q)' PROVE Cause(q)'
      BY DEF Caused
    <2>1. q # r
      BY <1>5
    <2>2. PICK t \in issued : t = req[q].item /\ req'[q].item = t
      BY <1>4, <2>1 DEF Presents, CInv, SInv, IInv, TypeOK, Staged
    <2>3. Presents(q)
      BY <1>3, <1>4, <2>1, <2>2 DEF Presents, User
    <2>4. Cause(q)
      BY <1>4, <2>1, <2>3 DEF CInv, Caused
    <2>5. QED
      BY <1>2, <1>9, <2>2, <2>4 DEF Cause
  <1>12. QED
    BY <1>7, <1>8, <1>10, <1>11

LEMMA CausesHold == Spec => []CInv
  <1>1. Init => CInv
    <2>1. Init => SInv
      BY InitHolds DEF Init, SInv, Asking, Superseding
    <2>2. QED
      BY <2>1 DEF Init, CInv, Staged, Queued, Kept, Caused, Blank, NoTicket
  <1>2. CInv /\ [Next]_vars => CInv'
    <2> SUFFICES ASSUME CInv, [Next]_vars PROVE CInv'
      OBVIOUS
    <2>1. SInv'
      BY OrderStep DEF CInv
    <2>2. ASSUME NEW r \in Reqs, Start(r) PROVE Staged' /\ Queued' /\ Kept' /\ Caused'
      BY <2>2, StartKeepsCauses
    <2>3. ASSUME NEW r \in Reqs, Other(r) PROVE Staged' /\ Queued' /\ Kept' /\ Caused'
      BY <2>3, StagedHolds, QueuedHolds, KeptHolds, CausedHolds
    <2>4. ASSUME Tick \/ Rest \/ UNCHANGED vars PROVE Staged' /\ Queued' /\ Kept' /\ Caused'
      <3>1. /\ UNCHANGED <<pc, req, queue, before, seen, issued, sent, active, links, used, expires>>
            /\ now' \in {now, now + 1}
        BY <2>4 DEF Tick, Rest, db, local, vars
      <3>2. ASSUME NEW t \in issued PROVE (Late(t) => Late(t)') /\ Superseded(t)' = Superseded(t)
        <4>1. now \in Nat /\ expires[t] \in Nat
          BY TokensAssumption DEF CInv, SInv, IInv, TypeOK
        <4>2. Late(t) => Late(t)'
          BY <3>1, <4>1 DEF Late
        <4>3. QED
          BY <3>1, <4>2 DEF Superseded, User
      <3>3. Staged' /\ Queued' /\ Kept'
        BY <3>1, <3>2 DEF CInv, Staged, Queued, Kept, Spent, Codes, Open, User
      <3>4. ASSUME NEW q \in Reqs, Presents(q)', Cause(q) PROVE Cause(q)'
        <4>1. PICK t \in issued : t = req[q].item
          BY <3>1, <3>4 DEF Presents, CInv, SInv, IInv, TypeOK, Staged
        <4>2. QED
          BY <3>1, <3>2, <3>4, <4>1 DEF Cause, Spent
      <3>5. Caused'
        BY <3>1, <3>4 DEF CInv, Caused, Presents, User
      <3>6. QED
        BY <3>3, <3>5
    <2>5. QED
      BY <2>1, <2>2, <2>3, <2>4 DEF Next, Other, Ask, Check, Close, CInv
  <1>3. QED
    BY <1>1, <1>2, PTL DEF Spec

(* A user who presents a ticket that was mailed to them is turned away only   *)
(* because it is too old, because another of their own requests for a ticket  *)
(* overlapped or followed, or because some other check of it was not refused: *)
(* what strangers ask for or guess does not matter.                           *)
THEOREM NoRefusalWithoutCause == Spec => []RefusedForACause
  <1>1. CInv => RefusedForACause
    BY DEF CInv, Caused, RefusedForACause, Presents, Cause, Spent, Late
  <1>2. QED
    BY CausesHold, <1>1, PTL
=============================================================================
