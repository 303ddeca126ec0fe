--------------------------- MODULE OneTimeTokens ----------------------------
(***************************************************************************)
(* Sign-in by mail: the one-time codes of otp.service.ts and the magic     *)
(* links of magic-link.service.ts, with their controllers.                 *)
(*                                                                         *)
(* A request is a process and an action is one database statement, or the  *)
(* sending of one mail, with the local code up to the next await.  The     *)
(* request that made a code or a link names it: tickets are requests.      *)
(* Rows are updated and removed by id, never written back as they were     *)
(* loaded.  The security log is only written: its statements are here      *)
(* because they can fail, its rows are not.                                *)
(***************************************************************************)
EXTENDS Integers, FiniteSets

CONSTANTS
  Users,
  NoUser,         \* an e-mail address nobody has signed up with
  Life,           \* OTP_EXPIRY and MAGIC_LINK_EXPIRY, in ticks
  Kinds,          \* the request kinds of this instance
  MaxTime,        \* bound: ticks of the clock
  MaxRequests,    \* bound: number of requests
  MaxInFlight,    \* bound: requests served at the same time
  MaxErrors       \* bound: statements and mails that fail

AllKinds == {"askCode", "askLink", "checkCode", "checkLink"}

ASSUME TokensAssumption ==
  /\ NoUser \notin Users /\ Kinds \subseteq AllKinds
  /\ Life \in Nat /\ MaxTime \in Nat
  /\ MaxRequests \in Nat /\ MaxInFlight \in Nat /\ MaxErrors \in Nat

Reqs     == 1..MaxRequests
NoTicket == 0                         \* no ticket; presented: a code or link nobody was sent

VARIABLES
  now,        \* the clock
  active,     \* otp_entity: the rows with active = true (rows are never removed)
  verified,   \* otp_entity: the rows with verified = true
  links,      \* magic_link_entity: its rows
  used,       \* magic_link_entity: the rows with used = true
  expires,    \* expiresAt of each ticket
  sent,       \* tickets whose mail was delivered
  req, pc,    \* what each request asks for, the statement it is about to execute
  queue,      \* codes a request has still to deactivate
  seen,       \* the ticket a check has accepted
  errors,     \* statements that have failed
  (* History variables: no action reads them. *)
  issued,     \* tickets that were ever stored
  before      \* requests that had ended when this one started

db    == <<active, verified, links, used>>
local == <<req, pc, queue, seen, errors>>
vars  == <<now, active, verified, links, used, expires, sent, req, pc, queue, seen, errors,
           issued, before>>

Blank    == [kind |-> "none", user |-> NoUser, item |-> NoTicket]
Ended    == {"done", "granted", "refused", "failed"}
InFlight == {r \in Reqs : pc[r] \notin Ended \cup {"idle"}}
Goto(r, s) == pc' = [pc EXCEPT ![r] = s]
User(r)  == req[r].user
Codes    == {t \in issued : req[t].kind = "askCode"}

-----------------------------------------------------------------------------
(* Requests.  A code is presented with an e-mail address, a link alone.  An   *)
(* operator named Bug... is a seeded fault that stands beside the definition  *)
(* it would replace; nothing uses it.                                        *)

Requests(k) ==
  CASE k \in {"askCode", "askLink"} ->
         {[Blank EXCEPT !.kind = k, !.user = u] : u \in Users \cup {NoUser}}
    [] k = "checkCode" -> {[Blank EXCEPT !.kind = k, !.user = u, !.item = t] :
                             u \in Users, t \in sent \cup {NoTicket}}
    [] k = "checkLink" -> {[Blank EXCEPT !.kind = k, !.item = t] : t \in sent \cup {NoTicket}}

Start(r) ==
  /\ pc[r] = "idle"
  /\ \A q \in Reqs : q < r => pc[q] # "idle"
  /\ Cardinality(InFlight) < MaxInFlight
  /\ \E k \in Kinds : \E q \in Requests(k) : req' = [req EXCEPT ![r] = q]
  /\ Goto(r, IF req'[r].kind = "checkLink" THEN "findLink" ELSE "findUser")
  /\ before' = [before EXCEPT ![r] = {q \in Reqs : pc[q] \in Ended}]
  /\ UNCHANGED <<now, db, expires, sent, queue, seen, errors, issued>>

(* A statement fails and the request ends with an error: what it wrote stays. *)
(* A mail may have been delivered although sending it reported an error.      *)
Fail(r) ==
  /\ r \in InFlight /\ errors < MaxErrors
  /\ errors' = errors + 1
  /\ Goto(r, "failed")
  /\ sent' \in {sent} \cup (IF pc[r] = "mail" THEN {sent \cup {r}} ELSE {})
  /\ UNCHANGED <<now, db, expires, req, queue, seen, issued, before>>

Tick ==
  /\ now < MaxTime
  /\ now' = now + 1
  /\ UNCHANGED <<db, expires, sent, local, issued, before>>

-----------------------------------------------------------------------------
(* Asking for a ticket *)

(* findByEmail.  The expiry time is taken now, before the row is stored. *)
FindUser(r) ==
  /\ pc[r] = "findUser"
  /\ LET k == req[r].kind IN
     IF User(r) = NoUser THEN Goto(r, "refused") /\ UNCHANGED expires
     ELSE IF k = "checkCode" THEN Goto(r, "findCode") /\ UNCHANGED expires
     ELSE /\ Goto(r, IF k = "askCode" THEN "findCodes" ELSE "erase")
          /\ expires' = [expires EXCEPT ![r] = now + Life]
  /\ UNCHANGED <<now, db, sent, req, queue, seen, errors, issued, before>>

BugFindOne(u) == {t \in active : User(t) = u /\ \A s \in active : User(s) = u => t <= s}
CodesOf(u) == {t \in active : User(t) = u}

FindCodes(r) ==
  /\ pc[r] = "findCodes"
  /\ queue' = [queue EXCEPT ![r] = CodesOf(User(r))]
  /\ Goto(r, IF queue'[r] = {} THEN "insert" ELSE "deactivate")
  /\ UNCHANGED <<now, db, expires, sent, req, seen, errors, issued, before>>

(* One UPDATE for each code that was found, newest first in the code: nothing *)
(* tells the order apart.                                                     *)
Deactivate(r) ==
  /\ pc[r] = "deactivate"
  /\ \E t \in queue[r] :
       /\ active' = active \ {t}
       /\ queue' = [queue EXCEPT ![r] = @ \ {t}]
  /\ Goto(r, IF queue'[r] = {} THEN "insert" ELSE "deactivate")
  /\ UNCHANGED <<now, verified, links, used, expires, sent, req, seen, errors, issued, before>>

(* deleteByUserId removes the used links as well. *)
Erased(r) == {t \in links : User(t) = User(r)}

Erase(r) ==
  /\ pc[r] = "erase"
  /\ links' = links \ Erased(r)
  /\ used' = used \cap links'
  /\ Goto(r, "insert")
  /\ UNCHANGED <<now, active, verified, expires, sent, req, queue, seen, errors, issued, before>>

Insert(r) ==
  /\ pc[r] = "insert"
  /\ IF req[r].kind = "askCode" THEN active' = active \cup {r} /\ UNCHANGED links
                                ELSE links' = links \cup {r} /\ UNCHANGED active
  /\ issued' = issued \cup {r}
  /\ Goto(r, "mail")
  /\ UNCHANGED <<now, verified, used, expires, sent, req, queue, seen, errors, before>>

BugUnawaited(r) ==
  /\ pc[r] \in {"insert", "mail"}
  /\ sent' = sent \cup {r}
  /\ Goto(r, "log")
  /\ UNCHANGED <<now, db, expires, req, queue, seen, errors, issued, before>>
SendMail(r) ==
  /\ pc[r] = "mail"
  /\ sent' = sent \cup {r}
  /\ Goto(r, "log")
  /\ UNCHANGED <<now, db, expires, req, queue, seen, errors, issued, before>>

-----------------------------------------------------------------------------
(* Presenting a ticket *)

BugLateAtOnce(t) == now >= expires[t]
Late(t) == now > expires[t]

(* findOne without an order: any active code of the user. *)
ActiveCodes(r) == CodesOf(User(r))

(* An expired code is deactivated; a wrong one changes nothing, however often. *)
FindCode(r) ==
  /\ pc[r] = "findCode"
  /\ \/ ActiveCodes(r) = {} /\ Goto(r, "refuse") /\ UNCHANGED <<queue, seen>>
     \/ \E t \in ActiveCodes(r) :
          IF Late(t) THEN /\ queue' = [queue EXCEPT ![r] = {t}]
                          /\ Goto(r, "retire") /\ UNCHANGED seen
          ELSE IF t # req[r].item THEN Goto(r, "refuse") /\ UNCHANGED <<queue, seen>>
          ELSE /\ seen' = [seen EXCEPT ![r] = t]
               /\ Goto(r, "markVerified") /\ UNCHANGED queue
  /\ UNCHANGED <<now, db, expires, sent, req, errors, issued, before>>

Retire(r) ==
  /\ pc[r] = "retire"
  /\ active' = active \ queue[r]
  /\ queue' = [queue EXCEPT ![r] = {}]
  /\ Goto(r, "refuse")
  /\ UNCHANGED <<now, verified, links, used, expires, sent, req, seen, errors, issued, before>>

MarkVerified(r) ==
  /\ pc[r] = "markVerified"
  /\ verified' = verified \cup {seen[r]}
  /\ Goto(r, "markInactive")
  /\ UNCHANGED <<now, active, links, used, expires, sent, req, queue, seen, errors, issued, before>>

MarkInactive(r) ==
  /\ pc[r] = "markInactive"
  /\ active' = active \ {seen[r]}
  /\ Goto(r, "log")
  /\ UNCHANGED <<now, verified, links, used, expires, sent, req, queue, seen, errors, issued, before>>

(* findByToken, then the checks of used and of the expiry time. *)
FindLink(r) ==
  /\ pc[r] = "findLink"
  /\ LET t == req[r].item IN
     IF t \notin links THEN Goto(r, "refused") /\ UNCHANGED seen
     ELSE IF t \in used \/ Late(t) THEN Goto(r, "refuse") /\ UNCHANGED seen
     ELSE seen' = [seen EXCEPT ![r] = t] /\ Goto(r, "markUsed")
  /\ UNCHANGED <<now, db, expires, sent, req, queue, errors, issued, before>>

BugAfterwards(r) ==
  /\ pc[r] = "markUsed"
  /\ Goto(r, "log")
  /\ UNCHANGED <<now, db, expires, sent, req, queue, seen, errors, issued, before>>
(* UPDATE by id, whatever the row says by now: nothing when it is gone. *)
MarkUsed(r) ==
  /\ pc[r] = "markUsed"
  /\ used' = used \cup ({seen[r]} \cap links)
  /\ Goto(r, "log")
  /\ UNCHANGED <<now, active, verified, links, expires, sent, req, queue, seen, errors, issued, before>>

-----------------------------------------------------------------------------
(* The last statements: the security log, and getUser before a sign-in *)

Log(r) ==
  /\ pc[r] = "log"
  /\ Goto(r, IF seen[r] = NoTicket THEN "done" ELSE "getUser")
  /\ UNCHANGED <<now, db, expires, sent, req, queue, seen, errors, issued, before>>

Refuse(r) ==
  /\ pc[r] = "refuse"
  /\ Goto(r, "refused")
  /\ UNCHANGED <<now, db, expires, sent, req, queue, seen, errors, issued, before>>

(* getUser: users are never removed. *)
GetUser(r) ==
  /\ pc[r] = "getUser"
  /\ Goto(r, "granted")
  /\ UNCHANGED <<now, db, expires, sent, req, queue, seen, errors, issued, before>>

Init ==
  /\ now = 0 /\ errors = 0
  /\ active = {} /\ verified = {} /\ links = {} /\ used = {} /\ sent = {} /\ issued = {}
  /\ expires = [r \in Reqs |-> 0]
  /\ req = [r \in Reqs |-> Blank] /\ pc = [r \in Reqs |-> "idle"]
  /\ queue = [r \in Reqs |-> {}] /\ seen = [r \in Reqs |-> NoTicket]
  /\ before = [r \in Reqs |-> {}]

Ask(r)   == FindUser(r) \/ FindCodes(r) \/ Deactivate(r) \/ Erase(r) \/ Insert(r) \/ SendMail(r)
Check(r) == FindCode(r) \/ Retire(r) \/ MarkVerified(r) \/ MarkInactive(r) \/ FindLink(r) \/ MarkUsed(r)
Close(r) == Log(r) \/ Refuse(r) \/ GetUser(r)

(* Nothing is asked for: the server waits. *)
Rest == InFlight = {} /\ UNCHANGED vars

Next == Tick \/ Rest \/ \E r \in Reqs : Start(r) \/ Fail(r) \/ Ask(r) \/ Check(r) \/ Close(r)

Spec == Init /\ [][Next]_vars

-----------------------------------------------------------------------------
(* Properties *)

Steps == {"idle", "findUser", "findCodes", "deactivate", "erase", "insert", "mail", "findCode",
          "retire", "markVerified", "markInactive", "findLink", "markUsed", "log", "refuse",
          "getUser"} \cup Ended

(* The rows are those of stored tickets, a verified code was presented, and *)
(* a used link is still a row.                                              *)
TypeOK ==
  /\ now \in 0..MaxTime /\ errors \in 0..MaxErrors
  /\ active \subseteq Codes /\ verified \subseteq Codes
  /\ links \subseteq issued \ Codes /\ used \subseteq links
  /\ issued \subseteq Reqs /\ sent \subseteq issued
  /\ expires \in [Reqs -> Nat]
  /\ req \in [Reqs -> [kind : AllKinds \cup {"none"}, user : Users \cup {NoUser},
                       item : Reqs \cup {NoTicket}]]
  /\ pc \in [Reqs -> Steps]
  /\ queue \in [Reqs -> SUBSET Reqs]
  /\ seen \in [Reqs -> Reqs \cup {NoTicket}]
  /\ before \in [Reqs -> SUBSET Reqs]

(* A new code switches the earlier ones off and a new link removes them, in   *)
(* statements of their own.  So a user has two open codes, or two links, only *)
(* when the requests for them ran at the same time: neither had ended when    *)
(* the other one started, even if one of them failed halfway.                 *)
OneOpenTicketUnlessRaced ==
  \A s, t \in active \cup links :
    (s # t /\ req[s].kind = req[t].kind /\ User(s) = User(t)) => s \notin before[t]

(* A user who presents a ticket that was mailed is refused only for a cause:   *)
(* it is too old, another request for that user's tickets ran with the one     *)
(* that made it or after it, or another check of the same ticket was not       *)
(* refused.  A wrong guess by someone else is no cause, and neither is a code  *)
(* asked for and answered earlier.                                             *)
Superseded(t) ==
  \E q \in Reqs \ {t} : pc[q] # "idle" /\ q \notin before[t]
                        /\ req[q].kind = req[t].kind /\ User(q) = User(t)
RefusedForACause ==
  \A r \in Reqs : LET t == req[r].item IN
    (/\ pc[r] = "refused" /\ t # NoTicket
     /\ req[r].kind = "checkCode" => req[t].kind = "askCode" /\ User(t) = User(r)
     /\ req[r].kind = "checkLink" => req[t].kind = "askLink")
    => \/ now > expires[t]
       \/ Superseded(t)
       \/ \E q \in Reqs \ {r} : seen[q] = t

(* The tickets keep the promise of OneTimeTicket: a ticket is live while its *)
(* row would be accepted, a check looks at it when it finds it so, and the   *)
(* sign-in is answered only after the row was closed.                        *)
Live == {t \in active \cup (links \ used) : now <= expires[t]}

Ticket == INSTANCE OneTimeTicket WITH
  Tickets <- Reqs, Checks <- Reqs, NoTicket <- NoTicket,
  issued <- issued, live <- Live, looked <- seen,
  granted <- {r \in Reqs : pc[r] = "granted"}

ImplementsTicket == Ticket!Spec
=============================================================================
