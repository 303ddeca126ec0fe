--------------------------- MODULE Notifications ----------------------------
(***************************************************************************)
(* What users are told: the inbox, the settings row of each user, the push *)
(* subscriptions, the dispatcher and the hourly reminders, as the services *)
(* of src/src/modules/notification keep them.                              *)
(*                                                                         *)
(* A request (or a run of the scheduler) is a process and an action is one *)
(* database statement, or one call of the push service, with the local     *)
(* code up to the next await.  Rows are removed for good, and save(row)    *)
(* writes every column of the row as it was loaded: it updates the row of  *)
(* that id, and inserts it again when it is gone.                          *)
(***************************************************************************)
EXTENDS Integers, FiniteSets

CONSTANTS
  Users,
  NoUser,         \* nobody: an address without a subscription
  Endpoints,      \* web push endpoints: unique in push_subscriptions
  Tokens,         \* FCM tokens of mobile devices: not unique
  Switches,       \* the switches of a settings row this instance tells apart
  Kinds,          \* the request kinds of this instance
  MaxRequests,    \* bound: number of requests
  MaxInFlight,    \* bound: requests served at the same time
  MaxErrors       \* bound: statements that fail

(* "due" is on while dailyReminderTime lies in the hour the scheduler runs at. *)
AllSwitches == {"group", "daily", "push", "due"}

ReqKinds == {"news", "remind", "patch", "show", "read", "readAll", "delete", "subscribe", "unsubscribe"}

ASSUME NotificationsAssumption ==
  /\ NoUser \notin Users \cup Endpoints \cup Tokens /\ Endpoints \cap Tokens = {}
  /\ Kinds \subseteq ReqKinds
  /\ Switches \subseteq AllSwitches /\ "off" \notin Switches
  /\ MaxRequests \in Nat /\ MaxInFlight \in Nat /\ MaxErrors \in Nat

Reqs      == 1..MaxRequests
Addresses == Endpoints \cup Tokens
NoRow     == {"off"}                  \* no settings row: no set of switches
Defaults  == AllSwitches              \* every column of the row defaults to on

VARIABLES
  settings,   \* notification_settings: the switches that are on, or NoRow
  inbox,      \* notifications; the one request r creates for u is <<r, u>>
  unread,     \* those of them with isRead = false
  subs,       \* push_subscriptions; id: the request that inserted the row
  req, pc,    \* what each request asks for, the statement it is about to execute
  queue,      \* users a request has still to dispatch to
  at,         \* the user it is dispatching to
  got,        \* the switches it loaded
  rows,       \* the subscriptions it loaded and has not pushed to
  cur,        \* the subscription it has loaded, or pushed to, and will write back
  errors,     \* statements that have failed
  (* History variables: no action reads them. *)
  asked,      \* the switches each user has set, the defaults changed by every update
  owner,      \* who last subscribed each address, NoUser after it was taken out
  crossed,    \* users and addresses changed while another request held a copy
  wasOn,      \* users whose switch was on, off at a time while the request ran
  wasOff,
  created,    \* inbox rows ever created
  missed,     \* users to whom a request could not dispatch because of an error
  erased,     \* inbox rows that were removed
  holders     \* for each of them, the requests that held a copy at that time

db    == <<settings, inbox, unread, subs>>
local == <<req, pc, queue, at, got, rows, cur, errors>>
hist  == <<asked, owner, crossed, wasOn, wasOff, created, missed, erased, holders>>
vars  == <<settings, inbox, unread, subs, req, pc, queue, at, got, rows, cur, errors,
           asked, owner, crossed, wasOn, wasOff, created, missed, erased, holders>>

NoSub    == [id |-> 0, user |-> NoUser, addr |-> NoUser]
Asks(k, S, s, b, i) == [kind |-> k, users |-> S, switch |-> s, on |-> b, item |-> i]
Names(k, S, i) == Asks(k, S, "off", FALSE, i)
Blank    == Names("none", {}, NoUser)
Ended    == {"done", "failed"}
InFlight == {r \in Reqs : pc[r] \notin Ended \cup {"idle"}}
Goto(r, s) == pc' = [pc EXCEPT ![r] = s]

(* The switch of the type of notification a request dispatches. *)
TypeSwitch(k) == IF k = "remind" THEN "daily" ELSE "group"

IsOn(row, s) == row = NoRow \/ s \in row

-----------------------------------------------------------------------------
(* Requests.  An operator named Bug... is a seeded fault that stands beside   *)
(* the definition it would replace; nothing uses it.                         *)

Requests(k) ==
  CASE k = "news" -> {Names(k, S, NoUser) : S \in (SUBSET Users) \ {{}}}
    [] k = "remind" -> {Names(k, {}, NoUser)}
    [] k = "patch" -> {Asks(k, {u}, s, b, NoUser) : u \in Users, s \in Switches, b \in BOOLEAN}
    [] k \in {"read", "delete"} -> {Names(k, {n[2]}, n) : n \in created}
    [] k \in {"subscribe", "unsubscribe"} -> {Names(k, {u}, a) : u \in Users, a \in Addresses}
    [] OTHER -> {Names(k, {u}, NoUser) : u \in Users}

FirstStatement(k) ==
  CASE k \in {"news", "patch", "show"} -> "find"
    [] k = "remind" -> "due"
    [] OTHER -> k

(* Users whose switch is on or off now, kept for the requests that dispatch. *)
Now(k, isOn) ==
  IF k \in {"news", "remind"} THEN {u \in Users : IsOn(settings[u], TypeSwitch(k)) = isOn} ELSE {}

(* at: the user dispatched to first; for the other kinds the user who asks. *)
Start(r) ==
  /\ pc[r] = "idle"
  /\ \A q \in Reqs : q < r => pc[q] # "idle"
  /\ Cardinality(InFlight) < MaxInFlight
  /\ \E k \in Kinds : \E q \in Requests(k) : \E u \in q.users \cup {NoUser} :
       /\ u = NoUser <=> q.users = {}
       /\ req' = [req EXCEPT ![r] = q]
       /\ at' = [at EXCEPT ![r] = u]
       /\ queue' = [queue EXCEPT ![r] = q.users \ {u}]
       /\ Goto(r, FirstStatement(k))
       /\ wasOn'  = [wasOn  EXCEPT ![r] = Now(k, TRUE)]
       /\ wasOff' = [wasOff EXCEPT ![r] = Now(k, FALSE)]
  /\ UNCHANGED <<db, got, rows, cur, errors, asked, owner, crossed, created, missed, erased, holders>>

-----------------------------------------------------------------------------
(* Moving on: to the next user of a dispatch, or to the end *)

NextUser(r) ==
  \/ /\ queue[r] = {}
     /\ Goto(r, "done") /\ UNCHANGED <<queue, at>>
  \/ \E u \in queue[r] :
       /\ at' = [at EXCEPT ![r] = u]
       /\ queue' = [queue EXCEPT ![r] = @ \ {u}]
       /\ Goto(r, "find")

BugReminderStops(r) ==
  /\ missed' = [missed EXCEPT ![r] = @ \cup {at[r]}]
  /\ rows' = [rows EXCEPT ![r] = {}]
  /\ cur' = [cur EXCEPT ![r] = NoSub]
  /\ Goto(r, "failed") /\ UNCHANGED <<queue, at>>

(* An error leaves the handler.  The scheduler catches it and goes on with   *)
(* the next user; dispatchToMultipleUsers does not.                          *)
Fail(r) ==
  /\ missed' = [missed EXCEPT ![r] = @ \cup {at[r]}]
  /\ rows' = [rows EXCEPT ![r] = {}]
  /\ cur' = [cur EXCEPT ![r] = NoSub]
  /\ IF req[r].kind = "remind" /\ pc[r] # "due" THEN NextUser(r)
     ELSE Goto(r, "failed") /\ UNCHANGED <<queue, at>>

-----------------------------------------------------------------------------
(* Settings *)

BugNotifyAll(r, row) == TRUE

(* isNotificationEnabled *)
Enabled(r, row) == TypeSwitch(req[r].kind) \in row

(* What follows getSettings, which returned row. *)
WithSettings(r, row) ==
  /\ got' = [got EXCEPT ![r] = row]
  /\ CASE req[r].kind = "patch" -> Goto(r, "savePatch") /\ UNCHANGED <<queue, at>>
       [] req[r].kind = "show" -> Goto(r, "done") /\ UNCHANGED <<queue, at>>
       [] OTHER -> IF Enabled(r, row) THEN Goto(r, "again") /\ UNCHANGED <<queue, at>>
                   ELSE NextUser(r)

(* getSettings: find the row, or go and insert the defaults. *)
FindSettings(r) ==
  /\ pc[r] = "find"
  /\ IF settings[at[r]] = NoRow
     THEN Goto(r, "insert") /\ UNCHANGED <<queue, at, got>>
     ELSE WithSettings(r, settings[at[r]])
  /\ UNCHANGED <<db, req, rows, cur, errors, hist>>

(* userId is unique: the second of two inserts throws. *)
InsertSettings(r) ==
  /\ pc[r] = "insert"
  /\ IF settings[at[r]] = NoRow
     THEN /\ settings' = [settings EXCEPT ![at[r]] = Defaults]
          /\ WithSettings(r, Defaults)
          /\ UNCHANGED <<rows, cur, missed>>
     ELSE Fail(r) /\ UNCHANGED <<settings, got>>
  /\ UNCHANGED <<inbox, unread, subs, req, errors, asked, owner, crossed, wasOn, wasOff, created,
                 erased, holders>>

Change(row, q) == IF q.on THEN row \cup {q.switch} ELSE row \ {q.switch}

BugFreshRow(r) == Change(Defaults, req[r])

(* Object.assign(settings, updates): the row as it was loaded, changed. *)
Patched(r) == Change(got[r], req[r])

Watches(q, row, isOn) ==
  /\ q \in InFlight /\ req[q].kind \in {"news", "remind"}
  /\ IsOn(row, TypeSwitch(req[q].kind)) = isOn

SavePatch(r) ==
  LET u == at[r] IN
  /\ pc[r] = "savePatch"
  /\ settings' = [settings EXCEPT ![u] = Patched(r)]
  /\ asked' = [asked EXCEPT ![u] = Change(@, req[r])]
  /\ crossed' = IF \E q \in Reqs \ {r} : pc[q] = "savePatch" /\ at[q] = u
                THEN crossed \cup {u} ELSE crossed
  /\ wasOn'  = [q \in Reqs |-> wasOn[q] \cup IF Watches(q, settings'[u], TRUE) THEN {u} ELSE {}]
  /\ wasOff' = [q \in Reqs |-> wasOff[q] \cup IF Watches(q, settings'[u], FALSE) THEN {u} ELSE {}]
  /\ Goto(r, "done")
  /\ UNCHANGED <<inbox, unread, subs, req, queue, at, got, rows, cur, errors, owner, created, missed,
                 erased, holders>>

-----------------------------------------------------------------------------
(* The scheduler and the dispatcher *)

(* Users with the reminder on and due; users without a settings row are not found. *)
FindDue(r) ==
  /\ pc[r] = "due"
  /\ LET due == {u \in Users : settings[u] # NoRow /\ {"daily", "due"} \subseteq settings[u]} IN
       /\ req' = [req EXCEPT ![r] = Names("remind", due, NoUser)]
       /\ \/ due = {} /\ Goto(r, "done") /\ UNCHANGED <<at, queue>>
          \/ \E u \in due : /\ at' = [at EXCEPT ![r] = u]
                            /\ queue' = [queue EXCEPT ![r] = due \ {u}]
                            /\ Goto(r, "find")
  /\ UNCHANGED <<db, got, rows, cur, errors, hist>>

(* dispatch loads the settings a second time, for the channels. *)
ReloadSettings(r) ==
  /\ pc[r] = "again"
  /\ got' = [got EXCEPT ![r] = settings[at[r]]]
  /\ Goto(r, "create")
  /\ UNCHANGED <<db, req, queue, at, rows, cur, errors, hist>>

(* The inbox row, and the e-mail, whose errors EmailNotificationService keeps to itself. *)
CreateNotification(r) ==
  /\ pc[r] = "create"
  /\ inbox' = inbox \cup {<<r, at[r]>>}
  /\ unread' = unread \cup {<<r, at[r]>>}
  /\ created' = created \cup {<<r, at[r]>>}
  /\ IF "push" \in got[r] THEN Goto(r, "subscriptions") /\ UNCHANGED <<queue, at>> ELSE NextUser(r)
  /\ UNCHANGED <<settings, subs, req, got, rows, cur, errors, asked, owner, crossed, wasOn, wasOff,
                 missed, erased, holders>>

NextSubscription(r, left) ==
  /\ rows' = [rows EXCEPT ![r] = left]
  /\ cur' = [cur EXCEPT ![r] = NoSub]
  /\ IF left = {} THEN NextUser(r) ELSE Goto(r, "push") /\ UNCHANGED <<queue, at>>

FindSubscriptions(r) ==
  /\ pc[r] = "subscriptions"
  /\ NextSubscription(r, {s \in subs : s.user = at[r]})
  /\ UNCHANGED <<db, req, got, errors, hist>>

(* The push service answers; mobile platforms are not sent to at all.  After *)
(* a success the row is saved with its timestamp, one the service does not  *)
(* know is dropped, and after any other error the loop goes on.             *)
Push(r) ==
  /\ pc[r] = "push"
  /\ \E s \in rows[r] :
       \/ /\ rows' = [rows EXCEPT ![r] = @ \ {s}]
          /\ cur' = [cur EXCEPT ![r] = s]
          /\ \E next \in IF s.addr \in Endpoints THEN {"savePushed", "drop"} ELSE {"savePushed"} :
               Goto(r, next)
          /\ UNCHANGED <<queue, at>>
       \/ s.addr \in Endpoints /\ NextSubscription(r, rows[r] \ {s})
  /\ UNCHANGED <<db, req, got, errors, hist>>

-----------------------------------------------------------------------------
(* Push subscriptions *)

BugNoIndex(s) == FALSE

(* The unique index on endpoint refuses this row. *)
Refused(s) == s.addr \in Endpoints /\ \E t \in subs : t.addr = s.addr /\ t.id # s.id

Upsert(s) == {t \in subs : t.id # s.id} \cup {s}

Holds(q, a) ==
  (\E s \in rows[q] \cup {cur[q]} : s.addr = a) \/ (pc[q] = "saveSubscription" /\ req[q].item = a)

(* History: address a now belongs to u. *)
Owned(r, a, u) ==
  /\ owner' = [owner EXCEPT ![a] = u]
  /\ crossed' = IF \E q \in Reqs \ {r} : Holds(q, a) THEN crossed \cup {a} ELSE crossed

SavePushed(r) ==
  /\ pc[r] = "savePushed"
  /\ subs' = IF Refused(cur[r]) THEN subs ELSE Upsert(cur[r])
  /\ NextSubscription(r, rows[r])
  /\ UNCHANGED <<settings, inbox, unread, req, got, errors, hist>>

DropSubscription(r) ==
  /\ pc[r] = "drop"
  /\ subs' = {s \in subs : s.id # cur[r].id}
  /\ Owned(r, cur[r].addr, NoUser)
  /\ NextSubscription(r, rows[r])
  /\ UNCHANGED <<settings, inbox, unread, req, got, errors, asked, wasOn, wasOff, created, missed,
                 erased, holders>>

(* findOne by endpoint or token, whoever it belongs to. *)
Known(r) == {s \in subs : s.addr = req[r].item}

FindSubscription(r) ==
  /\ pc[r] = "subscribe"
  /\ \E s \in IF Known(r) = {} THEN {NoSub} ELSE Known(r) : cur' = [cur EXCEPT ![r] = s]
  /\ Goto(r, "saveSubscription")
  /\ UNCHANGED <<db, req, queue, at, got, rows, errors, hist>>

BugKeepOwner(r) == IF cur[r] = NoSub THEN [id |-> r, user |-> at[r], addr |-> req[r].item] ELSE cur[r]

(* A new row, or the row found, moved to the caller. *)
Subscription(r) ==
  [id |-> IF cur[r] = NoSub THEN r ELSE cur[r].id, user |-> at[r], addr |-> req[r].item]

SaveSubscription(r) ==
  /\ pc[r] = "saveSubscription"
  /\ IF Refused(Subscription(r))
     THEN Fail(r) /\ UNCHANGED <<subs, owner, crossed>>
     ELSE /\ subs' = Upsert(Subscription(r))
          /\ Owned(r, req[r].item, at[r])
          /\ cur' = [cur EXCEPT ![r] = NoSub]
          /\ Goto(r, "done") /\ UNCHANGED <<queue, at, rows, missed>>
  /\ UNCHANGED <<settings, inbox, unread, req, got, errors, asked, wasOn, wasOff, created, erased, holders>>

Unsubscribe(r) ==
  LET a == req[r].item IN
  /\ pc[r] = "unsubscribe"
  /\ subs' = {s \in subs : s.user # at[r] \/ s.addr # a}
  /\ IF owner[a] = at[r] THEN Owned(r, a, NoUser) ELSE UNCHANGED <<owner, crossed>>
  /\ Goto(r, "done")
  /\ UNCHANGED <<settings, inbox, unread, req, queue, at, got, rows, cur, errors,
                 asked, wasOn, wasOff, created, missed, erased, holders>>

-----------------------------------------------------------------------------
(* The inbox *)

BugWithErased(n) == n \in created

Stored(n) == n \in inbox

FindUnread(r) ==
  /\ pc[r] = "read"
  /\ Goto(r, IF Stored(req[r].item) THEN "saveRead" ELSE "done")
  /\ UNCHANGED <<db, req, queue, at, got, rows, cur, errors, hist>>

(* save of the row as it was loaded, now read. *)
SaveRead(r) ==
  /\ pc[r] = "saveRead"
  /\ inbox' = inbox \cup {req[r].item}
  /\ unread' = unread \ {req[r].item}
  /\ Goto(r, "done")
  /\ UNCHANGED <<settings, subs, req, queue, at, got, rows, cur, errors, hist>>

MarkAllAsRead(r) ==
  /\ pc[r] = "readAll"
  /\ unread' = {n \in unread : n[2] # at[r]}
  /\ Goto(r, "done")
  /\ UNCHANGED <<settings, inbox, subs, req, queue, at, got, rows, cur, errors, hist>>

Delete(r) ==
  LET n == req[r].item IN
  /\ pc[r] = "delete"
  /\ inbox' = inbox \ {n}
  /\ unread' = unread \ {n}
  /\ erased' = erased \cup {n}
  /\ holders' = [holders EXCEPT ![n] = {q \in Reqs : pc[q] = "saveRead" /\ req[q].item = n}]
  /\ Goto(r, "done")
  /\ UNCHANGED <<settings, subs, req, queue, at, got, rows, cur, errors, asked, owner, crossed,
                 wasOn, wasOff, created, missed>>

-----------------------------------------------------------------------------

(* A statement fails.  sendToUser catches the error of a save after a push.  *)
Error(r) ==
  /\ pc[r] \notin Ended \cup {"idle", "push"}
  /\ errors < MaxErrors
  /\ errors' = errors + 1
  /\ IF pc[r] = "savePushed" THEN NextSubscription(r, rows[r]) /\ UNCHANGED missed ELSE Fail(r)
  /\ UNCHANGED <<db, req, got, asked, owner, crossed, wasOn, wasOff, created, erased, holders>>

Rest == (\A r \in Reqs : pc[r] \in Ended) /\ UNCHANGED vars

Init ==
  /\ settings = [u \in Users |-> NoRow]
  /\ inbox = {} /\ unread = {} /\ subs = {}
  /\ req = [r \in Reqs |-> Blank] /\ pc = [r \in Reqs |-> "idle"]
  /\ queue = [r \in Reqs |-> {}] /\ at = [r \in Reqs |-> NoUser]
  /\ got = [r \in Reqs |-> {}]
  /\ rows = [r \in Reqs |-> {}] /\ cur = [r \in Reqs |-> NoSub]
  /\ errors = 0
  /\ asked = [u \in Users |-> Defaults]
  /\ owner = [a \in Addresses |-> NoUser]
  /\ crossed = {}
  /\ wasOn = [r \in Reqs |-> {}] /\ wasOff = [r \in Reqs |-> {}]
  /\ created = {} /\ missed = [r \in Reqs |-> {}]
  /\ erased = {} /\ holders = [n \in Reqs \X Users |-> {}]

Statement(r) ==
  \/ FindSettings(r) \/ InsertSettings(r) \/ SavePatch(r)
  \/ FindDue(r) \/ ReloadSettings(r) \/ CreateNotification(r)
  \/ FindSubscriptions(r) \/ Push(r) \/ SavePushed(r) \/ DropSubscription(r)
  \/ FindSubscription(r) \/ SaveSubscription(r) \/ Unsubscribe(r)
  \/ FindUnread(r) \/ SaveRead(r) \/ MarkAllAsRead(r) \/ Delete(r)

Next == Rest \/ \E r \in Reqs : Start(r) \/ Statement(r) \/ Error(r)

Spec == Init /\ [][Next]_vars

-----------------------------------------------------------------------------
(* Properties *)

Statements == {"find", "insert", "savePatch", "due", "again", "create", "subscriptions", "push",
               "savePushed", "drop", "subscribe", "saveSubscription", "unsubscribe", "read", "saveRead",
               "readAll", "delete"}
SettingsRow  == SUBSET AllSwitches
Subscriptions == [id : Reqs, user : Users, addr : Addresses]
Note == Reqs \X Users
Request == [kind : ReqKinds \cup {"none"}, users : SUBSET Users, switch : AllSwitches \cup {"off"},
            on : BOOLEAN, item : Note \cup Addresses \cup {NoUser}]

(* Rows have the columns of the entities, and the unique indexes hold. *)
TypeOK ==
  /\ settings \in [Users -> SettingsRow \cup {NoRow}]
  /\ unread \subseteq inbox /\ inbox \subseteq created /\ created \subseteq Note
  /\ subs \subseteq Subscriptions
  /\ \A s, t \in subs : s.id = t.id \/ (s.addr = t.addr /\ s.addr \in Endpoints) => s = t
  /\ req \in [Reqs -> Request]
  /\ pc \in [Reqs -> Statements \cup Ended \cup {"idle"}]
  /\ queue \in [Reqs -> SUBSET Users]
  /\ at \in [Reqs -> Users \cup {NoUser}]
  /\ got \in [Reqs -> SettingsRow]
  /\ rows \in [Reqs -> SUBSET Subscriptions]
  /\ cur \in [Reqs -> Subscriptions \cup {NoSub}]
  /\ errors \in 0..MaxErrors
  /\ asked \in [Users -> SettingsRow] /\ owner \in [Addresses -> Users \cup {NoUser}]
  /\ crossed \subseteq Users \cup Addresses
  /\ wasOn \in [Reqs -> SUBSET Users] /\ wasOff \in [Reqs -> SUBSET Users]
  /\ missed \in [Reqs -> SUBSET (Users \cup {NoUser})]
  /\ erased \subseteq Note /\ holders \in [Note -> SUBSET Reqs]

(* The settings of a user are the defaults with every change they asked for,  *)
(* however the row came to be, unless two of their changes overlapped (the   *)
(* row is loaded, changed and written back whole).                           *)
SettingsAsAsked == \A u \in Users \ crossed : settings[u] # NoRow => settings[u] = asked[u]

(* A push address belongs to the user who subscribed it last, and to nobody   *)
(* after it was unsubscribed or dropped, unless a request held a copy of the *)
(* row at the time: sendToUser saves what it loaded before the push.         *)
AddressesAsAsked ==
  \A a \in Addresses \ crossed : {s.user : s \in {t \in subs : t.addr = a}} = {owner[a]} \ {NoUser}

(* A notification is created only for a user whose switch for it was on at    *)
(* some time while the request ran.                                          *)
NoNewsWhileOff == \A n \in created : n[2] \in wasOn[n[1]]

(* A request that dispatched to several users has told each of them, except   *)
(* one whose switch was off at some time meanwhile or for whom a statement   *)
(* failed; a run of the scheduler ends only after it tried everyone due.     *)
NewsReachesEveryone ==
  \A r \in Reqs :
    \/ pc[r] = "done" /\ req[r].kind \in {"news", "remind"}
    \/ pc[r] = "failed" /\ req[r].kind = "remind"
    => \A u \in req[r].users \ missed[r] : <<r, u>> \in created \/ u \in wasOff[r]

(* A deleted notification is back only after a markAsRead that had loaded it  *)
(* before the deletion.                                                      *)
DeletedStaysDeleted ==
  \A n \in erased \cap inbox : \E q \in holders[n] : pc[q] = "done"
=============================================================================
