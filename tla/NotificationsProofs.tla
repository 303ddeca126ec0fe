------------------------ MODULE NotificationsProofs ------------------------
(***************************************************************************)
(* Theorems about Notifications, for any users, addresses, switches and    *)
(* bounds, and any number of requests and errors: the tables, what users   *)
(* have set and subscribed, and who is told.                               *)
(*                                                                         *)
(* Typed says which request reaches which statement with what.  On it      *)
(* rest, independently of each other, Settled for the rows of settings,    *)
(* Told for the dispatches and Addressed for the push subscriptions;       *)
(* Erasures, for the deleted notifications, rests on Told.                 *)
(***************************************************************************)
EXTENDS Notifications, TLAPS

Dispatches == {"news", "remind"}
Telling    == {"again", "create", "subscriptions", "push", "savePushed", "drop"}

(* Which requests come to which statements.                                  *)
MayBeAt(q, s) ==
  /\ s = "idle" <=> q.kind = "none"
  /\ s \in {"find", "insert"} => q.kind \in Dispatches \cup {"patch", "show"}
  /\ s = "savePatch" => q.kind = "patch"
  /\ s = "due" => q.kind = "remind"
  /\ s \in Telling => q.kind \in Dispatches
  /\ s \in {"subscribe", "saveSubscription"} => q.kind = "subscribe"
  /\ s \in {"read", "saveRead"} => q.kind = "read"
  /\ s \in {"unsubscribe", "readAll", "delete"} => q.kind = s

(* What a request of each kind names.                                        *)
Named(q) ==
  /\ q.kind = "patch" => q.switch \in AllSwitches
  /\ q.kind \in {"subscribe", "unsubscribe"} => q.item \in Addresses
  /\ q.kind \in {"read", "delete"} => q.item \in created

Control ==
  \A r \in Reqs : /\ Named(req[r]) /\ MayBeAt(req[r], pc[r])
                  /\ pc[r] \in Statements \ {"due"} => at[r] \in Users
                  /\ pc[r] = "due" => req[r].users = {}
                  /\ pc[r] = "again" => settings[at[r]] # NoRow
                  /\ pc[r] \in {"savePushed", "drop"} => cur[r] \in Subscriptions

Typed == TypeOK /\ Control

-----------------------------------------------------------------------------
(* Requests and their way through the handler *)

Sent(k) == {q \in Request : q.kind = k /\ Named(q) /\ (k = "remind" => q.users = {})
                            /\ (q.users = {} => k = "remind")}

LEMMA AsksTypes ==
  ASSUME NEW k \in ReqKinds, NEW S \in SUBSET Users, NEW s \in AllSwitches \cup {"off"}, NEW b \in BOOLEAN,
         NEW i \in Note \cup Addresses \cup {NoUser},
         S = {} <=> k = "remind", k = "patch" => s \in AllSwitches,
         k \in {"subscribe", "unsubscribe"} => i \in Addresses, k \in {"read", "delete"} => i \in created
  PROVE  Asks(k, S, s, b, i) \in Sent(k)
  BY DEF Asks, Sent, Request, Named

LEMMA NamesTypes ==
  ASSUME NEW k \in ReqKinds, NEW S \in SUBSET Users, NEW i \in Note \cup Addresses \cup {NoUser},
         S = {} <=> k = "remind", k # "patch",
         k \in {"subscribe", "unsubscribe"} => i \in Addresses, k \in {"read", "delete"} => i \in created
  PROVE  Names(k, S, i) \in Sent(k)
  BY AsksTypes DEF Names

LEMMA NewsRequests == Requests("news") = {Names("news", S, NoUser) : S \in (SUBSET Users) \ {{}}}
  BY DEF Requests

LEMMA RemindRequests == Requests("remind") = {Names("remind", {}, NoUser)}
  BY DEF Requests

LEMMA PatchRequests ==
  Requests("patch") = {Asks("patch", {u}, s, b, NoUser) : u \in Users, s \in Switches, b \in BOOLEAN}
  BY DEF Requests

LEMMA NoteRequests ==
  ASSUME NEW k, k = "read" \/ k = "delete"
  PROVE  Requests(k) = {Names(k, {n[2]}, n) : n \in created}
  <1>1. CASE k = "read"
    BY <1>1 DEF Requests
  <1>2. CASE k = "delete"
    BY <1>2 DEF Requests
  <1>3. QED
    BY <1>1, <1>2

LEMMA SubscribeRequests ==
  ASSUME NEW q, q \in Requests("subscribe")
  PROVE  \E u \in Users, a \in Addresses : q = Names("subscribe", {u}, a)
  BY DEF Requests

LEMMA UnsubscribeRequests ==
  ASSUME NEW q, q \in Requests("unsubscribe")
  PROVE  \E u \in Users, a \in Addresses : q = Names("unsubscribe", {u}, a)
  BY DEF Requests

LEMMA UserRequests ==
  ASSUME NEW k, k = "show" \/ k = "readAll"
  PROVE  Requests(k) = {Names(k, {u}, NoUser) : u \in Users}
  <1>1. CASE k = "show"
    BY <1>1 DEF Requests
  <1>2. CASE k = "readAll"
    BY <1>2 DEF Requests
  <1>3. QED
    BY <1>1, <1>2

LEMMA RequestTypes == ASSUME Typed, NEW k \in Kinds, NEW q \in Requests(k) PROVE q \in Sent(k)
  <1>1. k \in ReqKinds
    BY NotificationsAssumption
  <1>2. CASE k = "news"
    <2> PICK S \in (SUBSET Users) \ {{}} : q = Names("news", S, NoUser)
      BY <1>2, NewsRequests
    <2> QED
      BY <1>1, <1>2, NamesTypes
  <1>3. CASE k = "remind"
    BY <1>1, <1>3, RemindRequests, NamesTypes
  <1>4. CASE k = "patch"
    <2> PICK u \in Users, s \in Switches, b \in BOOLEAN : q = Asks("patch", {u}, s, b, NoUser)
      BY <1>4, PatchRequests
    <2> QED
      BY <1>1, <1>4, AsksTypes, NotificationsAssumption
  <1>5. CASE k = "show" \/ k = "readAll"
    <2> PICK u \in Users : q = Names(k, {u}, NoUser)
      BY <1>5, UserRequests
    <2> QED
      BY <1>1, <1>5, NamesTypes
  <1>6. CASE k = "read" \/ k = "delete"
    <2> PICK n \in created : q = Names(k, {n[2]}, n)
      BY <1>6, NoteRequests
    <2>1. n \in Note /\ n[2] \in Users
      BY DEF Typed, TypeOK, Note
    <2> QED
      BY <1>1, <1>6, <2>1, NamesTypes
  <1>7. CASE k = "subscribe"
    <2> PICK u \in Users, a \in Addresses : q = Names("subscribe", {u}, a)
      BY <1>7, SubscribeRequests
    <2> QED
      BY <1>1, <1>7, NamesTypes
  <1>8. CASE k = "unsubscribe"
    <2> PICK u \in Users, a \in Addresses : q = Names("unsubscribe", {u}, a)
      BY <1>8, UnsubscribeRequests
    <2> QED
      BY <1>1, <1>8, NamesTypes
  <1>9. QED
    BY <1>1, <1>2, <1>3, <1>4, <1>5, <1>6, <1>7, <1>8 DEF ReqKinds

(* A statement sends its request to a place it may be at; nobody else moves. *)
Moves(r) ==
  /\ \A q \in Reqs \ {r} : pc'[q] = pc[q] /\ at'[q] = at[q] /\ queue'[q] = queue[q] /\ req'[q] = req[q]
  /\ pc' \in [Reqs -> Statements \cup Ended \cup {"idle"}]
  /\ queue' \in [Reqs -> SUBSET Users] /\ at' \in [Reqs -> Users \cup {NoUser}] /\ req' \in [Reqs -> Request]
  /\ pc'[r] # "due" /\ (pc'[r] \in Statements => at'[r] \in Users)
  /\ MayBeAt(req'[r], pc'[r]) /\ Named(req'[r])

LEMMA NextMoves ==
  ASSUME Typed, NEW r \in Reqs, NextUser(r), req' = req, req[r].kind \in Dispatches
  PROVE  Moves(r) /\ pc'[r] \in {"done", "find"}
  <1>1. CASE Goto(r, "done") /\ UNCHANGED <<queue, at>>
    BY <1>1 DEF Moves, Goto, Typed, TypeOK, Control, Statements, Ended, MayBeAt, Telling, Dispatches
  <1>2. ASSUME NEW u \in queue[r], at' = [at EXCEPT ![r] = u], queue' = [queue EXCEPT ![r] = queue[r] \ {u}], Goto(r, "find")
        PROVE  Moves(r) /\ pc'[r] = "find"
    BY <1>2 DEF Moves, Goto, Typed, TypeOK, Control, Statements, Ended, MayBeAt, Telling, Dispatches
  <1>3. QED
    BY <1>1, <1>2 DEF NextUser

LEMMA StayMoves ==
  ASSUME Typed, NEW r \in Reqs, NEW s \in (Statements \ {"due"}) \cup Ended,
         Goto(r, s), UNCHANGED <<queue, at, req>>, pc[r] \in Statements, MayBeAt(req[r], s),
         pc[r] = "due" => s \in Ended
  PROVE  Moves(r) /\ pc'[r] = s
  BY DEF Moves, Goto, Typed, TypeOK, Control, Statements, Ended

(* An error ends a request, or a run of the scheduler goes on.               *)
LEMMA FailMoves ==
  ASSUME Typed, NEW r \in Reqs, pc[r] \in Statements, Fail(r), req' = req
  PROVE  /\ Moves(r) /\ pc'[r] \in {"failed", "done", "find"}
         /\ rows' \in [Reqs -> SUBSET Subscriptions] /\ cur' \in [Reqs -> Subscriptions \cup {NoSub}]
         /\ missed' \in [Reqs -> SUBSET (Users \cup {NoUser})] /\ \A q \in Reqs : missed[q] \subseteq missed'[q]
         /\ \A q \in Reqs \ {r} : cur'[q] = cur[q] /\ rows'[q] = rows[q]
  <1>1. MayBeAt(req[r], "failed")
    BY DEF Typed, Control, MayBeAt, Statements, Telling
  <1>2. ASSUME req[r].kind = "remind", NextUser(r) PROVE Moves(r) /\ pc'[r] \in {"done", "find"}
    BY <1>2, NextMoves DEF Dispatches
  <1>3. ASSUME Goto(r, "failed"), UNCHANGED <<queue, at>> PROVE Moves(r) /\ pc'[r] = "failed"
    BY <1>1, <1>3, StayMoves DEF Ended
  <1>4. /\ rows' = [rows EXCEPT ![r] = {}] /\ cur' = [cur EXCEPT ![r] = NoSub]
        /\ missed' = [missed EXCEPT ![r] = missed[r] \cup {at[r]}]
    BY DEF Fail
  <1>5. QED
    BY <1>2, <1>3, <1>4 DEF Fail, Typed, TypeOK

LEMMA SettingsMove ==
  ASSUME Typed, NEW r \in Reqs, pc[r] \in {"find", "insert"}, NEW row \in SettingsRow, WithSettings(r, row), req' = req
  PROVE  /\ Moves(r) /\ pc'[r] \in {"savePatch", "done", "again", "find"}
         /\ pc'[r] = "again" => at' = at
         /\ got' \in [Reqs -> SettingsRow] /\ \A q \in Reqs \ {r} : got'[q] = got[q]
  <1>1. /\ got' = [got EXCEPT ![r] = row]
        /\ \/ req[r].kind = "patch" /\ Goto(r, "savePatch") /\ UNCHANGED <<queue, at>>
           \/ req[r].kind = "show" /\ Goto(r, "done") /\ UNCHANGED <<queue, at>>
           \/ req[r].kind \in Dispatches /\ Goto(r, "again") /\ UNCHANGED <<queue, at>>
           \/ req[r].kind \in Dispatches /\ NextUser(r)
    BY DEF WithSettings, Typed, Control, MayBeAt, Dispatches
  <1>2. /\ pc[r] \in Statements /\ pc[r] # "due"
        /\ {"savePatch", "done", "again"} \subseteq (Statements \ {"due"}) \cup Ended
    BY DEF Statements, Ended
  <1>3. CASE req[r].kind = "patch" /\ Goto(r, "savePatch") /\ UNCHANGED <<queue, at>>
    <2>1. MayBeAt(req[r], "savePatch")
      BY <1>3 DEF MayBeAt, Telling
    <2>2. QED
      BY <1>1, <1>2, <1>3, <2>1, StayMoves DEF Typed, TypeOK
  <1>4. CASE req[r].kind = "show" /\ Goto(r, "done") /\ UNCHANGED <<queue, at>>
    <2>1. MayBeAt(req[r], "done")
      BY <1>4 DEF MayBeAt, Telling
    <2>2. QED
      BY <1>1, <1>2, <1>4, <2>1, StayMoves DEF Typed, TypeOK
  <1>5. CASE req[r].kind \in Dispatches /\ Goto(r, "again") /\ UNCHANGED <<queue, at>>
    <2>1. MayBeAt(req[r], "again")
      BY <1>5 DEF MayBeAt, Telling, Dispatches
    <2>2. QED
      BY <1>1, <1>2, <1>5, <2>1, StayMoves DEF Typed, TypeOK
  <1>6. CASE req[r].kind \in Dispatches /\ NextUser(r)
    BY <1>1, <1>6, NextMoves DEF Typed, TypeOK
  <1>7. QED
    BY <1>1, <1>3, <1>4, <1>5, <1>6

LEMMA SubscriptionMove ==
  ASSUME Typed, NEW r \in Reqs, pc[r] \in {"subscriptions", "push", "savePushed", "drop"},
         NEW left \in SUBSET Subscriptions, NextSubscription(r, left), req' = req
  PROVE  /\ Moves(r) /\ pc'[r] \in {"push", "done", "find"}
         /\ rows' \in [Reqs -> SUBSET Subscriptions] /\ cur' \in [Reqs -> Subscriptions \cup {NoSub}]
         /\ \A q \in Reqs \ {r} : cur'[q] = cur[q] /\ rows'[q] = rows[q]
  <1>1. rows' = [rows EXCEPT ![r] = left] /\ cur' = [cur EXCEPT ![r] = NoSub] /\ req[r].kind \in Dispatches
    BY DEF NextSubscription, Typed, Control, MayBeAt, Telling
  <1>2. CASE NextUser(r)
    BY <1>1, <1>2, NextMoves DEF Typed, TypeOK
  <1>3. CASE Goto(r, "push") /\ UNCHANGED <<queue, at>>
    <2>1. MayBeAt(req[r], "push") /\ pc[r] \in Statements \ {"due"} /\ "push" \in Statements \ {"due"}
      BY <1>1 DEF MayBeAt, Telling, Dispatches, Statements
    <2>2. QED
      BY <1>1, <1>3, <2>1, StayMoves DEF Typed, TypeOK
  <1>4. QED
    BY <1>2, <1>3 DEF NextSubscription

-----------------------------------------------------------------------------
(* What a statement keeps *)

Tables ==
  /\ settings \in [Users -> SettingsRow \cup {NoRow}]
  /\ unread \subseteq inbox /\ inbox \subseteq created /\ created \subseteq Note
  /\ subs \subseteq Subscriptions
  /\ \A s, t \in subs : s.id = t.id \/ (s.addr = t.addr /\ s.addr \in Endpoints) => s = t

Copies ==
  /\ got \in [Reqs -> SettingsRow]
  /\ rows \in [Reqs -> SUBSET Subscriptions]
  /\ cur \in [Reqs -> Subscriptions \cup {NoSub}]
  /\ errors \in 0..MaxErrors

Histories ==
  /\ asked \in [Users -> SettingsRow] /\ owner \in [Addresses -> Users \cup {NoUser}]
  /\ crossed \subseteq Users \cup Addresses
  /\ wasOn \in [Reqs -> SUBSET Users] /\ wasOff \in [Reqs -> SUBSET Users]
  /\ missed \in [Reqs -> SUBSET (Users \cup {NoUser})]
  /\ erased \subseteq Note /\ holders \in [Note -> SUBSET Reqs]

LEMMA Parts == TypeOK => Tables /\ Copies /\ Histories
  BY DEF TypeOK, Tables, Copies, Histories

(* No row of settings goes away, a copy is of its request alone, and which    *)
(* statements follow which.                                                  *)
Keeps(r) ==
  /\ \A u \in Users : settings[u] # NoRow => settings'[u] # NoRow
  /\ created \subseteq created' /\ crossed \subseteq crossed'
  /\ \A q \in Reqs \ {r} : got'[q] = got[q] /\ rows'[q] = rows[q] /\ cur'[q] = cur[q]
  /\ \A q \in Reqs : wasOn[q] \subseteq wasOn'[q] /\ wasOff[q] \subseteq wasOff'[q] /\ missed[q] \subseteq missed'[q]
  /\ pc'[r] = "again" => settings'[at'[r]] # NoRow
  /\ pc'[r] \in {"savePushed", "drop"} => cur'[r] \in Subscriptions
  /\ pc'[r] \in {"savePatch", "again"} => pc[r] \in {"find", "insert"}
  /\ pc'[r] = "create" => pc[r] = "again"
  /\ pc'[r] = "saveSubscription" => pc[r] = "subscribe"
  /\ pc'[r] = "saveRead" => pc[r] = "read"

Fits(r) == Moves(r) /\ Keeps(r) /\ Tables' /\ Copies' /\ Histories'

LEMMA FitsTyped == ASSUME Typed, NEW r \in Reqs, Fits(r) PROVE Typed'
  <1>1. TypeOK'
    BY DEF Fits, Moves, Tables, Copies, Histories, TypeOK
  <1>2. ASSUME NEW q \in Reqs
        PROVE  /\ Named(req[q])' /\ MayBeAt(req[q], pc[q])'
               /\ pc'[q] \in Statements \ {"due"} => at'[q] \in Users
               /\ pc'[q] = "due" => req'[q].users = {}
               /\ pc'[q] = "again" => settings'[at'[q]] # NoRow
               /\ pc'[q] \in {"savePushed", "drop"} => cur'[q] \in Subscriptions
    <2>1. CASE q = r
      BY <2>1 DEF Fits, Moves, Keeps, Named, MayBeAt
    <2>2. CASE q # r
      <3>1. pc'[q] = pc[q] /\ at'[q] = at[q] /\ req'[q] = req[q] /\ cur'[q] = cur[q]
        BY <2>2 DEF Fits, Moves, Keeps
      <3>2. Named(req[q])' /\ MayBeAt(req[q], pc[q])'
        BY <3>1 DEF Fits, Keeps, Typed, Control, Named, MayBeAt
      <3>3. pc[q] = "again" => at[q] \in Users
        BY DEF Typed, Control, Statements
      <3>4. QED
        BY <3>1, <3>2, <3>3 DEF Fits, Keeps, Typed, Control
    <2>3. QED
      BY <2>1, <2>2
  <1>3. QED
    BY <1>1, <1>2 DEF Typed, Control

(* save writes a row the unique index does not refuse.                       *)
LEMMA UpsertTypes ==
  ASSUME Typed, NEW s \in Subscriptions, ~Refused(s)
  PROVE  /\ Upsert(s) \subseteq Subscriptions
         /\ \A t, v \in Upsert(s) : t.id = v.id \/ (t.addr = v.addr /\ t.addr \in Endpoints) => t = v
  BY DEF Upsert, Refused, Typed, TypeOK

(* Settings.                                                                 *)
LEMMA SettingsFit ==
  ASSUME Typed, NEW r \in Reqs, FindSettings(r) \/ InsertSettings(r) \/ SavePatch(r)
  PROVE  Fits(r)
  <1>0. Tables /\ Copies /\ Histories /\ \A row \in SettingsRow : row # NoRow
    BY Parts DEF Typed, SettingsRow, NoRow, AllSwitches
  <1>1. CASE FindSettings(r)
    <2>1. pc[r] = "find" /\ at[r] \in Users /\ UNCHANGED <<db, req, rows, cur, errors, hist>>
      BY <1>1 DEF FindSettings, Typed, Control, Statements
    <2>2. CASE settings[at[r]] = NoRow
      <3>1. Goto(r, "insert") /\ UNCHANGED <<queue, at, got>>
        BY <1>1, <2>2 DEF FindSettings
      <3>2. /\ MayBeAt(req[r], "insert") /\ pc[r] \in Statements /\ pc[r] # "due"
            /\ "insert" \in Statements \ {"due"}
        BY <2>1 DEF Typed, Control, MayBeAt, Statements, Telling
      <3>3. Moves(r) /\ pc'[r] = "insert"
        BY <2>1, <3>1, <3>2, StayMoves
      <3>4. QED
        BY <1>0, <2>1, <3>1, <3>3 DEF Fits, Keeps, db, hist, Tables, Copies, Histories
    <2>3. CASE settings[at[r]] # NoRow
      <3>1. WithSettings(r, settings[at[r]]) /\ settings[at[r]] \in SettingsRow
        BY <1>0, <1>1, <2>1, <2>3 DEF FindSettings, Tables
      <3>2. /\ Moves(r) /\ pc'[r] \in {"savePatch", "done", "again", "find"}
            /\ pc'[r] = "again" => at' = at
            /\ got' \in [Reqs -> SettingsRow] /\ \A q \in Reqs \ {r} : got'[q] = got[q]
        BY <2>1, <3>1, SettingsMove
      <3>3. QED
        BY <1>0, <2>1, <2>3, <3>2 DEF Fits, Keeps, db, hist, Tables, Copies, Histories
    <2>4. QED
      BY <2>2, <2>3
  <1>2. CASE InsertSettings(r)
    <2>1. /\ pc[r] = "insert" /\ at[r] \in Users
          /\ UNCHANGED <<inbox, unread, subs, req, errors, asked, owner, crossed, wasOn, wasOff, created, erased, holders>>
      BY <1>2 DEF InsertSettings, Typed, Control, Statements
    <2>2. CASE settings[at[r]] = NoRow
      <3>1. /\ settings' = [settings EXCEPT ![at[r]] = Defaults]
            /\ WithSettings(r, Defaults) /\ UNCHANGED <<rows, cur, missed>>
        BY <1>2, <2>2 DEF InsertSettings
      <3>2. Defaults \in SettingsRow
        BY DEF Defaults, SettingsRow
      <3>3. /\ Moves(r) /\ pc'[r] \in {"savePatch", "done", "again", "find"}
            /\ pc'[r] = "again" => at' = at
            /\ got' \in [Reqs -> SettingsRow] /\ \A q \in Reqs \ {r} : got'[q] = got[q]
        BY <2>1, <3>1, <3>2, SettingsMove
      <3>4. /\ settings' \in [Users -> SettingsRow \cup {NoRow}] /\ settings'[at[r]] # NoRow
            /\ \A u \in Users : settings[u] # NoRow => settings'[u] # NoRow
        BY <1>0, <2>1, <3>1, <3>2 DEF Tables
      <3>5. QED
        BY <1>0, <2>1, <3>1, <3>3, <3>4 DEF Fits, Keeps, Tables, Copies, Histories
    <2>3. CASE settings[at[r]] # NoRow
      <3>1. Fail(r) /\ UNCHANGED <<settings, got>> /\ pc[r] \in Statements
        BY <1>2, <2>1, <2>3 DEF InsertSettings, Statements
      <3>2. QED
        BY <1>0, <2>1, <3>1, FailMoves DEF Fits, Keeps, Tables, Copies, Histories
    <2>4. QED
      BY <2>2, <2>3
  <1>3. CASE SavePatch(r)
    <2>1. /\ pc[r] = "savePatch" /\ at[r] \in Users /\ Goto(r, "done")
          /\ UNCHANGED <<inbox, unread, subs, req, queue, at, got, rows, cur, errors, owner, created, missed,
                         erased, holders>>
      BY <1>3 DEF SavePatch, Typed, Control, Statements
    <2>2. req[r].switch \in AllSwitches /\ req[r].kind = "patch" /\ got[r] \in SettingsRow
      BY <2>1, <1>0 DEF Typed, Control, MayBeAt, Named, Copies
    <2>3. Moves(r) /\ pc'[r] = "done"
      <3>1. MayBeAt(req[r], "done") /\ pc[r] \in Statements /\ pc[r] # "due" /\ "done" \in Ended
        BY <2>1, <2>2 DEF MayBeAt, Statements, Telling, Ended
      <3>2. QED
        BY <2>1, <3>1, StayMoves
    <2>4. \A row \in SettingsRow : Change(row, req[r]) \in SettingsRow
      BY <2>2 DEF Change, SettingsRow
    <2>5. /\ settings' = [settings EXCEPT ![at[r]] = Change(got[r], req[r])]
          /\ asked' = [asked EXCEPT ![at[r]] = Change(asked[at[r]], req[r])]
      BY <1>3 DEF SavePatch, Patched
    <2>6. settings' \in [Users -> SettingsRow \cup {NoRow}] /\ asked' \in [Users -> SettingsRow]
      BY <1>0, <2>1, <2>2, <2>4, <2>5 DEF Tables, Histories
    <2>7. \A u \in Users : settings[u] # NoRow => settings'[u] # NoRow
      BY <1>0, <2>1, <2>2, <2>4, <2>5 DEF Tables
    <2>8. crossed' \subseteq Users \cup Addresses /\ crossed \subseteq crossed'
      BY <1>0, <1>3, <2>1 DEF SavePatch, Histories
    <2>9. /\ wasOn' \in [Reqs -> SUBSET Users] /\ wasOff' \in [Reqs -> SUBSET Users]
          /\ \A q \in Reqs : wasOn[q] \subseteq wasOn'[q] /\ wasOff[q] \subseteq wasOff'[q]
      BY <1>0, <1>3, <2>1 DEF SavePatch, Histories
    <2>10. Keeps(r)
      BY <1>0, <2>1, <2>3, <2>6, <2>7, <2>8, <2>9 DEF Keeps, Tables, Copies, Histories
    <2>11. Tables' /\ Copies' /\ Histories'
      BY <1>0, <2>1, <2>3, <2>6, <2>7, <2>8, <2>9 DEF Tables, Copies, Histories
    <2>12. QED
      BY <1>0, <2>1, <2>3, <2>6, <2>7, <2>8, <2>9, <2>10, <2>11 DEF Fits
  <1>4. QED
    BY <1>1, <1>2, <1>3

(* The dispatcher, up to the subscriptions.                                  *)
LEMMA DispatchFits ==
  ASSUME Typed, NEW r \in Reqs, FindDue(r) \/ ReloadSettings(r) \/ CreateNotification(r)
  PROVE  Fits(r)
  <1>0. Tables /\ Copies /\ Histories
    BY Parts DEF Typed
  <1>1. CASE FindDue(r)
    <2>1. pc[r] = "due" /\ UNCHANGED <<db, got, rows, cur, errors, hist>> /\ req[r].kind = "remind"
      BY <1>1 DEF FindDue, Typed, Control, MayBeAt
    <2>2. PICK due \in SUBSET Users :
            /\ req' = [req EXCEPT ![r] = Names("remind", due, NoUser)]
            /\ \/ Goto(r, "done") /\ UNCHANGED <<at, queue>>
               \/ \E u \in due : /\ at' = [at EXCEPT ![r] = u]
                                 /\ queue' = [queue EXCEPT ![r] = due \ {u}]
                                 /\ Goto(r, "find")
      <3> DEFINE due == {u \in Users : settings[u] # NoRow /\ {"daily", "due"} \subseteq settings[u]}
      <3>1. due \in SUBSET Users
        OBVIOUS
      <3>2. QED
        BY <1>1, <3>1 DEF FindDue
    <2>3. Names("remind", due, NoUser) \in Request /\ Named(Names("remind", due, NoUser))
      BY DEF Names, Asks, Request, ReqKinds, Named
    <2>4. \A s \in {"done", "find"} : MayBeAt(Names("remind", due, NoUser), s)
      BY DEF Names, Asks, MayBeAt, Telling, Dispatches
    <2>5. Moves(r) /\ pc'[r] \in {"done", "find"}
      BY <2>1, <2>2, <2>3, <2>4 DEF Moves, Goto, Typed, TypeOK, Statements, Ended
    <2>6. QED
      BY <1>0, <2>1, <2>5 DEF Fits, Keeps, db, hist, Tables, Copies, Histories
  <1>2. CASE ReloadSettings(r)
    <2>1. /\ pc[r] = "again" /\ at[r] \in Users /\ Goto(r, "create") /\ settings[at[r]] # NoRow
          /\ got' = [got EXCEPT ![r] = settings[at[r]]]
          /\ UNCHANGED <<db, req, queue, at, rows, cur, errors, hist>>
      BY <1>2 DEF ReloadSettings, Typed, Control, Statements
    <2>2. /\ MayBeAt(req[r], "create") /\ pc[r] \in Statements /\ pc[r] # "due"
          /\ "create" \in Statements \ {"due"}
      BY <2>1 DEF Typed, Control, MayBeAt, Statements, Telling, Dispatches
    <2>3. Moves(r) /\ pc'[r] = "create"
      BY <2>1, <2>2, StayMoves
    <2>4. got' \in [Reqs -> SettingsRow]
      BY <1>0, <2>1 DEF Tables, Copies
    <2>5. QED
      BY <1>0, <2>1, <2>3, <2>4 DEF Fits, Keeps, db, hist, Tables, Copies, Histories
  <1>3. CASE CreateNotification(r)
    <2>1. /\ pc[r] = "create" /\ at[r] \in Users
          /\ inbox' = inbox \cup {<<r, at[r]>>} /\ unread' = unread \cup {<<r, at[r]>>}
          /\ created' = created \cup {<<r, at[r]>>}
          /\ UNCHANGED <<settings, subs, req, got, rows, cur, errors, asked, owner, crossed, wasOn, wasOff,
                         missed, erased, holders>>
      BY <1>3 DEF CreateNotification, Typed, Control, Statements
    <2>2. req[r].kind \in Dispatches /\ pc[r] \in Statements
      BY <2>1 DEF Typed, Control, MayBeAt, Statements, Telling
    <2>3. Moves(r) /\ pc'[r] \in {"subscriptions", "done", "find"}
      <3>1. CASE Goto(r, "subscriptions") /\ UNCHANGED <<queue, at>>
        <4>1. MayBeAt(req[r], "subscriptions") /\ "subscriptions" \in Statements \ {"due"}
          BY <2>2 DEF MayBeAt, Statements, Telling, Dispatches
        <4>2. QED
          BY <2>1, <2>2, <3>1, <4>1, StayMoves
      <3>2. CASE NextUser(r)
        BY <2>1, <2>2, <3>2, NextMoves
      <3>3. QED
        BY <1>3, <3>1, <3>2 DEF CreateNotification
    <2>4. QED
      BY <1>0, <2>1, <2>3 DEF Fits, Keeps, Tables, Copies, Histories, Note
  <1>4. QED
    BY <1>1, <1>2, <1>3

(* A dispatch to the subscriptions of a user.                                *)
LEMMA PushFits ==
  ASSUME Typed, NEW r \in Reqs, FindSubscriptions(r) \/ Push(r) \/ SavePushed(r) \/ DropSubscription(r)
  PROVE  Fits(r)
  <1>0. Tables /\ Copies /\ Histories /\ rows[r] \in SUBSET Subscriptions
    BY Parts DEF Typed, Copies
  <1>1. CASE FindSubscriptions(r)
    <2> DEFINE left == {s \in subs : s.user = at[r]}
    <2>1. pc[r] = "subscriptions" /\ NextSubscription(r, left) /\ UNCHANGED <<db, req, got, errors, hist>>
      BY <1>1 DEF FindSubscriptions
    <2>2. left \in SUBSET Subscriptions
      BY <1>0 DEF Tables
    <2>3. QED
      BY <1>0, <2>1, <2>2, SubscriptionMove DEF Fits, Keeps, db, hist, Tables, Copies, Histories
  <1>2. CASE Push(r)
    <2>1. pc[r] = "push" /\ UNCHANGED <<db, req, got, errors, hist>>
      BY <1>2 DEF Push
    <2>2. PICK s \in rows[r] :
            \/ /\ rows' = [rows EXCEPT ![r] = rows[r] \ {s}]
               /\ cur' = [cur EXCEPT ![r] = s]
               /\ Goto(r, "savePushed") \/ Goto(r, "drop")
               /\ UNCHANGED <<queue, at>>
            \/ NextSubscription(r, rows[r] \ {s})
      BY <1>2 DEF Push
    <2>3. s \in Subscriptions /\ rows[r] \ {s} \in SUBSET Subscriptions
      BY <1>0
    <2>4. CASE NextSubscription(r, rows[r] \ {s})
      BY <1>0, <2>1, <2>3, <2>4, SubscriptionMove DEF Fits, Keeps, db, hist, Tables, Copies, Histories
    <2>5. CASE /\ rows' = [rows EXCEPT ![r] = rows[r] \ {s}]
               /\ cur' = [cur EXCEPT ![r] = s]
               /\ Goto(r, "savePushed") \/ Goto(r, "drop")
               /\ UNCHANGED <<queue, at>>
      <3>1. PICK t \in {"savePushed", "drop"} : Goto(r, t)
        BY <2>5
      <3>2. MayBeAt(req[r], t) /\ t \in Statements \ {"due"} /\ pc[r] \in Statements /\ pc[r] # "due"
        BY <2>1 DEF Typed, Control, MayBeAt, Telling, Dispatches, Statements
      <3>3. Moves(r) /\ pc'[r] = t
        BY <2>1, <2>5, <3>1, <3>2, StayMoves
      <3>4. /\ rows' \in [Reqs -> SUBSET Subscriptions] /\ cur' \in [Reqs -> Subscriptions \cup {NoSub}]
            /\ cur'[r] \in Subscriptions /\ \A q \in Reqs \ {r} : cur'[q] = cur[q] /\ rows'[q] = rows[q]
        BY <1>0, <2>3, <2>5 DEF Copies
      <3>5. Keeps(r)
        BY <1>0, <2>1, <3>3, <3>4 DEF Keeps, db, hist, Tables, Copies, Histories
      <3>6. Tables' /\ Copies' /\ Histories'
        BY <1>0, <2>1, <3>3, <3>4 DEF db, hist, Tables, Copies, Histories
      <3>7. QED
        BY <1>0, <2>1, <3>3, <3>4, <3>5, <3>6 DEF Fits
    <2>6. QED
      BY <2>2, <2>4, <2>5
  <1>3. CASE SavePushed(r)
    <2>1. /\ pc[r] = "savePushed" /\ cur[r] \in Subscriptions /\ NextSubscription(r, rows[r])
          /\ UNCHANGED <<settings, inbox, unread, req, got, errors, hist>>
      BY <1>3 DEF SavePushed, Typed, Control
    <2>2. Tables'
      BY <1>0, <1>3, <2>1, UpsertTypes DEF SavePushed, hist, Tables
    <2>3. QED
      BY <1>0, <2>1, <2>2, SubscriptionMove DEF Fits, Keeps, hist, Copies, Histories
  <1>4. CASE DropSubscription(r)
    <2>1. /\ pc[r] = "drop" /\ cur[r] \in Subscriptions /\ NextSubscription(r, rows[r])
          /\ subs' \subseteq subs
          /\ UNCHANGED <<settings, inbox, unread, req, got, errors, asked, wasOn, wasOff, created, missed,
                         erased, holders>>
      BY <1>4 DEF DropSubscription, Typed, Control
    <2>2. /\ owner' \in [Addresses -> Users \cup {NoUser}]
          /\ crossed' \subseteq Users \cup Addresses /\ crossed \subseteq crossed'
      BY <1>0, <1>4, <2>1 DEF DropSubscription, Owned, Histories, Subscriptions
    <2>3. Keeps(r)
      BY <1>0, <2>1, <2>2, SubscriptionMove DEF Keeps, Tables, Copies, Histories
    <2>4. Tables' /\ Copies' /\ Histories'
      BY <1>0, <2>1, <2>2, SubscriptionMove DEF Tables, Copies, Histories
    <2>5. QED
      BY <1>0, <2>1, <2>2, SubscriptionMove, <2>3, <2>4 DEF Fits
  <1>5. QED
    BY <1>1, <1>2, <1>3, <1>4

(* Subscriptions.                                                            *)
LEMMA SubscriptionsFit ==
  ASSUME Typed, NEW r \in Reqs, FindSubscription(r) \/ SaveSubscription(r) \/ Unsubscribe(r)
  PROVE  Fits(r)
  <1>0. Tables /\ Copies /\ Histories
    BY Parts DEF Typed
  <1>1. CASE FindSubscription(r)
    <2>1. /\ pc[r] = "subscribe" /\ Goto(r, "saveSubscription")
          /\ UNCHANGED <<db, req, queue, at, got, rows, errors, hist>>
      BY <1>1 DEF FindSubscription
    <2>2. PICK s \in Subscriptions \cup {NoSub} : cur' = [cur EXCEPT ![r] = s]
      BY <1>0, <1>1 DEF FindSubscription, Known, Tables
    <2>3. /\ MayBeAt(req[r], "saveSubscription") /\ pc[r] \in Statements /\ pc[r] # "due"
          /\ "saveSubscription" \in Statements \ {"due"}
      BY <2>1 DEF Typed, Control, MayBeAt, Statements, Telling, Dispatches
    <2>4. Moves(r) /\ pc'[r] = "saveSubscription"
      BY <2>1, <2>3, StayMoves
    <2>5. QED
      BY <1>0, <2>1, <2>2, <2>4 DEF Fits, Keeps, db, hist, Tables, Copies, Histories
  <1>2. CASE SaveSubscription(r)
    <2>1. /\ pc[r] = "saveSubscription" /\ at[r] \in Users /\ pc[r] \in Statements /\ pc[r] # "due"
          /\ req[r].kind = "subscribe" /\ req[r].item \in Addresses
          /\ UNCHANGED <<settings, inbox, unread, req, got, errors, asked, wasOn, wasOff, created, erased, holders>>
      BY <1>2 DEF SaveSubscription, Typed, Control, MayBeAt, Named, Statements
    <2>2. CASE Refused(Subscription(r))
      <3>1. Fail(r) /\ UNCHANGED <<subs, owner, crossed>>
        BY <1>2, <2>2 DEF SaveSubscription
      <3>2. QED
        BY <1>0, <2>1, <3>1, FailMoves DEF Fits, Keeps, Tables, Copies, Histories
    <2>3. CASE ~Refused(Subscription(r))
      <3>1. /\ subs' = Upsert(Subscription(r)) /\ Owned(r, req[r].item, at[r])
            /\ cur' = [cur EXCEPT ![r] = NoSub]
            /\ Goto(r, "done") /\ UNCHANGED <<queue, at, rows, missed>>
        BY <1>2, <2>3 DEF SaveSubscription
      <3>2. Subscription(r) \in Subscriptions
        BY <1>0, <2>1 DEF Subscription, Subscriptions, Copies
      <3>3. Tables'
        BY <1>0, <2>1, <2>3, <3>1, <3>2, UpsertTypes DEF Tables
      <3>4. /\ owner' \in [Addresses -> Users \cup {NoUser}]
            /\ crossed' \subseteq Users \cup Addresses /\ crossed \subseteq crossed'
        BY <1>0, <2>1, <3>1 DEF Owned, Histories
      <3>5. Moves(r) /\ pc'[r] = "done"
        <4>1. MayBeAt(req[r], "done") /\ "done" \in Ended
          BY <2>1 DEF MayBeAt, Telling, Ended
        <4>2. QED
          BY <2>1, <3>1, <4>1, StayMoves
      <3>6. Keeps(r)
        BY <1>0, <2>1, <3>1, <3>3, <3>4, <3>5 DEF Keeps, Copies, Histories
      <3>7. Tables' /\ Copies' /\ Histories'
        BY <1>0, <2>1, <3>1, <3>3, <3>4, <3>5 DEF Copies, Histories
      <3>8. QED
        BY <1>0, <2>1, <3>1, <3>3, <3>4, <3>5, <3>6, <3>7 DEF Fits
    <2>4. QED
      BY <2>2, <2>3
  <1>3. CASE Unsubscribe(r)
    <2>1. /\ pc[r] = "unsubscribe" /\ at[r] \in Users /\ pc[r] \in Statements /\ pc[r] # "due"
          /\ req[r].kind = "unsubscribe" /\ req[r].item \in Addresses /\ Goto(r, "done") /\ subs' \subseteq subs
          /\ UNCHANGED <<settings, inbox, unread, req, queue, at, got, rows, cur, errors,
                         asked, wasOn, wasOff, created, missed, erased, holders>>
      BY <1>3 DEF Unsubscribe, Typed, Control, MayBeAt, Named, Statements
    <2>2. Moves(r) /\ pc'[r] = "done"
      <3>1. MayBeAt(req[r], "done") /\ "done" \in Ended
        BY <2>1 DEF MayBeAt, Telling, Ended
      <3>2. QED
        BY <2>1, <3>1, StayMoves
    <2>3. /\ owner' \in [Addresses -> Users \cup {NoUser}]
          /\ crossed' \subseteq Users \cup Addresses /\ crossed \subseteq crossed'
      BY <1>0, <1>3, <2>1 DEF Unsubscribe, Owned, Histories
    <2>4. Keeps(r)
      BY <1>0, <2>1, <2>2, <2>3 DEF Keeps, Tables, Copies, Histories
    <2>5. Tables' /\ Copies' /\ Histories'
      BY <1>0, <2>1, <2>2, <2>3 DEF Tables, Copies, Histories
    <2>6. QED
      BY <1>0, <2>1, <2>2, <2>3, <2>4, <2>5 DEF Fits
  <1>4. QED
    BY <1>1, <1>2, <1>3

(* The inbox.                                                                *)
LEMMA InboxFits ==
  ASSUME Typed, NEW r \in Reqs, FindUnread(r) \/ SaveRead(r) \/ MarkAllAsRead(r) \/ Delete(r)
  PROVE  Fits(r)
  <1>0. Tables /\ Copies /\ Histories
    BY Parts DEF Typed
  <1>1. \E s \in {"saveRead", "done"} : Goto(r, s) /\ (s = "saveRead" => pc[r] = "read")
    BY DEF FindUnread, SaveRead, MarkAllAsRead, Delete
  <1>2. PICK s \in {"saveRead", "done"} : Goto(r, s) /\ (s = "saveRead" => pc[r] = "read")
    BY <1>1
  <1>3. /\ pc[r] \in Statements /\ pc[r] # "due" /\ UNCHANGED <<queue, at, req>>
        /\ UNCHANGED <<settings, subs, got, rows, cur, errors, asked, owner, crossed, wasOn, wasOff, created, missed>>
    BY DEF FindUnread, SaveRead, MarkAllAsRead, Delete, Statements, db, hist
  <1>4. MayBeAt(req[r], s) /\ s \in (Statements \ {"due"}) \cup Ended
    BY <1>2, <1>3 DEF Typed, Control, MayBeAt, Telling, Dispatches, Statements, Ended
  <1>5. Moves(r) /\ pc'[r] = s
    BY <1>2, <1>3, <1>4, StayMoves
  <1>6. pc[r] \in {"saveRead", "delete"} => req[r].item \in created
    BY DEF Typed, Control, MayBeAt, Named
  <1>7. /\ unread' \subseteq inbox' /\ inbox' \subseteq created
        /\ erased' \subseteq Note /\ holders' \in [Note -> SUBSET Reqs]
    <2>1. CASE FindUnread(r) \/ MarkAllAsRead(r)
      BY <1>0, <2>1 DEF FindUnread, MarkAllAsRead, db, hist, Tables, Histories
    <2>2. CASE SaveRead(r)
      BY <1>0, <1>6, <2>2 DEF SaveRead, hist, Tables, Histories
    <2>3. CASE Delete(r)
      BY <1>0, <1>6, <2>3 DEF Delete, Tables, Histories
    <2>4. QED
      BY <2>1, <2>2, <2>3
  <1>8. QED
    BY <1>0, <1>2, <1>3, <1>5, <1>7 DEF Fits, Keeps, Tables, Copies, Histories

LEMMA ErrorFits == ASSUME Typed, NEW r \in Reqs, Error(r) PROVE Fits(r)
  <1>0. Tables /\ Copies /\ Histories
    BY Parts DEF Typed
  <1>1. /\ pc[r] \in Statements \ {"push"} /\ errors' \in 0..MaxErrors
        /\ UNCHANGED <<db, req, got, asked, owner, crossed, wasOn, wasOff, created, erased, holders>>
    BY <1>0, NotificationsAssumption DEF Error, Typed, TypeOK, Copies
  <1>2. CASE pc[r] = "savePushed"
    <2>1. NextSubscription(r, rows[r]) /\ UNCHANGED missed /\ rows[r] \in SUBSET Subscriptions
      BY <1>0, <1>2 DEF Error, Copies
    <2>2. QED
      BY <1>0, <1>1, <1>2, <2>1, SubscriptionMove DEF Fits, Keeps, db, Tables, Copies, Histories
  <1>3. CASE pc[r] # "savePushed"
    <2>1. Fail(r)
      BY <1>3 DEF Error
    <2>2. QED
      BY <1>0, <1>1, <2>1, FailMoves DEF Fits, Keeps, db, Tables, Copies, Histories
  <1>4. QED
    BY <1>2, <1>3

LEMMA StatementFits == ASSUME Typed, NEW r \in Reqs, Statement(r) PROVE Fits(r)
  BY SettingsFit, DispatchFits, PushFits, SubscriptionsFit, InboxFits DEF Statement

(* A request starts, alone: what it asks for is what its kind can ask for.   *)
Starts(r) ==
  /\ pc[r] = "idle" /\ pc'[r] \in Statements /\ pc' \in [Reqs -> Statements \cup Ended \cup {"idle"}]
  /\ \A q \in Reqs \ {r} : pc'[q] = pc[q] /\ at'[q] = at[q] /\ queue'[q] = queue[q] /\ req'[q] = req[q]
  /\ \A q \in Reqs : q < r => pc[q] # "idle"
  /\ req' \in [Reqs -> Request] /\ Named(req'[r]) /\ MayBeAt(req'[r], pc'[r])
  /\ at' \in [Reqs -> Users \cup {NoUser}] /\ queue' \in [Reqs -> SUBSET Users]
  /\ pc'[r] = FirstStatement(req'[r].kind)
  /\ pc'[r] = "due" => req'[r].users = {}
  /\ IF pc'[r] = "due" THEN at'[r] = NoUser /\ queue'[r] = {}
     ELSE at'[r] \in req'[r].users /\ queue'[r] = req'[r].users \ {at'[r]}
  /\ wasOn'  = [wasOn  EXCEPT ![r] = Now(req'[r].kind, TRUE)]
  /\ wasOff' = [wasOff EXCEPT ![r] = Now(req'[r].kind, FALSE)]
  /\ UNCHANGED <<db, got, rows, cur, errors, asked, owner, crossed, created, missed, erased, holders>>

Sends(r, k, q, u) ==
  /\ u = NoUser <=> q.users = {}
  /\ req' = [req EXCEPT ![r] = q]
  /\ at' = [at EXCEPT ![r] = u]
  /\ queue' = [queue EXCEPT ![r] = q.users \ {u}]
  /\ Goto(r, FirstStatement(k))
  /\ wasOn'  = [wasOn  EXCEPT ![r] = Now(k, TRUE)]
  /\ wasOff' = [wasOff EXCEPT ![r] = Now(k, FALSE)]

LEMMA StartStarts == ASSUME Typed, NEW r \in Reqs, Start(r) PROVE Starts(r)
  <1>1. PICK k \in Kinds : \E q \in Requests(k) : \E u \in q.users \cup {NoUser} : Sends(r, k, q, u)
    BY DEF Start, Sends
  <1>2. PICK q \in Requests(k) : \E u \in q.users \cup {NoUser} : Sends(r, k, q, u)
    BY <1>1
  <1>3. PICK u \in q.users \cup {NoUser} : Sends(r, k, q, u)
    BY <1>2
  <1>4. /\ q \in Request /\ q.kind = k /\ Named(q) /\ k \in ReqKinds /\ q.users \in SUBSET Users
        /\ q.users = {} <=> k = "remind"
    BY RequestTypes, NotificationsAssumption DEF Sent, Request
  <1>5. /\ FirstStatement(k) \in Statements /\ MayBeAt(q, FirstStatement(k))
        /\ FirstStatement(k) = "due" <=> k = "remind"
    BY <1>4 DEF FirstStatement, ReqKinds, Statements, MayBeAt, Telling, Dispatches
  <1>6. /\ pc[r] = "idle" /\ \A p \in Reqs : p < r => pc[p] # "idle"
        /\ UNCHANGED <<db, got, rows, cur, errors, asked, owner, crossed, created, missed, erased, holders>>
    BY DEF Start
  <1>7. pc' = [pc EXCEPT ![r] = FirstStatement(k)]
    BY <1>3 DEF Goto, Sends
  <1>8. pc'[r] = FirstStatement(k) /\ req'[r] = q /\ at'[r] = u /\ queue'[r] = q.users \ {u}
    BY <1>3, <1>7 DEF Typed, TypeOK, Sends
  <1>9. /\ pc' \in [Reqs -> Statements \cup Ended \cup {"idle"}] /\ req' \in [Reqs -> Request]
        /\ at' \in [Reqs -> Users \cup {NoUser}] /\ queue' \in [Reqs -> SUBSET Users]
        /\ \A p \in Reqs \ {r} : pc'[p] = pc[p] /\ at'[p] = at[p] /\ queue'[p] = queue[p] /\ req'[p] = req[p]
    BY <1>3, <1>4, <1>5, <1>7 DEF Typed, TypeOK, Sends
  <1>10. QED
    BY <1>3, <1>4, <1>5, <1>6, <1>8, <1>9 DEF Starts, Sends

LEMMA FirstStatements ==
  ASSUME NEW r \in Reqs, Starts(r)
  PROVE  pc'[r] \in {"find", "due", "read", "readAll", "delete", "subscribe", "unsubscribe"}
  BY DEF Starts, FirstStatement, Request, ReqKinds, Statements

LEMMA StartTyped == ASSUME Typed, NEW r \in Reqs, Starts(r) PROVE Typed'
  <1>0. Tables /\ Copies /\ Histories
    BY Parts DEF Typed
  <1>1. Now(req'[r].kind, TRUE) \in SUBSET Users /\ Now(req'[r].kind, FALSE) \in SUBSET Users
    BY DEF Now
  <1>2. Tables' /\ Copies' /\ Histories'
    BY <1>0, <1>1 DEF Starts, db, Tables, Copies, Histories
  <1>3. TypeOK'
    BY <1>2 DEF Starts, Tables, Copies, Histories, TypeOK
  <1>4. ASSUME NEW q \in Reqs
        PROVE  /\ Named(req[q])' /\ MayBeAt(req[q], pc[q])'
               /\ pc'[q] \in Statements \ {"due"} => at'[q] \in Users
               /\ pc'[q] = "due" => req'[q].users = {}
               /\ pc'[q] = "again" => settings'[at'[q]] # NoRow
               /\ pc'[q] \in {"savePushed", "drop"} => cur'[q] \in Subscriptions
    <2>1. settings' = settings /\ created' = created /\ cur' = cur
      BY DEF Starts, db
    <2>2. CASE q = r
      <3>1. pc'[r] \notin {"again", "savePushed", "drop"}
        BY DEF Starts, FirstStatement, Request, ReqKinds
      <3>2. req'[r].users \in SUBSET Users
        BY DEF Starts, Request
      <3>3. QED
        BY <2>1, <2>2, <3>1, <3>2 DEF Starts, Named, MayBeAt
    <2>3. CASE q # r
      <3>1. pc'[q] = pc[q] /\ at'[q] = at[q] /\ req'[q] = req[q]
        BY <2>3 DEF Starts
      <3>2. Named(req[q])' /\ MayBeAt(req[q], pc[q])'
        BY <2>1, <3>1 DEF Typed, Control, Named, MayBeAt
      <3>3. QED
        BY <2>1, <3>1, <3>2 DEF Typed, Control
    <2>4. QED
      BY <2>2, <2>3
  <1>5. QED
    BY <1>3, <1>4 DEF Typed, Control

LEMMA InitTyped == Init => Typed
  <1> SUFFICES ASSUME Init PROVE Typed
    OBVIOUS
  <1>1. Blank \in Request /\ Named(Blank) /\ MayBeAt(Blank, "idle") /\ Defaults \in SettingsRow
    BY DEF Blank, Names, Asks, Request, ReqKinds, Named, MayBeAt, Telling, Dispatches, Defaults, SettingsRow
  <1>2. TypeOK
    BY <1>1, NotificationsAssumption DEF Init, TypeOK, SettingsRow, Note
  <1>3. Control
    BY <1>1 DEF Init, Control, Statements
  <1>4. QED
    BY <1>2, <1>3 DEF Typed

LEMMA NextTyped == Typed /\ [Next]_vars => Typed'
  <1> SUFFICES ASSUME Typed, [Next]_vars PROVE Typed'
    OBVIOUS
  <1>1. ASSUME NEW r \in Reqs, Start(r) PROVE Typed'
    BY <1>1, StartStarts, StartTyped
  <1>2. ASSUME NEW r \in Reqs, Statement(r) \/ Error(r) PROVE Typed'
    BY <1>2, StatementFits, ErrorFits, FitsTyped
  <1>3. CASE UNCHANGED vars
    BY <1>3 DEF vars, Typed, TypeOK, Control, Named, MayBeAt
  <1>4. QED
    BY <1>1, <1>2, <1>3 DEF Next, Rest

LEMMA AlwaysTyped == Spec => []Typed
  BY InitTyped, NextTyped, PTL DEF Spec

(* Requests reach only statements of their own with what those statements     *)
(* need: the tables keep the columns of the entities and their unique        *)
(* indexes through every interleaving.                                       *)
THEOREM TypeCorrect == Spec => []TypeOK
  <1>1. Typed => TypeOK
    BY DEF Typed
  <1>2. QED
    BY <1>1, AlwaysTyped, PTL

-----------------------------------------------------------------------------
(* What users have set *)

(* A user without a row has set nothing, and a row that a patch has loaded is *)
(* what the user asked for until then.                                       *)
Loaded ==
  /\ \A u \in Users : settings[u] = NoRow => asked[u] = Defaults
  /\ \A r \in Reqs : pc[r] = "savePatch" => at[r] \in crossed \/ got[r] = asked[at[r]]

Settled == Loaded /\ SettingsAsAsked

(* Only two statements write a row of settings.                              *)
LEMMA SettingsStay ==
  ASSUME Typed, NEW r \in Reqs, Statement(r) \/ Error(r), ~InsertSettings(r), ~SavePatch(r)
  PROVE  UNCHANGED <<settings, asked>>
  BY DEF Statement, Error, FindSettings, FindDue, ReloadSettings, CreateNotification, FindSubscriptions, Push, SavePushed,
         DropSubscription, FindSubscription, SaveSubscription, Unsubscribe, FindUnread, SaveRead, MarkAllAsRead,
         Delete, db, hist

(* and only getSettings leads to a statement that uses one.                  *)
LEMMA NoOtherLoads ==
  ASSUME Typed, NEW r \in Reqs, Statement(r) \/ Error(r), ~FindSettings(r), ~InsertSettings(r)
  PROVE  pc'[r] \notin {"savePatch", "again"}
  <1>1. CASE Error(r)
    <2>1. CASE Fail(r)
      BY <2>1 DEF Fail, NextUser, Goto, Typed, TypeOK
    <2>2. CASE NextSubscription(r, rows[r])
      BY <2>2 DEF NextSubscription, NextUser, Goto, Typed, TypeOK
    <2>3. QED
      BY <1>1, <2>1, <2>2 DEF Error
  <1>2. CASE Statement(r)
    <2>1. pc[r] \notin {"find", "insert"}
      BY <1>2 DEF Statement, FindSettings, InsertSettings, SavePatch, FindDue, ReloadSettings, CreateNotification,
                  FindSubscriptions, Push, SavePushed, DropSubscription, FindSubscription, SaveSubscription,
                  Unsubscribe, FindUnread, SaveRead, MarkAllAsRead, Delete
    <2>2. QED
      BY <1>2, <2>1, StatementFits DEF Fits, Keeps
  <1>3. QED
    BY <1>1, <1>2

LEMMA FindSettled == ASSUME Typed, Settled, NEW r \in Reqs, FindSettings(r) PROVE Settled'
  <1>1. Fits(r) /\ UNCHANGED <<settings, asked, crossed>> /\ at[r] \in Users
    BY SettingsFit DEF FindSettings, db, hist, Typed, Control, Statements
  <1>2. ASSUME pc'[r] = "savePatch" PROVE at'[r] = at[r] /\ settings[at[r]] # NoRow /\ got'[r] = settings[at[r]]
    <2>1. settings[at[r]] # NoRow /\ WithSettings(r, settings[at[r]])
      BY <1>2 DEF FindSettings, Goto, Typed, TypeOK
    <2>2. got'[r] = settings[at[r]]
      BY <2>1 DEF WithSettings, Typed, TypeOK
    <2>3. at' = at
      BY <1>2, <2>1 DEF WithSettings, NextUser, Goto, Typed, TypeOK
    <2>4. QED
      BY <2>1, <2>2, <2>3
  <1>3. \A q \in Reqs : pc'[q] = "savePatch" => at'[q] \in crossed' \/ got'[q] = asked'[at'[q]]
    BY <1>1, <1>2 DEF Fits, Moves, Keeps, Settled, Loaded, SettingsAsAsked
  <1>4. QED
    BY <1>1, <1>3 DEF Settled, Loaded, SettingsAsAsked

LEMMA InsertSettled == ASSUME Typed, Settled, NEW r \in Reqs, InsertSettings(r) PROVE Settled'
  <1>1. Fits(r) /\ UNCHANGED <<asked, crossed>> /\ at[r] \in Users
    BY SettingsFit DEF InsertSettings, Typed, Control, Statements
  <1>2. CASE settings[at[r]] = NoRow
    <2>1. /\ settings' = [settings EXCEPT ![at[r]] = Defaults] /\ WithSettings(r, Defaults)
          /\ asked[at[r]] = Defaults
      BY <1>1, <1>2 DEF InsertSettings, Settled, Loaded
    <2>2. pc'[r] = "savePatch" => at'[r] = at[r] /\ got'[r] = Defaults
      BY <2>1 DEF WithSettings, NextUser, Goto, Typed, TypeOK
    <2>3. \A u \in Users : settings'[u] = IF u = at[r] THEN Defaults ELSE settings[u]
      BY <2>1 DEF Typed, TypeOK
    <2>4. \A u \in Users : /\ settings'[u] = NoRow => asked[u] = Defaults
                           /\ u \notin crossed /\ settings'[u] # NoRow => settings'[u] = asked[u]
      BY <2>1, <2>3 DEF Settled, Loaded, SettingsAsAsked
    <2>5. \A q \in Reqs : pc'[q] = "savePatch" => at'[q] \in crossed' \/ got'[q] = asked'[at'[q]]
      BY <1>1, <2>1, <2>2 DEF Fits, Moves, Keeps, Settled, Loaded
    <2>6. QED
      BY <1>1, <2>4, <2>5 DEF Settled, Loaded, SettingsAsAsked
  <1>3. CASE settings[at[r]] # NoRow
    <2>1. settings' = settings /\ Fail(r)
      BY <1>3 DEF InsertSettings
    <2>2. pc'[r] # "savePatch"
      BY <2>1 DEF Fail, NextUser, Goto, Typed, TypeOK
    <2>3. QED
      BY <1>1, <2>1, <2>2 DEF Fits, Moves, Keeps, Settled, Loaded, SettingsAsAsked
  <1>4. QED
    BY <1>2, <1>3

LEMMA SaveSettled == ASSUME Typed, Settled, NEW r \in Reqs, SavePatch(r) PROVE Settled'
  <1>1. /\ Fits(r) /\ pc'[r] = "done" /\ pc[r] = "savePatch" /\ at[r] \in Users /\ crossed \subseteq crossed'
        /\ \A q \in Reqs \ {r} : pc[q] = "savePatch" /\ at[q] = at[r] => at[r] \in crossed'
    BY SettingsFit DEF SavePatch, Goto, Typed, TypeOK, Control, Statements
  <1>2. \A u \in Users : /\ settings'[u] = IF u = at[r] THEN Change(got[r], req[r]) ELSE settings[u]
                         /\ asked'[u] = IF u = at[r] THEN Change(asked[u], req[r]) ELSE asked[u]
    BY <1>1 DEF SavePatch, Patched, Typed, TypeOK
  <1>3. settings'[at[r]] # NoRow
    <2>1. got[r] \in SettingsRow /\ req[r].switch \in AllSwitches
      BY <1>1 DEF Typed, TypeOK, Control, MayBeAt, Named
    <2>2. Change(got[r], req[r]) \in SettingsRow
      BY <2>1 DEF Change, SettingsRow
    <2>3. QED
      BY <1>1, <1>2, <2>2 DEF SettingsRow, NoRow, AllSwitches
  <1>4. at[r] \in crossed \/ got[r] = asked[at[r]]
    BY <1>1 DEF Settled, Loaded
  <1>5. \A u \in Users : settings'[u] = NoRow => asked'[u] = Defaults
    BY <1>2, <1>3 DEF Settled, Loaded
  <1>6. \A u \in Users \ crossed' : settings'[u] # NoRow => settings'[u] = asked'[u]
    BY <1>1, <1>2, <1>4 DEF Settled, SettingsAsAsked
  <1>7. ASSUME NEW q \in Reqs, pc'[q] = "savePatch", at'[q] \notin crossed' PROVE got'[q] = asked'[at'[q]]
    <2>1. q # r /\ pc[q] = "savePatch" /\ at'[q] = at[q] /\ got'[q] = got[q]
      BY <1>1, <1>7 DEF Fits, Moves, Keeps
    <2>2. at[q] \in Users /\ at[q] # at[r] /\ at[q] \notin crossed
      BY <1>1, <1>7, <2>1 DEF Typed, Control, Statements
    <2>3. QED
      BY <1>2, <2>1, <2>2 DEF Settled, Loaded
  <1>8. QED
    BY <1>5, <1>6, <1>7 DEF Settled, Loaded, SettingsAsAsked

LEMMA InitSettled == Init => Settled
  BY DEF Init, Settled, Loaded, SettingsAsAsked

LEMMA NextSettled == Typed /\ Settled /\ [Next]_vars => Settled'
  <1> SUFFICES ASSUME Typed, Settled, [Next]_vars PROVE Settled'
    OBVIOUS
  <1>1. ASSUME NEW r \in Reqs, Start(r) PROVE Settled'
    <2>1. Starts(r) /\ pc'[r] # "savePatch"
      BY <1>1, StartStarts, FirstStatements DEF Starts
    <2>2. UNCHANGED <<settings, asked, crossed, got>>
      BY <2>1 DEF Starts, db
    <2>3. QED
      BY <2>1, <2>2 DEF Starts, Settled, Loaded, SettingsAsAsked
  <1>2. ASSUME NEW r \in Reqs, Statement(r) \/ Error(r), ~FindSettings(r), ~InsertSettings(r), ~SavePatch(r) PROVE Settled'
    <2>1. Fits(r) /\ UNCHANGED <<settings, asked>>
      BY <1>2, StatementFits, ErrorFits, SettingsStay
    <2>2. pc'[r] # "savePatch"
      BY <1>2, <2>1, NoOtherLoads
    <2>3. QED
      BY <2>1, <2>2 DEF Fits, Moves, Keeps, Settled, Loaded, SettingsAsAsked
  <1>3. CASE UNCHANGED vars
    BY <1>3 DEF vars, Settled, Loaded, SettingsAsAsked
  <1>4. QED
    BY <1>1, <1>2, <1>3, FindSettled, InsertSettled, SaveSettled DEF Next, Rest

LEMMA AlwaysSettled == Spec => []Settled
  BY InitSettled, NextSettled, AlwaysTyped, PTL DEF Spec

(* The settings of a user are the defaults with every change they asked for,  *)
(* whoever created the row and whatever failed, unless two of their changes  *)
(* overlapped.                                                               *)
THEOREM SettingsAreKept == Spec => []SettingsAsAsked
  <1>1. Settled => SettingsAsAsked
    BY DEF Settled
  <1>2. QED
    BY <1>1, AlwaysSettled, PTL

-----------------------------------------------------------------------------
(* How a dispatch goes on *)

(* The statements before the inbox row of the present user is created.       *)
Asking == {"find", "insert", "again", "create"}

(* A statement goes on to the next user, or stays with this one.             *)
Steps(r) ==
  /\ req' = req
  /\ \/ NextUser(r)
     \/ /\ UNCHANGED <<queue, at>>
        /\ pc'[r] \in Asking => pc[r] \in Asking \ {"create"}
        /\ pc'[r] = "done" => req[r].kind \notin Dispatches
        /\ pc'[r] = "failed" => req[r].kind # "remind"
  /\ \/ created' = created
     \/ pc[r] = "create" /\ created' = created \cup {<<r, at[r]>>}

LEMMA StatementSteps ==
  ASSUME Typed, NEW r \in Reqs, Statement(r) \/ Error(r), pc[r] # "due"
  PROVE  Steps(r)
  <1> DEFINE Stays == /\ UNCHANGED <<queue, at>>
                      /\ pc'[r] \in Asking => pc[r] \in Asking \ {"create"}
                      /\ pc'[r] = "done" => req[r].kind \notin Dispatches
                      /\ pc'[r] = "failed" => req[r].kind # "remind"
  <1>1. ASSUME NEW s, Goto(r, s) PROVE pc'[r] = s
    BY <1>1 DEF Goto, Typed, TypeOK
  <1>2. ASSUME Fail(r) PROVE NextUser(r) \/ Stays
    <2>1. CASE req[r].kind = "remind"
      BY <1>2, <2>1 DEF Fail
    <2>2. CASE req[r].kind # "remind"
      BY <1>1, <1>2, <2>2 DEF Fail, Asking
    <2>3. QED
      BY <2>1, <2>2
  <1>3. ASSUME NEW left, NextSubscription(r, left) PROVE NextUser(r) \/ Stays
    BY <1>1, <1>3 DEF NextSubscription, Asking
  <1>4. ASSUME NEW row, pc[r] \in {"find", "insert"}, WithSettings(r, row) PROVE NextUser(r) \/ Stays
    <2>1. \/ NextUser(r)
          \/ UNCHANGED <<queue, at>> /\ \/ Goto(r, "savePatch")
                                        \/ Goto(r, "done") /\ req[r].kind = "show"
                                        \/ Goto(r, "again")
      BY <1>4 DEF WithSettings, Typed, Control, MayBeAt, Dispatches
    <2>2. QED
      BY <1>1, <1>4, <2>1 DEF Asking, Dispatches
  <1>5. (NextUser(r) \/ Stays) /\ req' = req
    <2>1. CASE FindSettings(r)
      <3>1. pc[r] = "find" /\ req' = req
        BY <2>1 DEF FindSettings
      <3>2. CASE Goto(r, "insert") /\ UNCHANGED <<queue, at>>
        BY <1>1, <3>1, <3>2 DEF Asking
      <3>3. CASE WithSettings(r, settings[at[r]])
        BY <1>4, <3>1, <3>3
      <3>4. QED
        BY <2>1, <3>1, <3>2, <3>3 DEF FindSettings
    <2>2. CASE InsertSettings(r)
      <3>1. pc[r] = "insert" /\ req' = req /\ (WithSettings(r, Defaults) \/ Fail(r))
        BY <2>2 DEF InsertSettings
      <3>2. QED
        BY <1>2, <1>4, <3>1
    <2>3. CASE SavePatch(r)
      BY <1>1, <2>3 DEF SavePatch, Asking, Typed, Control, MayBeAt, Dispatches
    <2>4. CASE ReloadSettings(r)
      BY <1>1, <2>4 DEF ReloadSettings, Asking
    <2>5. CASE CreateNotification(r)
      BY <1>1, <2>5 DEF CreateNotification, Asking
    <2>6. CASE FindSubscriptions(r) \/ SavePushed(r) \/ DropSubscription(r)
      BY <1>3, <2>6 DEF FindSubscriptions, SavePushed, DropSubscription
    <2>7. CASE Push(r)
      <3>1. req' = req
        BY <2>7 DEF Push
      <3>2. PICK s \in rows[r] :
              \/ (Goto(r, "savePushed") \/ Goto(r, "drop")) /\ UNCHANGED <<queue, at>>
              \/ NextSubscription(r, rows[r] \ {s})
        BY <2>7 DEF Push
      <3>3. QED
        BY <1>1, <1>3, <3>1, <3>2 DEF Asking
    <2>8. CASE FindSubscription(r)
      BY <1>1, <2>8 DEF FindSubscription, Asking
    <2>9. CASE SaveSubscription(r)
      <3>1. /\ req' = req /\ req[r].kind = "subscribe"
            /\ Fail(r) \/ (Goto(r, "done") /\ UNCHANGED <<queue, at>>)
        BY <2>9 DEF SaveSubscription, Typed, Control, MayBeAt
      <3>2. QED
        BY <1>1, <1>2, <3>1 DEF Asking, Dispatches
    <2>10. CASE Unsubscribe(r)
      BY <1>1, <2>10 DEF Unsubscribe, Asking, Typed, Control, MayBeAt, Dispatches
    <2>11. CASE FindUnread(r) \/ SaveRead(r) \/ MarkAllAsRead(r) \/ Delete(r)
      <3>1. /\ UNCHANGED <<queue, at, req>> /\ req[r].kind \notin Dispatches
            /\ \E s \in {"saveRead", "done"} : Goto(r, s)
        BY <2>11 DEF FindUnread, SaveRead, MarkAllAsRead, Delete, Typed, Control, MayBeAt, Dispatches
      <3>2. QED
        BY <1>1, <3>1 DEF Asking
    <2>12. CASE Error(r)
      BY <1>2, <1>3, <2>12 DEF Error
    <2>13. QED
      BY <2>1, <2>2, <2>3, <2>4, <2>5, <2>6, <2>7, <2>8, <2>9, <2>10, <2>11, <2>12 DEF Statement, FindDue
  <1>6. created' = created \/ (pc[r] = "create" /\ created' = created \cup {<<r, at[r]>>})
    BY DEF Statement, Error, FindSettings, InsertSettings, SavePatch, FindDue, ReloadSettings, CreateNotification,
           FindSubscriptions, Push, SavePushed, DropSubscription, FindSubscription, SaveSubscription, Unsubscribe,
           FindUnread, SaveRead, MarkAllAsRead, Delete, db, hist
  <1>7. QED
    BY <1>5, <1>6 DEF Steps

(* The scheduler's query, or its failure.                                    *)
Lists(r) ==
  /\ pc[r] = "due" /\ UNCHANGED <<created, settings, wasOn, wasOff>>
  /\ req'[r].kind = "remind" /\ \A q \in Reqs \ {r} : req'[q] = req[q]
  /\ \/ pc'[r] \in Ended /\ UNCHANGED <<at, queue>> /\ req'[r].users = {}
     \/ pc'[r] = "find" /\ at'[r] \in req'[r].users /\ queue'[r] = req'[r].users \ {at'[r]}

LEMMA DueLists == ASSUME Typed, NEW r \in Reqs, Statement(r) \/ Error(r), pc[r] = "due" PROVE Lists(r)
  <1>1. FindDue(r) \/ Error(r)
    BY DEF Statement, FindSettings, InsertSettings, SavePatch, ReloadSettings, CreateNotification,
           FindSubscriptions, Push, SavePushed, DropSubscription, FindSubscription, SaveSubscription, Unsubscribe,
           FindUnread, SaveRead, MarkAllAsRead, Delete
  <1>2. CASE FindDue(r)
    <2>1. PICK due \in SUBSET Users :
            /\ req' = [req EXCEPT ![r] = Names("remind", due, NoUser)]
            /\ \/ due = {} /\ Goto(r, "done") /\ UNCHANGED <<at, queue>>
               \/ \E u \in due : /\ at' = [at EXCEPT ![r] = u]
                                 /\ queue' = [queue EXCEPT ![r] = due \ {u}]
                                 /\ Goto(r, "find")
      <3> DEFINE due == {u \in Users : settings[u] # NoRow /\ {"daily", "due"} \subseteq settings[u]}
      <3>1. due \in SUBSET Users
        OBVIOUS
      <3>2. QED
        BY <1>2, <3>1 DEF FindDue
    <2>2. Names("remind", due, NoUser).kind = "remind" /\ Names("remind", due, NoUser).users = due
      BY DEF Names, Asks
    <2>3. UNCHANGED <<created, settings, wasOn, wasOff>>
      BY <1>2 DEF FindDue, db, hist
    <2>4. QED
      BY <2>1, <2>2, <2>3 DEF Lists, Goto, Typed, TypeOK, Ended
  <1>3. CASE Error(r)
    <2>1. req' = req /\ UNCHANGED <<created, settings, wasOn, wasOff>> /\ Fail(r)
      BY <1>3 DEF Error, db
    <2>2. Goto(r, "failed") /\ UNCHANGED <<queue, at>>
      BY <2>1 DEF Fail
    <2>3. req[r].kind = "remind" /\ req[r].users = {}
      BY DEF Typed, Control, MayBeAt
    <2>4. QED
      BY <2>1, <2>2, <2>3 DEF Lists, Goto, Typed, TypeOK, Ended
  <1>4. QED
    BY <1>1, <1>2, <1>3

(* Nobody else moves, and a request keeps its kind.                          *)
LEMMA KindsStay ==
  ASSUME Typed, NEW r \in Reqs, Statement(r) \/ Error(r)
  PROVE  /\ Fits(r) /\ pc[r] \in Statements /\ pc'[r] \notin {"idle", "due"}
         /\ \A q \in Reqs : req'[q].kind = req[q].kind /\ (q \in InFlight' => q \in InFlight)
  <1>1. Fits(r)
    BY StatementFits, ErrorFits
  <1>2. pc[r] \in Statements
    <2>1. CASE Error(r)
      BY <2>1 DEF Error, Typed, TypeOK
    <2>2. CASE Statement(r)
      BY <2>2 DEF Statement, FindSettings, InsertSettings, SavePatch, FindDue, ReloadSettings, CreateNotification,
                  FindSubscriptions, Push, SavePushed, DropSubscription, FindSubscription, SaveSubscription,
                  Unsubscribe, FindUnread, SaveRead, MarkAllAsRead, Delete, Statements
    <2>3. QED
      BY <2>1, <2>2
  <1>3. req'[r].kind = req[r].kind
    <2>1. CASE pc[r] = "due"
      BY <2>1, DueLists DEF Lists, Typed, Control, MayBeAt
    <2>2. CASE pc[r] # "due"
      BY <2>2, StatementSteps DEF Steps
    <2>3. QED
      BY <2>1, <2>2
  <1>4. pc'[r] \notin {"idle", "due"}
    <2>1. req[r].kind # "none"
      BY <1>2 DEF Typed, Control, MayBeAt, Statements
    <2>2. QED
      BY <1>1, <1>3, <2>1 DEF Fits, Moves, MayBeAt
  <1>5. QED
    BY <1>1, <1>2, <1>3, <1>4 DEF Fits, Moves, InFlight, Statements, Ended

-----------------------------------------------------------------------------
(* Whose switch is on *)

(* A running dispatch knows of every user what their switch has been, and     *)
(* only users who had it on come to have a notification created.             *)
Switched ==
  \A r \in Reqs : req[r].kind \in Dispatches =>
    /\ r \in InFlight => \A u \in Users : IF IsOn(settings[u], TypeSwitch(req[r].kind))
                                          THEN u \in wasOn[r] ELSE u \in wasOff[r]
    /\ pc[r] \in {"again", "create"} => at[r] \in wasOn[r]

(* What a start or a statement leaves the switches of every dispatch at.     *)
LEMMA SwitchesNow ==
  ASSUME Typed, Switched, NEW r \in Reqs, Statement(r) \/ Error(r),
         NEW q \in Reqs, req[q].kind \in Dispatches, q \in InFlight, NEW u \in Users
  PROVE  IF IsOn(settings'[u], TypeSwitch(req[q].kind)) THEN u \in wasOn'[q] ELSE u \in wasOff'[q]
  <1>1. IF IsOn(settings[u], TypeSwitch(req[q].kind)) THEN u \in wasOn[q] ELSE u \in wasOff[q]
    BY DEF Switched
  <1>2. wasOn[q] \subseteq wasOn'[q] /\ wasOff[q] \subseteq wasOff'[q]
    BY KindsStay DEF Fits, Keeps
  <1>3. CASE settings' = settings
    BY <1>1, <1>2, <1>3
  <1>4. CASE InsertSettings(r)
    <2>1. settings'[u] = settings[u] \/ (settings[u] = NoRow /\ settings'[u] = Defaults)
      BY <1>4 DEF InsertSettings, Typed, TypeOK
    <2>2. TypeSwitch(req[q].kind) \in AllSwitches
      BY DEF TypeSwitch, AllSwitches
    <2>3. QED
      BY <1>1, <1>2, <2>1, <2>2 DEF IsOn, Defaults
  <1>5. CASE SavePatch(r)
    <2>1. /\ wasOn' = [p \in Reqs |-> wasOn[p] \cup IF Watches(p, settings'[at[r]], TRUE) THEN {at[r]} ELSE {}]
          /\ wasOff' = [p \in Reqs |-> wasOff[p] \cup IF Watches(p, settings'[at[r]], FALSE) THEN {at[r]} ELSE {}]
      BY <1>5 DEF SavePatch
    <2>2. u # at[r] => settings'[u] = settings[u]
      BY <1>5 DEF SavePatch, Typed, TypeOK
    <2>3. u = at[r] => \/ IsOn(settings'[u], TypeSwitch(req[q].kind)) = TRUE /\ Watches(q, settings'[at[r]], TRUE)
                       \/ IsOn(settings'[u], TypeSwitch(req[q].kind)) = FALSE /\ Watches(q, settings'[at[r]], FALSE)
      BY DEF Watches, IsOn, Dispatches
    <2>4. QED
      BY <1>1, <1>2, <2>1, <2>2, <2>3
  <1>6. QED
    BY <1>3, <1>4, <1>5, SettingsStay

(* getSettings goes on with a user who has the switch on.                    *)
LEMMA AgainOn ==
  ASSUME Typed, Switched, NEW r \in Reqs, Statement(r) \/ Error(r), pc'[r] = "again", req[r].kind \in Dispatches
  PROVE  at'[r] = at[r] /\ at[r] \in wasOn[r]
  <1>1. FindSettings(r) \/ InsertSettings(r)
    BY NoOtherLoads
  <1>2. r \in InFlight /\ at[r] \in Users /\ req[r].kind \in {"news", "remind"}
    BY <1>1 DEF FindSettings, InsertSettings, InFlight, Ended, Typed, Control, Statements, Dispatches
  <1>3. PICK row \in SettingsRow \cup {NoRow} : WithSettings(r, row) /\ (row = settings[at[r]] \/ settings[at[r]] = NoRow)
    <2>1. CASE FindSettings(r)
      BY <1>2, <2>1 DEF FindSettings, Goto, Typed, TypeOK
    <2>2. CASE InsertSettings(r)
      <3>1. ~Fail(r)
        BY DEF Fail, NextUser, Goto, Typed, TypeOK
      <3>2. settings[at[r]] = NoRow /\ WithSettings(r, Defaults) /\ Defaults \in SettingsRow
        BY <2>2, <3>1 DEF InsertSettings, Defaults, SettingsRow
      <3>3. QED
        BY <3>2
    <2>3. QED
      BY <1>1, <2>1, <2>2
  <1>4. Enabled(r, row) /\ at' = at
    BY <1>2, <1>3 DEF WithSettings, NextUser, Goto, Typed, TypeOK
  <1>5. IsOn(settings[at[r]], TypeSwitch(req[r].kind))
    BY <1>3, <1>4 DEF Enabled, IsOn
  <1>6. QED
    BY <1>2, <1>4, <1>5 DEF Switched

LEMMA StatementSwitched == ASSUME Typed, Switched, NEW r \in Reqs, Statement(r) \/ Error(r) PROVE Switched'
  <1>1. /\ Fits(r)
        /\ \A q \in Reqs : req'[q].kind = req[q].kind /\ (q \in InFlight' => q \in InFlight)
    BY KindsStay
  <1>2. ASSUME NEW q \in Reqs, req'[q].kind \in Dispatches, q \in InFlight', NEW u \in Users
        PROVE  IF IsOn(settings'[u], TypeSwitch(req'[q].kind)) THEN u \in wasOn'[q] ELSE u \in wasOff'[q]
    BY <1>1, <1>2, SwitchesNow
  <1>3. ASSUME NEW q \in Reqs, req'[q].kind \in Dispatches, pc'[q] \in {"again", "create"}
        PROVE  at'[q] \in wasOn'[q]
    <2>1. wasOn[q] \subseteq wasOn'[q] /\ req[q].kind \in Dispatches
      BY <1>1, <1>3 DEF Fits, Keeps
    <2>2. CASE q # r
      BY <1>1, <1>3, <2>1, <2>2 DEF Fits, Moves, Switched
    <2>3. CASE q = r /\ pc'[r] = "again"
      BY <2>1, <2>3, AgainOn
    <2>4. CASE q = r /\ pc'[r] = "create"
      <3>1. pc[r] = "again"
        BY <1>1, <2>4 DEF Fits, Keeps
      <3>2. ~NextUser(r)
        BY <2>4 DEF NextUser, Goto, Typed, TypeOK
      <3>3. at' = at
        BY <3>1, <3>2, StatementSteps DEF Steps
      <3>4. QED
        BY <2>1, <2>4, <3>1, <3>3 DEF Switched
    <2>5. QED
      BY <1>3, <2>2, <2>3, <2>4
  <1>4. QED
    BY <1>2, <1>3 DEF Switched

LEMMA StartSwitched == ASSUME Typed, Switched, NEW r \in Reqs, Starts(r) PROVE Switched'
  <1>1. settings' = settings /\ pc'[r] \notin {"again", "create"}
    BY FirstStatements DEF Starts, db
  <1>2. wasOn'[r] = Now(req'[r].kind, TRUE) /\ wasOff'[r] = Now(req'[r].kind, FALSE)
    BY DEF Starts, Typed, TypeOK
  <1>3. ASSUME req'[r].kind \in Dispatches, NEW u \in Users
        PROVE  IF IsOn(settings'[u], TypeSwitch(req'[r].kind)) THEN u \in wasOn'[r] ELSE u \in wasOff'[r]
    BY <1>1, <1>2, <1>3 DEF Now, Dispatches, IsOn
  <1>4. \A q \in Reqs \ {r} : /\ pc'[q] = pc[q] /\ at'[q] = at[q] /\ req'[q] = req[q]
                              /\ wasOn'[q] = wasOn[q] /\ wasOff'[q] = wasOff[q]
                              /\ q \in InFlight' <=> q \in InFlight
    BY DEF Starts, Typed, TypeOK, InFlight
  <1>5. QED
    BY <1>1, <1>3, <1>4 DEF Switched

-----------------------------------------------------------------------------
(* Which notifications there are *)

(* Notifications are of dispatches, and a dispatch has created none yet for   *)
(* the users it has still to come to.                                        *)
Creating ==
  /\ \A n \in created : req[n[1]].kind \in Dispatches /\ pc[n[1]] \notin {"idle", "due"}
  /\ \A r \in Reqs : /\ pc[r] \in Asking => <<r, at[r]>> \notin created
                     /\ at[r] \notin queue[r]
                     /\ \A u \in queue[r] : <<r, u>> \notin created

LEMMA NoteParts == ASSUME Typed, NEW n \in created PROVE n[1] \in Reqs /\ n[2] \in Users /\ n = <<n[1], n[2]>>
  BY DEF Typed, TypeOK, Note

LEMMA StatementCreating == ASSUME Typed, Creating, NEW r \in Reqs, Statement(r) \/ Error(r) PROVE Creating'
  <1>1. /\ Fits(r) /\ pc[r] \in Statements /\ pc'[r] \notin {"idle", "due"}
        /\ \A q \in Reqs : req'[q].kind = req[q].kind
    BY KindsStay
  <1>2. CASE pc[r] = "due"
    <2>1. Lists(r)
      BY <1>2, DueLists
    <2>2. \A n \in created : n[1] # r
      BY <1>2 DEF Creating
    <2>3. \A q \in Reqs \ {r} : pc'[q] = pc[q] /\ at'[q] = at[q] /\ queue'[q] = queue[q]
      BY <1>1 DEF Fits, Moves
    <2>4. at'[r] \notin queue'[r]
      BY <2>1 DEF Lists, Creating
    <2>5. \A n \in created : req'[n[1]].kind \in Dispatches /\ pc'[n[1]] \notin {"idle", "due"}
      BY <1>1, <2>2, <2>3, NoteParts DEF Creating
    <2>6. \A u : <<r, u>> \notin created
      BY <2>2
    <2>7. QED
      BY <2>1, <2>3, <2>4, <2>5, <2>6 DEF Lists, Creating
  <1>3. CASE pc[r] # "due"
    <2>1. Steps(r)
      BY <1>3, StatementSteps
    <2>2. \A q \in Reqs \ {r} : pc'[q] = pc[q] /\ at'[q] = at[q] /\ queue'[q] = queue[q]
      BY <1>1 DEF Fits, Moves
    <2>3. pc[r] = "create" => req[r].kind \in Dispatches /\ at[r] \in Users
      BY DEF Typed, Control, MayBeAt, Telling, Statements
    <2>4. \A n \in created' : req'[n[1]].kind \in Dispatches /\ pc'[n[1]] \notin {"idle", "due"}
      BY <1>1, <2>1, <2>2, <2>3, NoteParts DEF Steps, Creating
    <2>5. /\ pc'[r] \in Asking => <<r, at'[r]>> \notin created'
          /\ at'[r] \notin queue'[r]
          /\ \A u \in queue'[r] : <<r, u>> \notin created'
      <3>1. CASE NextUser(r)
        <4>1. \/ (queue[r] = {} /\ pc'[r] = "done" /\ UNCHANGED <<queue, at>>)
              \/ (at'[r] \in queue[r] /\ queue'[r] = queue[r] \ {at'[r]})
          BY <3>1 DEF NextUser, Goto, Typed, TypeOK
        <4>2. \A u \in queue[r] : <<r, u>> \notin created'
          <5> TAKE u \in queue[r]
          <5>1. <<r, u>> \notin created /\ u # at[r]
            BY DEF Creating
          <5>2. <<r, u>> # <<r, at[r]>>
            BY <5>1
          <5>3. QED
            BY <2>1, <5>1, <5>2 DEF Steps
        <4>3. QED
          BY <4>1, <4>2 DEF Creating, Asking
      <3>2. CASE /\ UNCHANGED <<queue, at>>
                 /\ pc'[r] \in Asking => pc[r] \in Asking \ {"create"}
        BY <2>1, <3>2 DEF Steps, Creating
      <3>3. QED
        BY <2>1, <3>1, <3>2 DEF Steps
    <2>6. ASSUME NEW q \in Reqs \ {r}
          PROVE  /\ pc'[q] \in Asking => <<q, at'[q]>> \notin created'
                 /\ at'[q] \notin queue'[q]
                 /\ \A u \in queue'[q] : <<q, u>> \notin created'
      BY <2>1, <2>2 DEF Steps, Creating
    <2>7. QED
      BY <2>4, <2>5, <2>6 DEF Creating
  <1>4. QED
    BY <1>2, <1>3

LEMMA StartCreating == ASSUME Typed, Creating, NEW r \in Reqs, Starts(r) PROVE Creating'
  <1>1. created' = created /\ \A n \in created : n[1] # r
    BY DEF Starts, Creating
  <1>2. \A u : <<r, u>> \notin created
    BY <1>1
  <1>3. \A n \in created : req'[n[1]].kind \in Dispatches /\ pc'[n[1]] \notin {"idle", "due"}
    BY <1>1, NoteParts DEF Starts, Creating
  <1>4. at'[r] \notin queue'[r]
    BY DEF Starts
  <1>5. QED
    BY <1>1, <1>2, <1>3, <1>4 DEF Starts, Creating

-----------------------------------------------------------------------------
(* Who is still to be told *)

(* Everybody a dispatch names waits, or was told, or had the switch off, or   *)
(* was missed.                                                               *)
Waiting ==
  \A r \in Reqs : req[r].kind \in Dispatches =>
    /\ pc[r] \in {"due", "done"} => queue[r] = {}
    /\ pc[r] = "failed" /\ req[r].kind = "remind" => req[r].users = {}
    /\ pc[r] \notin {"due", "failed"} => \A u \in req[r].users :
         \/ u \in queue[r] \cup missed[r] \cup wasOff[r]
         \/ u = at[r] /\ pc[r] \in Asking
         \/ <<r, u>> \in created

(* A dispatch leaves a user whose switch was off, or who is missed or told.  *)
LEMMA Leaves ==
  ASSUME Typed, Switched, NEW r \in Reqs, Statement(r) \/ Error(r), req[r].kind \in Dispatches, pc[r] \in Asking
  PROVE  \/ pc'[r] \in Asking /\ UNCHANGED <<at, queue>>
         \/ at[r] \in missed'[r] \cup wasOff'[r]
         \/ <<r, at[r]>> \in created'
  <1>1. r \in InFlight /\ at[r] \in Users /\ req[r].kind \in {"news", "remind"} /\ pc[r] # "savePushed"
    BY DEF Asking, InFlight, Ended, Typed, Control, Statements, Dispatches
  <1>2. ASSUME Fail(r) PROVE at[r] \in missed'[r]
    BY <1>2 DEF Fail, Typed, TypeOK
  <1>3. wasOff[r] \subseteq wasOff'[r]
    BY KindsStay DEF Fits, Keeps
  <1>4. CASE FindSettings(r)
    <2>1. CASE Goto(r, "insert") /\ UNCHANGED <<queue, at>>
      BY <2>1 DEF Goto, Typed, TypeOK, Asking
    <2>2. CASE settings[at[r]] # NoRow /\ WithSettings(r, settings[at[r]])
      <3>1. CASE Goto(r, "again") /\ UNCHANGED <<queue, at>>
        BY <3>1 DEF Goto, Typed, TypeOK, Asking
      <3>2. CASE ~Enabled(r, settings[at[r]])
        <4>1. ~IsOn(settings[at[r]], TypeSwitch(req[r].kind))
          BY <2>2, <3>2 DEF Enabled, IsOn
        <4>2. QED
          BY <1>1, <1>3, <4>1 DEF Switched
      <3>3. QED
        BY <1>1, <2>2, <3>1, <3>2 DEF WithSettings
    <2>3. QED
      BY <1>4, <2>1, <2>2 DEF FindSettings
  <1>5. CASE InsertSettings(r)
    <2>1. CASE WithSettings(r, Defaults)
      <3>1. Enabled(r, Defaults)
        BY DEF Enabled, TypeSwitch, Defaults, AllSwitches
      <3>2. Goto(r, "again") /\ UNCHANGED <<queue, at>>
        BY <1>1, <2>1, <3>1 DEF WithSettings
      <3>3. QED
        BY <3>2 DEF Goto, Typed, TypeOK, Asking
    <2>2. QED
      BY <1>2, <1>5, <2>1 DEF InsertSettings
  <1>6. CASE ReloadSettings(r)
    BY <1>6 DEF ReloadSettings, Goto, Typed, TypeOK, Asking
  <1>7. CASE CreateNotification(r)
    BY <1>7 DEF CreateNotification
  <1>8. CASE Error(r)
    BY <1>1, <1>2, <1>8 DEF Error
  <1>9. QED
    BY <1>4, <1>5, <1>6, <1>7, <1>8 DEF Asking, Statement, SavePatch, FindDue, FindSubscriptions, Push, SavePushed,
       DropSubscription, FindSubscription, SaveSubscription, Unsubscribe, FindUnread, SaveRead, MarkAllAsRead, Delete

LEMMA StatementWaiting ==
  ASSUME Typed, Switched, Waiting, NEW r \in Reqs, Statement(r) \/ Error(r)
  PROVE  Waiting'
  <1>1. /\ Fits(r) /\ pc[r] \in Statements /\ pc'[r] \notin {"idle", "due"}
        /\ \A q \in Reqs : req'[q].kind = req[q].kind
    BY KindsStay
  <1>2. ASSUME NEW q \in Reqs \ {r}, req'[q].kind \in Dispatches
        PROVE  /\ pc'[q] \in {"due", "done"} => queue'[q] = {}
               /\ pc'[q] = "failed" /\ req'[q].kind = "remind" => req'[q].users = {}
               /\ pc'[q] \notin {"due", "failed"} => \A u \in req'[q].users :
                    \/ u \in queue'[q] \cup missed'[q] \cup wasOff'[q]
                    \/ u = at'[q] /\ pc'[q] \in Asking
                    \/ <<q, u>> \in created'
    <2>1. /\ pc'[q] = pc[q] /\ at'[q] = at[q] /\ queue'[q] = queue[q] /\ req'[q] = req[q]
          /\ created \subseteq created' /\ missed[q] \subseteq missed'[q] /\ wasOff[q] \subseteq wasOff'[q]
      BY <1>1 DEF Fits, Moves, Keeps
    <2>2. QED
      BY <1>2, <2>1 DEF Waiting
  <1>3. ASSUME req'[r].kind \in Dispatches
        PROVE  /\ pc'[r] \in {"due", "done"} => queue'[r] = {}
               /\ pc'[r] = "failed" /\ req'[r].kind = "remind" => req'[r].users = {}
               /\ pc'[r] \notin {"due", "failed"} => \A u \in req'[r].users :
                    \/ u \in queue'[r] \cup missed'[r] \cup wasOff'[r]
                    \/ u = at'[r] /\ pc'[r] \in Asking
                    \/ <<r, u>> \in created'
    <2>1. CASE pc[r] = "due"
      <3>1. Lists(r) /\ req[r].kind = "remind"
        BY <2>1, DueLists DEF Typed, Control, MayBeAt
      <3>2. queue[r] = {} /\ pc'[r] # "due"
        BY <1>1, <2>1, <3>1 DEF Waiting, Dispatches
      <3>3. QED
        BY <3>1, <3>2 DEF Lists, Asking, Ended
    <2>2. CASE pc[r] # "due"
      <3>1. /\ Steps(r) /\ req[r].kind \in Dispatches /\ req'[r] = req[r] /\ pc[r] \notin Ended
            /\ created \subseteq created' /\ missed[r] \subseteq missed'[r] /\ wasOff[r] \subseteq wasOff'[r]
        BY <1>1, <1>3, <2>2, StatementSteps DEF Fits, Keeps, Steps, Statements, Ended
      <3>2. \A u \in req[r].users : \/ u \in queue[r] \cup missed[r] \cup wasOff[r]
                                    \/ u = at[r] /\ pc[r] \in Asking
                                    \/ <<r, u>> \in created
        BY <2>2, <3>1 DEF Waiting, Ended
      <3>3. pc[r] \in Asking => \/ pc'[r] \in Asking /\ UNCHANGED <<at, queue>>
                                \/ at[r] \in missed'[r] \cup wasOff'[r]
                                \/ <<r, at[r]>> \in created'
        BY <3>1, Leaves
      <3>4. CASE NextUser(r)
        <4>1. \/ queue[r] = {} /\ pc'[r] = "done" /\ UNCHANGED <<queue, at>>
              \/ at'[r] \in queue[r] /\ queue'[r] = queue[r] \ {at'[r]} /\ pc'[r] = "find"
          BY <3>4 DEF NextUser, Goto, Typed, TypeOK
        <4>2. QED
          BY <3>1, <3>2, <3>3, <4>1 DEF Asking
      <3>5. CASE /\ UNCHANGED <<queue, at>>
                 /\ pc'[r] = "done" => req[r].kind \notin Dispatches
                 /\ pc'[r] = "failed" => req[r].kind # "remind"
        BY <1>1, <3>1, <3>2, <3>3, <3>5
      <3>6. QED
        BY <3>1, <3>4, <3>5 DEF Steps
    <2>3. QED
      BY <2>1, <2>2
  <1>4. QED
    BY <1>2, <1>3 DEF Waiting

LEMMA StartWaiting == ASSUME Typed, Waiting, NEW r \in Reqs, Starts(r) PROVE Waiting'
  <1>1. UNCHANGED <<created, missed>> /\ \A q \in Reqs \ {r} : wasOff'[q] = wasOff[q]
    BY DEF Starts, Typed, TypeOK
  <1>2. req'[r].kind \in Dispatches => pc'[r] \in {"find", "due"}
    BY DEF Starts, FirstStatement, Dispatches
  <1>3. pc'[r] = "find" => queue'[r] = req'[r].users \ {at'[r]}
    BY DEF Starts
  <1>4. ASSUME NEW q \in Reqs, req'[q].kind \in Dispatches
        PROVE  /\ pc'[q] \in {"due", "done"} => queue'[q] = {}
               /\ pc'[q] = "failed" /\ req'[q].kind = "remind" => req'[q].users = {}
               /\ pc'[q] \notin {"due", "failed"} => \A u \in req'[q].users :
                    \/ u \in queue'[q] \cup missed'[q] \cup wasOff'[q]
                    \/ u = at'[q] /\ pc'[q] \in Asking
                    \/ <<q, u>> \in created'
    <2>1. CASE q = r
      BY <1>2, <1>3, <1>4, <2>1 DEF Starts, Asking
    <2>2. CASE q # r
      BY <1>1, <1>4, <2>2 DEF Starts, Waiting
    <2>3. QED
      BY <2>1, <2>2
  <1>5. QED
    BY <1>4 DEF Waiting

-----------------------------------------------------------------------------
(* Who is told *)

Told == Switched /\ Creating /\ Waiting /\ NoNewsWhileOff

LEMMA StatementOn ==
  ASSUME Typed, Switched, NoNewsWhileOff, NEW r \in Reqs, Statement(r) \/ Error(r)
  PROVE  NoNewsWhileOff'
  <1>1. \A q \in Reqs : wasOn[q] \subseteq wasOn'[q]
    BY KindsStay DEF Fits, Keeps
  <1>2. created' = created \/ (pc[r] = "create" /\ created' = created \cup {<<r, at[r]>>})
    BY StatementSteps, DueLists DEF Steps, Lists
  <1>3. pc[r] = "create" => at[r] \in wasOn[r]
    BY DEF Typed, Control, MayBeAt, Telling, Switched
  <1>4. \A n \in created : n[2] \in wasOn'[n[1]]
    BY <1>1, NoteParts DEF NoNewsWhileOff
  <1>5. QED
    BY <1>1, <1>2, <1>3, <1>4 DEF NoNewsWhileOff

LEMMA StartOn == ASSUME Typed, Creating, NoNewsWhileOff, NEW r \in Reqs, Starts(r) PROVE NoNewsWhileOff'
  <1>1. created' = created /\ \A n \in created : n[1] # r
    BY DEF Starts, Creating
  <1>2. \A q \in Reqs \ {r} : wasOn'[q] = wasOn[q]
    BY DEF Starts, Typed, TypeOK
  <1>3. QED
    BY <1>1, <1>2, NoteParts DEF NoNewsWhileOff

LEMMA InitTold == Init => Told
  <1>1. Init => Switched /\ Waiting
    BY DEF Init, Blank, Names, Asks, Switched, Waiting, Dispatches
  <1>2. Init => Creating /\ NoNewsWhileOff
    BY DEF Init, Creating, NoNewsWhileOff, Asking
  <1>3. QED
    BY <1>1, <1>2 DEF Told

LEMMA NextTold == Typed /\ Told /\ [Next]_vars => Told'
  <1> SUFFICES ASSUME Typed, Told, [Next]_vars PROVE Told'
    OBVIOUS
  <1>1. ASSUME NEW r \in Reqs, Start(r) PROVE Told'
    BY <1>1, StartStarts, StartSwitched, StartCreating, StartWaiting, StartOn DEF Told
  <1>2. ASSUME NEW r \in Reqs, Statement(r) \/ Error(r) PROVE Told'
    BY <1>2, StatementSwitched, StatementCreating, StatementWaiting, StatementOn DEF Told
  <1>3. CASE UNCHANGED vars
    <2>1. Switched' /\ Waiting'
      BY <1>3 DEF vars, Told, Switched, Waiting, InFlight
    <2>2. Creating' /\ NoNewsWhileOff'
      BY <1>3 DEF vars, Told, Creating, NoNewsWhileOff
    <2>3. QED
      BY <2>1, <2>2 DEF Told
  <1>4. QED
    BY <1>1, <1>2, <1>3 DEF Next, Rest

LEMMA AlwaysTold == Spec => []Told
  BY InitTold, NextTold, AlwaysTyped, PTL DEF Spec

(* A notification is created only for a user whose switch for it was on at    *)
(* some time while the request ran, however the settings change between the  *)
(* first look at them and the insert.                                        *)
THEOREM NobodyIsToldUnasked == Spec => []NoNewsWhileOff
  <1>1. Told => NoNewsWhileOff
    BY DEF Told
  <1>2. QED
    BY <1>1, AlwaysTold, PTL

(* A dispatch that ended has told everybody it named, except users whose      *)
(* switch was off meanwhile or for whom a statement failed; a run of the     *)
(* scheduler ends only after it tried everyone due.                          *)
THEOREM EveryoneIsTold == Spec => []NewsReachesEveryone
  <1>1. Told => NewsReachesEveryone
    <2> SUFFICES ASSUME Told, NEW r \in Reqs, req[r].kind \in Dispatches,
                        pc[r] = "done" \/ (pc[r] = "failed" /\ req[r].kind = "remind"),
                        NEW u \in req[r].users \ missed[r]
                 PROVE  <<r, u>> \in created \/ u \in wasOff[r]
      BY DEF NewsReachesEveryone, Dispatches
    <2>1. pc[r] = "done" /\ queue[r] = {} /\ pc[r] \notin Asking
      BY DEF Told, Waiting, Asking
    <2>2. QED
      BY <2>1 DEF Told, Waiting
  <1>2. QED
    BY <1>1, AlwaysTold, PTL

-----------------------------------------------------------------------------
(* Deleted notifications *)

(* A markAsRead about to save a deleted notification held it at that time,    *)
(* or one that did has brought it back.                                      *)
Buried ==
  /\ erased \subseteq created
  /\ \A q \in Reqs : pc[q] = "saveRead" /\ req[q].item \in erased =>
       q \in holders[req[q].item] \/ \E p \in holders[req[q].item] : pc[p] = "done"

Erasures == Buried /\ DeletedStaysDeleted

(* What the other statements do to the inbox.                                *)
LEMMA InboxStays ==
  ASSUME Typed, NEW r \in Reqs, Statement(r) \/ Error(r), ~SaveRead(r), ~Delete(r)
  PROVE  /\ UNCHANGED <<erased, holders>>
         /\ \/ inbox' = inbox
            \/ pc[r] = "create" /\ inbox' = inbox \cup {<<r, at[r]>>} /\ created' = created \cup {<<r, at[r]>>}
         /\ pc'[r] = "saveRead" => pc[r] = "read" /\ req[r].item \in inbox
  <1>1. CASE CreateNotification(r)
    <2>1. pc'[r] # "saveRead"
      BY <1>1, KindsStay DEF CreateNotification, Fits, Keeps
    <2>2. QED
      BY <1>1, <2>1 DEF CreateNotification
  <1>2. CASE FindUnread(r)
    BY <1>2 DEF FindUnread, Goto, Stored, Typed, TypeOK, db, hist
  <1>3. CASE ~CreateNotification(r) /\ ~FindUnread(r)
    <2>1. UNCHANGED <<erased, holders, inbox>>
      BY <1>3 DEF Statement, Error, FindSettings, InsertSettings, SavePatch, FindDue, ReloadSettings,
                  FindSubscriptions, Push, SavePushed, DropSubscription, FindSubscription, SaveSubscription,
                  Unsubscribe, MarkAllAsRead, db, hist
    <2>2. pc'[r] # "saveRead"
      <3>1. CASE Error(r)
        <4>1. CASE Fail(r)
          BY <4>1 DEF Fail, NextUser, Goto, Typed, TypeOK
        <4>2. CASE NextSubscription(r, rows[r])
          BY <4>2 DEF NextSubscription, NextUser, Goto, Typed, TypeOK
        <4>3. QED
          BY <3>1, <4>1, <4>2 DEF Error
      <3>2. CASE Statement(r)
        <4>1. pc[r] # "read"
          BY <1>3, <3>2 DEF Statement, FindSettings, InsertSettings, SavePatch, FindDue, ReloadSettings,
                  FindSubscriptions, Push, SavePushed, DropSubscription, FindSubscription, SaveSubscription,
                  Unsubscribe, MarkAllAsRead, SaveRead, Delete
        <4>2. QED
          BY <3>2, <4>1, StatementFits DEF Fits, Keeps
      <3>3. QED
        BY <3>1, <3>2
    <2>3. QED
      BY <2>1, <2>2
  <1>4. QED
    BY <1>1, <1>2, <1>3

(* Whoever has ended stays so.                                               *)
LEMMA DoneStays ==
  ASSUME Typed, NEW r \in Reqs, Statement(r) \/ Error(r), NEW q \in Reqs, pc[q] = "done"
  PROVE  q # r /\ pc'[q] = "done"
  BY KindsStay DEF Fits, Moves, Statements

LEMMA StatementErasures ==
  ASSUME Typed, Told, Erasures, NEW r \in Reqs, Statement(r) \/ Error(r)
  PROVE  Erasures'
  <1>1. /\ Fits(r) /\ created \subseteq created' /\ Tables /\ Histories
        /\ \A q \in Reqs \ {r} : pc'[q] = pc[q] /\ req'[q] = req[q]
    BY KindsStay, Parts DEF Fits, Moves, Keeps, Typed
  <1>2. \A n \in erased : n \in Note /\ holders[n] \in SUBSET Reqs
    BY <1>1 DEF Histories
  <1>3. \A n \in erased : (\E p \in holders[n] : pc[p] = "done") => \E p \in holders[n] : pc'[p] = "done"
    BY <1>2, DoneStays
  <1>4. CASE SaveRead(r)
    <2>1. /\ UNCHANGED <<req, erased, holders, created>> /\ inbox' = inbox \cup {req[r].item}
          /\ pc[r] = "saveRead" /\ pc'[r] = "done"
      BY <1>4 DEF SaveRead, Goto, Typed, TypeOK, hist
    <2>2. req[r].item \in erased => \E p \in holders[req[r].item] : pc'[p] = "done"
      BY <1>3, <2>1 DEF Erasures, Buried
    <2>3. QED
      BY <1>1, <1>3, <2>1, <2>2 DEF Erasures, Buried, DeletedStaysDeleted
  <1>5. CASE Delete(r)
    <2> DEFINE n == req[r].item
    <2>1. /\ UNCHANGED <<req, created>> /\ pc[r] = "delete" /\ pc'[r] = "done" /\ inbox' = inbox \ {n}
          /\ erased' = erased \cup {n}
          /\ holders' = [holders EXCEPT ![n] = {q \in Reqs : pc[q] = "saveRead" /\ req[q].item = n}]
      BY <1>5 DEF Delete, Goto, Typed, TypeOK
    <2>2. n \in created /\ n \in Note
      BY <1>1, <2>1 DEF Typed, Control, MayBeAt, Named, Tables
    <2>3. \A m \in Note : m # n => holders'[m] = holders[m]
      BY <1>1, <2>1 DEF Histories
    <2>4. holders'[n] = {q \in Reqs : pc[q] = "saveRead" /\ req[q].item = n}
      BY <1>1, <2>1, <2>2 DEF Histories
    <2>5. erased' \subseteq created'
      BY <2>1, <2>2 DEF Erasures, Buried
    <2>6. ASSUME NEW q \in Reqs, pc'[q] = "saveRead", req'[q].item \in erased'
          PROVE  q \in holders'[req'[q].item] \/ \E p \in holders'[req'[q].item] : pc'[p] = "done"
      <3>1. q # r /\ pc[q] = "saveRead" /\ req'[q] = req[q]
        BY <1>1, <2>1, <2>6
      <3>2. CASE req[q].item = n
        BY <2>4, <3>1, <3>2
      <3>3. CASE req[q].item # n
        BY <1>2, <1>3, <2>1, <2>3, <2>6, <3>1, <3>3 DEF Erasures, Buried
      <3>4. QED
        BY <3>2, <3>3
    <2>7. ASSUME NEW m \in erased' \cap inbox' PROVE \E q \in holders'[m] : pc'[q] = "done"
      <3>1. m # n /\ m \in erased \cap inbox
        BY <2>1, <2>7
      <3>2. QED
        BY <1>2, <1>3, <2>3, <3>1 DEF Erasures, DeletedStaysDeleted
    <2>8. QED
      BY <2>5, <2>6, <2>7 DEF Erasures, Buried, DeletedStaysDeleted
  <1>6. CASE ~SaveRead(r) /\ ~Delete(r)
    <2>1. /\ UNCHANGED <<erased, holders>>
          /\ \/ inbox' = inbox
             \/ pc[r] = "create" /\ inbox' = inbox \cup {<<r, at[r]>>} /\ created' = created \cup {<<r, at[r]>>}
          /\ pc'[r] = "saveRead" => pc[r] = "read" /\ req[r].item \in inbox
      BY <1>6, InboxStays
    <2>2. pc[r] = "create" => <<r, at[r]>> \notin erased
      BY DEF Told, Creating, Asking, Erasures, Buried
    <2>3. erased \cap inbox' \subseteq inbox
      BY <2>1, <2>2
    <2>4. DeletedStaysDeleted'
      BY <1>3, <2>1, <2>3 DEF Erasures, DeletedStaysDeleted
    <2>5. ASSUME NEW q \in Reqs, pc'[q] = "saveRead", req'[q].item \in erased'
          PROVE  q \in holders'[req'[q].item] \/ \E p \in holders'[req'[q].item] : pc'[p] = "done"
      <3>1. CASE q # r
        BY <1>1, <1>3, <2>1, <2>5, <3>1 DEF Erasures, Buried
      <3>2. CASE q = r
        <4>1. req'[r] = req[r]
          BY <2>1, <2>5, <3>2, StatementSteps DEF Steps
        <4>2. QED
          BY <1>3, <2>1, <2>5, <3>2, <4>1 DEF Erasures, DeletedStaysDeleted
      <3>3. QED
        BY <3>1, <3>2
    <2>6. QED
      BY <1>1, <2>1, <2>4, <2>5 DEF Erasures, Buried
  <1>7. QED
    BY <1>4, <1>5, <1>6

LEMMA StartErasures == ASSUME Typed, Erasures, NEW r \in Reqs, Starts(r) PROVE Erasures'
  <1>1. UNCHANGED <<inbox, erased, holders, created>> /\ pc'[r] # "saveRead"
    BY FirstStatements DEF Starts, db
  <1>2. \A q \in Reqs \ {r} : pc'[q] = pc[q] /\ req'[q] = req[q]
    BY DEF Starts
  <1>3. \A n \in erased : (\E p \in holders[n] : pc[p] = "done") => \E p \in holders[n] : pc'[p] = "done"
    <2>1. \A n \in erased : holders[n] \in SUBSET Reqs
      BY DEF Typed, TypeOK
    <2>2. pc[r] # "done"
      BY DEF Starts
    <2>3. QED
      BY <1>2, <2>1, <2>2
  <1>4. Buried'
    BY <1>1, <1>2, <1>3 DEF Erasures, Buried
  <1>5. DeletedStaysDeleted'
    BY <1>1, <1>3 DEF Erasures, DeletedStaysDeleted
  <1>6. QED
    BY <1>4, <1>5 DEF Erasures

(* A deleted notification is back only after a markAsRead that had loaded it  *)
(* before the deletion.                                                      *)
THEOREM DeletedAreGone == Spec => []DeletedStaysDeleted
  <1>1. Init => Erasures
    BY DEF Init, Erasures, Buried, DeletedStaysDeleted
  <1>2. Typed /\ Told /\ Erasures /\ [Next]_vars => Erasures'
    <2> SUFFICES ASSUME Typed, Told, Erasures, [Next]_vars PROVE Erasures'
      OBVIOUS
    <2>1. CASE UNCHANGED vars
      BY <2>1 DEF vars, Erasures, Buried, DeletedStaysDeleted
    <2>2. QED
      BY <2>1, StartStarts, StartErasures, StatementErasures DEF Next, Rest
  <1>3. Erasures => DeletedStaysDeleted
    BY DEF Erasures
  <1>4. QED
    BY <1>1, <1>2, <1>3, AlwaysTyped, AlwaysTold, PTL DEF Spec

-----------------------------------------------------------------------------
(* Push addresses *)

Copied(q) == (rows[q] \cup {cur[q]}) \ {NoSub}
Mine(s)   == req[s.id].kind = "subscribe" /\ req[s.id].item = s.addr

(* A row keeps the address of the request that inserted it, and which         *)
(* requests hold copies.                                                     *)
Own ==
  /\ \A s \in subs : Mine(s)
  /\ \A q \in Reqs : /\ \A s \in Copied(q) : Mine(s)
                     /\ cur[q] \notin rows[q]
                     /\ rows[q] # {} => req[q].kind \in Dispatches
                     /\ cur[q] # NoSub => req[q].kind \in Dispatches \cup {"subscribe"}
                     /\ pc[q] = "saveSubscription" /\ cur[q] # NoSub => cur[q].addr = req[q].item

(* Unless its address was changed while another request held a copy, a row is *)
(* the only one of it, and copies are as new as the row.                     *)
Alone(a)   == \A s, t \in subs : s.addr = a /\ t.addr = a => s = t
Current(q) ==
  /\ \A s \in Copied(q) : s.addr \in crossed \/ s \in subs
  /\ pc[q] = "saveSubscription" /\ cur[q] = NoSub => \/ req[q].item \in crossed
                                                     \/ \A s \in subs : s.addr # req[q].item
Kept(a) ==
  /\ \A s \in subs : s.addr = a => s.user = owner[a]
  /\ owner[a] # NoUser => \E s \in subs : s.addr = a

Addressed ==
  /\ Own
  /\ \A q \in Reqs : Current(q)
  /\ \A a \in Addresses \ crossed : Alone(a) /\ Kept(a)

(* What a statement does to the copies of its request.                       *)
Loads(r) ==
  /\ Copied(r)' \subseteq Copied(r) \cup subs
  /\ cur'[r] \notin rows'[r]
  /\ rows'[r] # {} => req'[r].kind \in Dispatches
  /\ cur'[r] # NoSub => req'[r].kind \in Dispatches \cup {"subscribe"}
  /\ pc'[r] = "saveSubscription" => /\ req' = req
                                    /\ cur'[r] # NoSub => cur'[r] \in subs /\ cur'[r].addr = req[r].item
                                    /\ cur'[r] = NoSub => \A s \in subs : s.addr # req[r].item

LEMMA StatementLoads == ASSUME Typed, Own, NEW r \in Reqs, Statement(r) \/ Error(r) PROVE Loads(r)
  <1>1. /\ Fits(r) /\ req'[r].kind = req[r].kind
    BY KindsStay
  <1>2. /\ NoSub \notin rows[r] /\ NoSub \notin subs
        /\ cur' \in [Reqs -> Subscriptions \cup {NoSub}] /\ rows' \in [Reqs -> SUBSET Subscriptions]
    BY <1>1 DEF Typed, TypeOK, Fits, Copies, NoSub, Subscriptions, Reqs
  <1>3. NoSub \notin rows'[r]
    BY <1>2 DEF NoSub, Subscriptions, Reqs
  <1>4. ASSUME rows'[r] \subseteq rows[r], cur'[r] \in {cur[r], NoSub}, pc'[r] # "saveSubscription"
        PROVE  Loads(r)
    BY <1>1, <1>2, <1>3, <1>4 DEF Loads, Copied, Own
  <1>5. ASSUME Fail(r) PROVE Loads(r)
    <2>1. rows'[r] = {} /\ cur'[r] = NoSub /\ pc'[r] # "saveSubscription"
      BY <1>5 DEF Fail, NextUser, Goto, Typed, TypeOK
    <2>2. QED
      BY <1>4, <2>1
  <1>6. ASSUME NEW left, NextSubscription(r, left)
        PROVE  rows'[r] = left /\ cur'[r] = NoSub /\ pc'[r] # "saveSubscription"
    BY <1>6 DEF NextSubscription, NextUser, Goto, Typed, TypeOK
  <1>7. CASE FindSettings(r) \/ SavePatch(r) \/ FindDue(r) \/ ReloadSettings(r) \/ CreateNotification(r)
    <2>1. UNCHANGED <<rows, cur>> /\ pc[r] # "subscribe"
      BY <1>7 DEF FindSettings, SavePatch, FindDue, ReloadSettings, CreateNotification
    <2>2. QED
      BY <1>1, <1>4, <2>1 DEF Fits, Keeps
  <1>8. CASE InsertSettings(r)
    <2>1. CASE Fail(r)
      BY <1>5, <2>1
    <2>2. CASE UNCHANGED <<rows, cur>>
      BY <1>1, <1>4, <1>8, <2>2 DEF Fits, Keeps, InsertSettings
    <2>3. QED
      BY <1>8, <2>1, <2>2 DEF InsertSettings
  <1>9. CASE FindSubscriptions(r)
    <2>1. rows'[r] \subseteq subs /\ cur'[r] = NoSub /\ pc'[r] # "saveSubscription"
      BY <1>6, <1>9 DEF FindSubscriptions
    <2>2. req[r].kind \in Dispatches
      BY <1>9 DEF FindSubscriptions, Typed, Control, MayBeAt, Telling
    <2>3. QED
      BY <1>1, <1>3, <2>1, <2>2 DEF Loads, Copied
  <1>10. CASE Push(r)
    <2>1. PICK s \in rows[r] :
            \/ /\ rows' = [rows EXCEPT ![r] = rows[r] \ {s}]
               /\ cur' = [cur EXCEPT ![r] = s]
            \/ NextSubscription(r, rows[r] \ {s})
      BY <1>10 DEF Push
    <2>2. CASE NextSubscription(r, rows[r] \ {s})
      <3>1. rows'[r] = rows[r] \ {s} /\ cur'[r] = NoSub /\ pc'[r] # "saveSubscription"
        BY <1>6, <2>2
      <3>2. QED
        BY <1>4, <3>1
    <2>3. CASE rows' = [rows EXCEPT ![r] = rows[r] \ {s}] /\ cur' = [cur EXCEPT ![r] = s]
      <3>1. rows'[r] = rows[r] \ {s} /\ cur'[r] = s /\ pc'[r] # "saveSubscription"
        BY <1>1, <1>10, <2>3 DEF Push, Fits, Keeps, Typed, TypeOK
      <3>2. req[r].kind \in Dispatches
        BY <1>10 DEF Push, Typed, Control, MayBeAt, Telling
      <3>3. QED
        BY <1>1, <1>2, <3>1, <3>2 DEF Loads, Copied
    <2>4. QED
      BY <2>1, <2>2, <2>3
  <1>11. CASE SavePushed(r) \/ DropSubscription(r)
    <2>1. NextSubscription(r, rows[r])
      BY <1>11 DEF SavePushed, DropSubscription
    <2>2. QED
      BY <1>4, <1>6, <2>1
  <1>12. CASE FindSubscription(r)
    <2>1. UNCHANGED <<req, rows>> /\ req[r].kind = "subscribe" /\ rows[r] = {}
      BY <1>12 DEF FindSubscription, Typed, Control, MayBeAt, Own, Dispatches
    <2>2. PICK s \in IF Known(r) = {} THEN {NoSub} ELSE Known(r) : cur' = [cur EXCEPT ![r] = s]
      BY <1>12 DEF FindSubscription
    <2>3. cur'[r] = s /\ rows'[r] = {}
      BY <2>1, <2>2 DEF Typed, TypeOK
    <2>4. s = NoSub \/ (s \in subs /\ s.addr = req[r].item)
      BY <2>2 DEF Known
    <2>5. s = NoSub => \A t \in subs : t.addr # req[r].item
      BY <1>2, <2>2 DEF Known
    <2>6. QED
      BY <1>2, <2>1, <2>3, <2>4, <2>5 DEF Loads, Copied
  <1>13. CASE SaveSubscription(r)
    <2>1. CASE Fail(r)
      BY <1>5, <2>1
    <2>2. CASE rows' = rows /\ cur' = [cur EXCEPT ![r] = NoSub]
      BY <1>1, <1>4, <1>13, <2>2 DEF SaveSubscription, Fits, Keeps, Typed, TypeOK
    <2>3. QED
      BY <1>13, <2>1, <2>2 DEF SaveSubscription
  <1>14. CASE Unsubscribe(r) \/ FindUnread(r) \/ SaveRead(r) \/ MarkAllAsRead(r) \/ Delete(r)
    <2>1. UNCHANGED <<rows, cur>> /\ pc[r] # "subscribe"
      BY <1>14 DEF Unsubscribe, FindUnread, SaveRead, MarkAllAsRead, Delete
    <2>2. QED
      BY <1>1, <1>4, <2>1 DEF Fits, Keeps
  <1>15. CASE Error(r)
    <2>1. CASE NextSubscription(r, rows[r])
      BY <1>4, <1>6, <2>1
    <2>2. QED
      BY <1>5, <1>15, <2>1 DEF Error
  <1>16. QED
    BY <1>7, <1>8, <1>9, <1>10, <1>11, <1>12, <1>13, <1>14, <1>15 DEF Statement

(* What a statement does to the rows: nothing, or something to those of one   *)
(* address, which is then crossed or left as it was asked for.               *)
Quiet == subs' = subs /\ owner' = owner

Writes(r, a) ==
  /\ \A s \in Subscriptions : s.addr # a => (s \in subs' <=> s \in subs)
  /\ \A b \in Addresses \ {a} : owner'[b] = owner[b]
  /\ pc'[r] # "saveSubscription"
  /\ \/ a \in crossed'
     \/ /\ \A q \in Reqs \ {r} : ~Holds(q, a)
        /\ Alone(a)' /\ Kept(a)'
        /\ \A s \in Copied(r)' : s.addr # a

LEMMA SaveWrites ==
  ASSUME Typed, Addressed, NEW r \in Reqs, SavePushed(r)
  PROVE  Quiet \/ \E a \in Addresses : Writes(r, a)
  <1>1. /\ pc[r] = "savePushed" /\ cur[r] \in Subscriptions /\ UNCHANGED <<owner, crossed>>
        /\ subs' = subs \/ subs' = Upsert(cur[r])
    BY DEF SavePushed, hist, Typed, Control
  <1>2. cur[r] # NoSub /\ cur[r].addr \in Addresses
    BY <1>1 DEF Subscriptions, NoSub, Reqs
  <1>3. pc'[r] # "saveSubscription"
    BY <1>1, KindsStay DEF Statement, Fits, Keeps
  <1>4. CASE cur[r].addr \notin crossed
    <2>1. cur[r] \in subs
      BY <1>2, <1>4 DEF Addressed, Current, Copied
    <2>2. \A t \in subs : t.id = cur[r].id => t = cur[r]
      BY <2>1 DEF Typed, TypeOK
    <2>3. Upsert(cur[r]) = subs
      BY <2>1, <2>2 DEF Upsert
    <2>4. QED
      BY <1>1, <2>3 DEF Quiet
  <1>5. CASE cur[r].addr \in crossed /\ subs' = Upsert(cur[r])
    <2>1. Mine(cur[r]) /\ \A t \in subs : Mine(t)
      BY <1>2 DEF Addressed, Own, Copied
    <2>2. \A t \in subs : t.id = cur[r].id => t.addr = cur[r].addr
      BY <2>1 DEF Mine
    <2>3. \A s \in Subscriptions : s.addr # cur[r].addr => (s \in subs' <=> s \in subs)
      BY <1>5, <2>2 DEF Upsert
    <2>4. QED
      BY <1>1, <1>2, <1>3, <1>5, <2>3 DEF Writes
  <1>6. QED
    BY <1>1, <1>4, <1>5 DEF Quiet

LEMMA DropWrites ==
  ASSUME Typed, Addressed, NEW r \in Reqs, DropSubscription(r)
  PROVE  \E a \in Addresses : Writes(r, a)
  <1> PICK c, a : c = cur[r] /\ a = cur[r].addr
    OBVIOUS
  <1>1. /\ pc[r] = "drop" /\ c \in Subscriptions /\ subs' = {s \in subs : s.id # c.id}
        /\ Owned(r, a, NoUser) /\ NextSubscription(r, rows[r])
    BY DEF DropSubscription, Typed, Control
  <1>2. c # NoSub /\ a \in Addresses
    BY <1>1 DEF Subscriptions, NoSub, Reqs
  <1>3. pc'[r] # "saveSubscription" /\ crossed \subseteq crossed'
    BY <1>1, KindsStay DEF Statement, Fits, Keeps
  <1>4. Mine(c) /\ \A t \in subs : Mine(t)
    BY <1>2 DEF Addressed, Own, Copied
  <1>5. \A t \in subs : t.id = c.id => t.addr = a
    BY <1>4 DEF Mine
  <1>6. \A s \in Subscriptions : s.addr # a => (s \in subs' <=> s \in subs)
    BY <1>1, <1>5
  <1>7. /\ \A b \in Addresses \ {a} : owner'[b] = owner[b]
        /\ owner'[a] = NoUser
        /\ a \in crossed' \/ \A q \in Reqs \ {r} : ~Holds(q, a)
    BY <1>1, <1>2 DEF Owned, Typed, TypeOK
  <1>8. ASSUME a \notin crossed' PROVE Alone(a)' /\ Kept(a)' /\ \A s \in Copied(r)' : s.addr # a
    <2>1. Alone(a) /\ c \in subs
      BY <1>2, <1>3, <1>8 DEF Addressed, Current, Copied
    <2>2. \A s \in subs' : s.addr # a
      BY <1>1, <2>1 DEF Alone
    <2>3. Copied(r)' \subseteq rows[r] /\ c \notin rows[r] /\ rows[r] \subseteq Subscriptions
      BY <1>1 DEF NextSubscription, Copied, Addressed, Own, Typed, TypeOK
    <2>4. \A s \in rows[r] : s.addr # a
      <3> SUFFICES ASSUME NEW s \in rows[r], s.addr = a PROVE FALSE
        OBVIOUS
      <3>1. s # NoSub
        BY <2>3 DEF Subscriptions, NoSub, Reqs
      <3>2. s \in subs
        BY <1>3, <1>8, <3>1 DEF Addressed, Current, Copied
      <3>3. QED
        BY <2>1, <2>3, <3>2 DEF Alone
    <2>5. Alone(a)' /\ Kept(a)'
      BY <1>7, <2>2 DEF Alone, Kept
    <2>6. QED
      BY <2>3, <2>4, <2>5
  <1>9. QED
    BY <1>2, <1>3, <1>6, <1>7, <1>8 DEF Writes

(* The row a subscription saves is of the address it names.                  *)
LEMMA SavedIsMine ==
  ASSUME Typed, Addressed, NEW r \in Reqs, pc[r] = "saveSubscription"
  PROVE  /\ Subscription(r) \in Subscriptions /\ Mine(Subscription(r)) /\ req[r].item \in Addresses
         /\ Subscription(r).addr = req[r].item /\ Subscription(r).user = at[r] /\ at[r] \in Users
  <1>1. at[r] \in Users /\ req[r].kind = "subscribe" /\ req[r].item \in Addresses
    BY DEF Typed, Control, MayBeAt, Named, Statements
  <1>2. CASE cur[r] = NoSub
    BY <1>1, <1>2 DEF Subscription, Subscriptions, Mine
  <1>3. CASE cur[r] # NoSub
    <2>1. cur[r] \in Subscriptions /\ Mine(cur[r]) /\ cur[r].addr = req[r].item
      BY <1>3 DEF Typed, TypeOK, Addressed, Own, Copied
    <2>2. QED
      BY <1>1, <1>3, <2>1 DEF Subscription, Subscriptions, Mine
  <1>4. QED
    BY <1>2, <1>3

LEMMA SubscribeWrites ==
  ASSUME Typed, Addressed, NEW r \in Reqs, SaveSubscription(r)
  PROVE  Quiet \/ \E a \in Addresses : Writes(r, a)
  <1> PICK c, a : c = Subscription(r) /\ a = req[r].item
    OBVIOUS
  <1>1. pc[r] = "saveSubscription"
    BY DEF SaveSubscription
  <1>2. c \in Subscriptions /\ Mine(c) /\ a \in Addresses /\ c.addr = a /\ c.user = at[r] /\ at[r] \in Users
    BY <1>1, SavedIsMine
  <1>3. pc'[r] # "saveSubscription" /\ crossed \subseteq crossed'
    BY <1>1, KindsStay DEF Statement, Fits, Keeps
  <1>4. CASE Refused(c)
    BY <1>4 DEF SaveSubscription, Quiet
  <1>5. CASE ~Refused(c)
    <2>1. /\ subs' = Upsert(c) /\ Owned(r, a, at[r]) /\ cur' = [cur EXCEPT ![r] = NoSub] /\ rows' = rows
      BY <1>5 DEF SaveSubscription
    <2>2. \A t \in subs : t.id = c.id => t.addr = a
      BY <1>2 DEF Addressed, Own, Mine
    <2>3. \A s \in Subscriptions : s.addr # a => (s \in subs' <=> s \in subs)
      BY <1>2, <2>1, <2>2 DEF Upsert
    <2>4. /\ \A b \in Addresses \ {a} : owner'[b] = owner[b]
          /\ owner'[a] = at[r]
          /\ a \in crossed' \/ \A q \in Reqs \ {r} : ~Holds(q, a)
      BY <1>2, <2>1 DEF Owned, Typed, TypeOK
    <2>5. Copied(r)' = {}
      <3>1. req[r].kind = "subscribe"
        BY <1>1 DEF Typed, Control, MayBeAt
      <3>2. rows[r] = {}
        BY <3>1 DEF Addressed, Own, Dispatches
      <3>3. rows'[r] = {} /\ cur'[r] = NoSub
        BY <2>1, <3>2 DEF Typed, TypeOK
      <3>4. QED
        BY <3>3 DEF Copied
    <2>6. ASSUME a \notin crossed' PROVE Alone(a)' /\ Kept(a)'
      <3>1. a \notin crossed /\ Alone(a) /\ Current(r)
        BY <1>2, <1>3, <2>6 DEF Addressed
      <3>2. \A s \in subs : s.addr = a => s.id = c.id
        <4>1. CASE cur[r] = NoSub
          BY <1>1, <3>1, <4>1 DEF Current
        <4>2. CASE cur[r] # NoSub
          <5>1. cur[r].addr = a /\ cur[r] \in subs
            BY <1>1, <3>1, <4>2 DEF Current, Copied, Addressed, Own
          <5>2. c.id = cur[r].id
            BY <4>2 DEF Subscription
          <5>3. QED
            BY <3>1, <5>1, <5>2 DEF Alone
        <4>3. QED
          BY <4>1, <4>2
      <3>3. \A s \in subs' : s.addr = a => s = c
        BY <2>1, <3>2 DEF Upsert
      <3>4. c \in subs'
        BY <2>1 DEF Upsert
      <3>5. QED
        BY <1>2, <2>4, <3>3, <3>4 DEF Alone, Kept
    <2>7. QED
      BY <1>2, <1>3, <2>3, <2>4, <2>5, <2>6 DEF Writes
  <1>6. QED
    BY <1>4, <1>5

LEMMA UnsubscribeWrites ==
  ASSUME Typed, Addressed, NEW r \in Reqs, Unsubscribe(r)
  PROVE  Quiet \/ \E a \in Addresses : Writes(r, a)
  <1> PICK a : a = req[r].item
    OBVIOUS
  <1>1. /\ pc[r] = "unsubscribe" /\ subs' = {s \in subs : s.user # at[r] \/ s.addr # a} /\ UNCHANGED <<rows, cur>>
        /\ IF owner[a] = at[r] THEN Owned(r, a, NoUser) ELSE UNCHANGED <<owner, crossed>>
    BY DEF Unsubscribe
  <1>2. a \in Addresses /\ req[r].kind = "unsubscribe" /\ at[r] \in Users
    BY <1>1 DEF Typed, Control, MayBeAt, Named, Statements
  <1>3. pc'[r] # "saveSubscription" /\ crossed \subseteq crossed'
    BY <1>1, KindsStay DEF Statement, Fits, Keeps
  <1>4. \A s \in Subscriptions : s.addr # a => (s \in subs' <=> s \in subs)
    BY <1>1
  <1>5. Copied(r)' = {}
    BY <1>1, <1>2 DEF Copied, Addressed, Own, Dispatches
  <1>6. CASE owner[a] = at[r]
    <2>1. /\ \A b \in Addresses \ {a} : owner'[b] = owner[b]
          /\ owner'[a] = NoUser
          /\ a \in crossed' \/ \A q \in Reqs \ {r} : ~Holds(q, a)
      BY <1>1, <1>2, <1>6 DEF Owned, Typed, TypeOK
    <2>2. ASSUME a \notin crossed' PROVE Alone(a)' /\ Kept(a)'
      <3>1. Kept(a)
        BY <1>2, <1>3, <2>2 DEF Addressed
      <3>2. \A s \in subs' : s.addr # a
        BY <1>1, <1>6, <3>1 DEF Kept
      <3>3. QED
        BY <2>1, <3>2 DEF Alone, Kept
    <2>3. QED
      BY <1>2, <1>3, <1>4, <1>5, <2>1, <2>2 DEF Writes
  <1>7. CASE owner[a] # at[r] /\ a \in crossed
    BY <1>1, <1>2, <1>3, <1>4, <1>7 DEF Writes
  <1>8. CASE owner[a] # at[r] /\ a \notin crossed
    <2>1. \A s \in subs : s.addr = a => s.user # at[r]
      BY <1>2, <1>8 DEF Addressed, Kept
    <2>2. QED
      BY <1>1, <1>8, <2>1 DEF Quiet
  <1>9. QED
    BY <1>6, <1>7, <1>8

LEMMA StatementWrites ==
  ASSUME Typed, Addressed, NEW r \in Reqs, Statement(r) \/ Error(r)
  PROVE  Quiet \/ \E a \in Addresses : Writes(r, a)
  <1>1. CASE ~SavePushed(r) /\ ~DropSubscription(r) /\ ~SaveSubscription(r) /\ ~Unsubscribe(r)
    BY <1>1 DEF Statement, Error, FindSettings, InsertSettings, SavePatch, FindDue, ReloadSettings,
                CreateNotification, FindSubscriptions, Push, FindSubscription, FindUnread, SaveRead,
                MarkAllAsRead, Delete, db, hist, Quiet
  <1>2. QED
    BY <1>1, SaveWrites, DropWrites, SubscribeWrites, UnsubscribeWrites

LEMMA MineStays ==
  ASSUME Typed, NEW r \in Reqs, Statement(r) \/ Error(r), NEW s \in Subscriptions, Mine(s)
  PROVE  Mine(s)'
  <1>1. req'[s.id] = req[s.id]
    <2>1. s.id \in Reqs /\ req[s.id].kind = "subscribe"
      BY DEF Mine, Subscriptions
    <2>2. CASE pc[r] = "due"
      <3>1. r # s.id
        BY <2>1, <2>2 DEF Typed, Control, MayBeAt
      <3>2. QED
        BY <2>1, <2>2, <3>1, DueLists DEF Lists
    <2>3. CASE pc[r] # "due"
      BY <2>3, StatementSteps DEF Steps
    <2>4. QED
      BY <2>2, <2>3
  <1>2. QED
    BY <1>1 DEF Mine

LEMMA StatementOwn ==
  ASSUME Typed, Addressed, NEW r \in Reqs, Statement(r) \/ Error(r)
  PROVE  Own'
  <1>1. /\ Fits(r) /\ Loads(r)
        /\ \A q \in Reqs \ {r} : pc'[q] = pc[q] /\ req'[q] = req[q] /\ rows'[q] = rows[q] /\ cur'[q] = cur[q]
    BY KindsStay, StatementLoads DEF Fits, Moves, Keeps, Addressed
  <1>2. \A q \in Reqs : Copied(q) \subseteq Subscriptions
    BY DEF Copied, Typed, TypeOK
  <1>3. subs \subseteq Subscriptions /\ \A s \in subs : Mine(s)'
    BY MineStays DEF Typed, TypeOK, Addressed, Own
  <1>4. \A q \in Reqs : \A s \in Copied(q) : Mine(s)'
    BY <1>2, MineStays DEF Addressed, Own
  <1>5. \A s \in subs' : Mine(s)'
    <2>1. CASE SavePushed(r)
      <3>1. cur[r] \in Copied(r) /\ (subs' = subs \/ subs' = Upsert(cur[r]))
        BY <2>1 DEF SavePushed, Typed, Control, Copied, Subscriptions, NoSub, Reqs
      <3>2. QED
        BY <1>3, <1>4, <3>1 DEF Upsert
    <2>2. CASE SaveSubscription(r)
      <3> PICK c : c = Subscription(r)
        OBVIOUS
      <3>1. subs' = subs \/ subs' = Upsert(c)
        BY <2>2 DEF SaveSubscription
      <3>2. Mine(c)'
        <4>1. c \in Subscriptions /\ Mine(c)
          BY <2>2, SavedIsMine DEF SaveSubscription
        <4>2. QED
          BY <4>1, MineStays
      <3>3. QED
        BY <1>3, <3>1, <3>2 DEF Upsert
    <2>3. CASE ~SavePushed(r) /\ ~SaveSubscription(r)
      <3>1. subs' \subseteq subs
        BY <2>3 DEF Statement, Error, FindSettings, InsertSettings, SavePatch, FindDue, ReloadSettings,
                CreateNotification, FindSubscriptions, Push, DropSubscription, FindSubscription, Unsubscribe,
                FindUnread, SaveRead, MarkAllAsRead, Delete, db, hist
      <3>2. QED
        BY <1>3, <3>1
    <2>4. QED
      BY <2>1, <2>2, <2>3
  <1>6. ASSUME NEW q \in Reqs
        PROVE  /\ \A s \in Copied(q)' : Mine(s)'
               /\ cur'[q] \notin rows'[q]
               /\ rows'[q] # {} => req'[q].kind \in Dispatches
               /\ cur'[q] # NoSub => req'[q].kind \in Dispatches \cup {"subscribe"}
               /\ pc'[q] = "saveSubscription" /\ cur'[q] # NoSub => cur'[q].addr = req'[q].item
    <2>1. CASE q = r
      <3>1. \A s \in Copied(r)' : Mine(s)'
        BY <1>1, <1>3, <1>4 DEF Loads
      <3>2. QED
        BY <1>1, <2>1, <3>1 DEF Loads
    <2>2. CASE q # r
      <3>1. Copied(q)' = Copied(q)
        BY <1>1, <2>2 DEF Copied
      <3>2. QED
        BY <1>1, <1>4, <2>2, <3>1 DEF Addressed, Own
    <2>3. QED
      BY <2>1, <2>2
  <1>7. QED
    BY <1>5, <1>6 DEF Own

LEMMA StatementAddressed ==
  ASSUME Typed, Addressed, NEW r \in Reqs, Statement(r) \/ Error(r)
  PROVE  Addressed'
  <1>1. /\ Fits(r) /\ Loads(r) /\ crossed \subseteq crossed'
        /\ \A q \in Reqs \ {r} : pc'[q] = pc[q] /\ req'[q] = req[q] /\ rows'[q] = rows[q] /\ cur'[q] = cur[q]
    BY KindsStay, StatementLoads DEF Fits, Moves, Keeps, Addressed
  <1>2. subs \subseteq Subscriptions /\ subs' \subseteq Subscriptions /\ \A q \in Reqs : Copied(q) \subseteq Subscriptions
    BY <1>1 DEF Fits, Tables, Copied, Typed, TypeOK
  <1>3. \A q \in Reqs \ {r} : Copied(q)' = Copied(q)
    BY <1>1 DEF Copied
  <1>4. CASE Quiet
    <2>1. ASSUME NEW q \in Reqs \ {r} PROVE Current(q)'
      BY <1>1, <1>3, <1>4 DEF Quiet, Addressed, Current
    <2>2. Current(r)'
      <3>1. Current(r)
        BY DEF Addressed
      <3>2. \A s \in Copied(r)' : s.addr \in crossed' \/ s \in subs'
        BY <1>1, <1>4, <3>1 DEF Quiet, Loads, Current
      <3>3. pc'[r] = "saveSubscription" /\ cur'[r] = NoSub => \A s \in subs' : s.addr # req'[r].item
        BY <1>1, <1>4 DEF Quiet, Loads
      <3>4. QED
        BY <3>2, <3>3 DEF Current
    <2>3. \A a \in Addresses \ crossed' : Alone(a)' /\ Kept(a)'
      BY <1>1, <1>4 DEF Quiet, Addressed, Alone, Kept
    <2>4. QED
      BY <2>1, <2>2, <2>3, StatementOwn DEF Addressed
  <1>5. ASSUME NEW a \in Addresses, Writes(r, a) PROVE Addressed'
    <2>1. /\ \A s \in Subscriptions : s.addr # a => (s \in subs' <=> s \in subs)
          /\ \A b \in Addresses \ {a} : owner'[b] = owner[b]
          /\ pc'[r] # "saveSubscription"
          /\ a \in crossed' \/ (\A q \in Reqs \ {r} : ~Holds(q, a))
          /\ a \in crossed' \/ (Alone(a)' /\ Kept(a)')
          /\ a \in crossed' \/ (\A s \in Copied(r)' : s.addr # a)
      BY <1>5 DEF Writes
    <2>2. ASSUME NEW q \in Reqs \ {r} PROVE Current(q)'
      <3>1. Current(q)
        BY DEF Addressed
      <3>2. ASSUME NEW s \in Copied(q) PROVE s.addr \in crossed' \/ s \in subs'
        <4>1. CASE s.addr = a
          BY <2>1, <4>1 DEF Holds, Copied
        <4>2. CASE s.addr # a
          BY <1>1, <1>2, <2>1, <3>1, <4>2 DEF Current
        <4>3. QED
          BY <4>1, <4>2
      <3>3. ASSUME pc[q] = "saveSubscription", cur[q] = NoSub
            PROVE  req[q].item \in crossed' \/ \A s \in subs' : s.addr # req[q].item
        <4>1. CASE req[q].item = a
          BY <2>1, <3>3, <4>1 DEF Holds
        <4>2. CASE req[q].item # a
          BY <1>1, <1>2, <2>1, <3>1, <3>3, <4>2 DEF Current
        <4>3. QED
          BY <4>1, <4>2
      <3>4. QED
        BY <1>1, <1>3, <3>2, <3>3 DEF Current
    <2>3. Current(r)'
      <3>1. Current(r)
        BY DEF Addressed
      <3>2. ASSUME NEW s \in Copied(r)' PROVE s.addr \in crossed' \/ s \in subs'
        <4>1. CASE s.addr = a
          BY <2>1, <3>2, <4>1
        <4>2. CASE s.addr # a
          <5>1. s \in Subscriptions /\ (s.addr \in crossed \/ s \in subs)
            BY <1>1, <1>2, <3>1, <3>2 DEF Loads, Current
          <5>2. QED
            BY <1>1, <2>1, <4>2, <5>1
        <4>3. QED
          BY <4>1, <4>2
      <3>3. QED
        BY <2>1, <3>2 DEF Current
    <2>4. ASSUME NEW b \in Addresses \ crossed' PROVE Alone(b)' /\ Kept(b)'
      <3>1. CASE b = a
        BY <2>1, <2>4, <3>1
      <3>2. CASE b # a
        <4>1. Alone(b) /\ Kept(b) /\ owner'[b] = owner[b]
          BY <1>1, <2>1, <3>2 DEF Addressed
        <4>2. \A s \in Subscriptions : s.addr = b => (s \in subs' <=> s \in subs)
          BY <2>1, <3>2
        <4>3. QED
          BY <1>2, <4>1, <4>2 DEF Alone, Kept
      <3>3. QED
        BY <3>1, <3>2
    <2>5. QED
      BY <2>2, <2>3, <2>4, StatementOwn DEF Addressed
  <1>6. QED
    BY <1>4, <1>5, StatementWrites

LEMMA StartAddressed == ASSUME Typed, Addressed, NEW r \in Reqs, Starts(r) PROVE Addressed'
  <1>1. UNCHANGED <<subs, rows, cur, owner, crossed>> /\ pc'[r] # "saveSubscription"
    BY FirstStatements DEF Starts, db
  <1>2. req[r].kind = "none"
    BY DEF Starts, Typed, Control, MayBeAt
  <1>3. \A q \in Reqs : req[q].kind # "none" => req'[q] = req[q]
    BY <1>2 DEF Starts
  <1>4. \A s \in Subscriptions : Mine(s) => Mine(s)'
    BY <1>3 DEF Mine, Subscriptions
  <1>5. rows[r] = {} /\ cur[r] = NoSub
    BY <1>2 DEF Addressed, Own, Dispatches
  <1>6. \A q \in Reqs : Copied(q) \subseteq Subscriptions /\ Copied(q)' = Copied(q)
    BY <1>1 DEF Copied, Typed, TypeOK
  <1>7. \A q \in Reqs \ {r} : pc'[q] = pc[q] /\ req'[q] = req[q]
    BY DEF Starts
  <1>8. Own'
    <2>1. \A s \in subs' : Mine(s)'
      BY <1>1, <1>4 DEF Addressed, Own, Typed, TypeOK
    <2>2. \A q \in Reqs : \A s \in Copied(q)' : Mine(s)'
      BY <1>4, <1>6 DEF Addressed, Own
    <2>3. QED
      BY <1>1, <1>5, <1>7, <2>1, <2>2 DEF Addressed, Own
  <1>9. \A q \in Reqs : Current(q)'
    BY <1>1, <1>6, <1>7 DEF Addressed, Current
  <1>10. \A a \in Addresses \ crossed' : Alone(a)' /\ Kept(a)'
    BY <1>1 DEF Addressed, Alone, Kept
  <1>11. QED
    BY <1>8, <1>9, <1>10 DEF Addressed

(* A push address belongs to the user who subscribed it last, and to nobody   *)
(* after it was unsubscribed or dropped, unless a request held a copy of the *)
(* row at the time.                                                          *)
THEOREM AddressesAreKept == Spec => []AddressesAsAsked
  <1>1. Init => Addressed
    BY DEF Init, Addressed, Own, Copied, Current, Alone, Kept
  <1>2. Typed /\ Addressed /\ [Next]_vars => Addressed'
    <2> SUFFICES ASSUME Typed, Addressed, [Next]_vars PROVE Addressed'
      OBVIOUS
    <2>1. CASE UNCHANGED vars
      BY <2>1 DEF vars, Addressed, Own, Mine, Copied, Current, Alone, Kept
    <2>2. QED
      BY <2>1, StartStarts, StartAddressed, StatementAddressed DEF Next, Rest
  <1>3. Typed /\ Addressed => AddressesAsAsked
    <2> SUFFICES ASSUME Typed, Addressed, NEW a \in Addresses \ crossed
                 PROVE  {s.user : s \in {t \in subs : t.addr = a}} = {owner[a]} \ {NoUser}
      BY DEF AddressesAsAsked
    <2>1. Kept(a)
      BY DEF Addressed
    <2>2. \A s \in subs : s.user # NoUser
      BY NotificationsAssumption DEF Typed, TypeOK, Subscriptions
    <2>3. QED
      BY <2>1, <2>2 DEF Kept
  <1>4. QED
    BY <1>1, <1>2, <1>3, AlwaysTyped, PTL DEF Spec
=============================================================================
