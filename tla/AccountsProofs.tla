--------------------------- MODULE AccountsProofs ---------------------------
(***************************************************************************)
(* Theorems about Accounts, for any addresses, names, identities and       *)
(* bounds, and any number of requests and errors: the unique indexes, the  *)
(* ways in, the profiles, the reset codes and the collisions.              *)
(*                                                                         *)
(* Typed says which request reaches which statement with what.  On it      *)
(* rest, independently of each other, the invariants of the other          *)
(* theorems.                                                               *)
(***************************************************************************)
EXTENDS Accounts, TLAPS

WithUser == {"loadUser", "findName", "saveUser", "findPassword", "insertPassword", "savePassword",
             "insertCode", "saveBoth", "saveOther"}
Holding  == {"findName", "saveUser"}
Linking  == {"findAccount", "insertAccount", "updateAccount", "commit"}

(* Which requests come to which statements.                                  *)
MayBeAt(q, s) ==
  /\ s = "idle" <=> q.kind = "none"
  /\ s \in {"findTaken", "insertUser"} => q.kind = "signUp"
  /\ s = "insertPassword" => q.kind \in {"signUp", "createPassword"}
  /\ s \in {"loadUser", "saveUser"} => q.kind \in {"patch", "rename"}
  /\ s = "findName" => q.kind = "rename"
  /\ s = "findPassword" => q.kind \in {"createPassword", "changePassword", "reset"}
  /\ s = "savePassword" => q.kind = "changePassword"
  /\ s \in {"findEmail", "insertCode", "mail"} => q.kind = "askReset"
  /\ s \in {"findCode", "saveBoth", "saveOther"} => q.kind = "reset"
  /\ s \in {"exchange", "findOrCreate", "insertFresh"} \cup Linking => q.kind = "oauth"
  /\ s \in {"findOrCreate", "insertFresh"} => /\ q.email \in Emails /\ q.name \in Names \cup {NoName}
                                              /\ q.identity \in Google => q.name = NoName

(* What a request of each kind names.                                        *)
Named(q) ==
  /\ q.kind = "signUp" => q.email \in Emails /\ q.name \in Names
  /\ q.kind = "rename" => q.email = Same /\ q.name \in Names /\ q.item = None
  /\ q.kind = "patch" => q.item \in users \cup {None, New}
  /\ q.kind = "reset" => q.item \in Reqs /\ codes[q.item] # None
  /\ IF q.kind = "oauth" THEN q.identity \in Identities ELSE q.identity = NoName

(* What a request has found or loaded.                                       *)
Found(r) ==
  /\ pc[r] \in WithUser => at[r] \in users
  /\ pc[r] \in Linking => at[r] \in users \cup (fresh \cap {r})
  /\ pc[r] = "insertPassword" /\ req[r].kind = "signUp" => at[r] = r
  /\ pc[r] \in Holding => copy[r] \in Row

(* Which requests have inserted a user.                                      *)
Inserted(r) ==
  /\ r \in users => \/ req[r].kind = "signUp" /\ pc[r] \in {"insertPassword", "done", "failed"}
                    \/ req[r].kind = "oauth" /\ pc[r] = "done"
                    \/ req[r].kind = "patch" /\ pc[r] = "done" /\ req[r].item = New
  /\ r \in fresh => pc[r] \in Linking /\ at[r] = r

Ready(r) == Named(req[r]) /\ MayBeAt(req[r], pc[r]) /\ Found(r) /\ Inserted(r)
Control  == \A r \in Reqs : Ready(r)
Typed    == TypeOK /\ Control

-----------------------------------------------------------------------------
(* Requests *)

Sent(k) == {q \in Request : q.kind = k /\ Named(q)
                            /\ (k \in {"patch", "rename", "createPassword", "changePassword"} => q.user \in users)}

LEMMA NoneIsNoId == None \notin Ids /\ New \notin Ids \cup {None} /\ 0 \notin Reqs /\ Reqs \subseteq Ids
  BY AccountsAssumption DEF None, New, Ids, Reqs

LEMMA AsksTypes ==
  ASSUME NEW k \in AllKinds, NEW u \in Ids \cup {None}, NEW e \in Emails \cup {Same},
         NEW n \in Names \cup {NoName, Same}, NEW p \in Ids \cup {None, New}, NEW i \in Identities \cup {NoName},
         k = "signUp" => e \in Emails /\ n \in Names, k = "rename" => e = Same /\ n \in Names /\ p = None,
         k = "patch" => p \in users \cup {None, New},
         k = "reset" => p \in Reqs /\ codes[p] # None,
         IF k = "oauth" THEN i \in Identities ELSE i = NoName,
         k \in {"patch", "rename", "createPassword", "changePassword"} => u \in users
  PROVE  Asks(k, u, e, n, p, i) \in Sent(k)
  BY DEF Asks, Sent, Request, Named

LEMMA SignUpRequests == Requests("signUp") = {Asks("signUp", None, e, n, None, NoName) : e \in Emails, n \in Names}
  BY DEF Requests

LEMMA PatchesOf ==
  ASSUME NEW U, NEW E, NEW N, NEW I, NEW q \in {Asks("patch", u, e, n, i, NoName) : u \in U, e \in E, n \in N, i \in I}
  PROVE  \E u \in U : \E e \in E : \E n \in N : \E i \in I : q = Asks("patch", u, e, n, i, NoName)
  OBVIOUS

LEMMA PatchRequests ==
  Requests("patch") = {Asks("patch", u, e, n, i, NoName) : u \in users, e \in Emails \cup {Same},
                         n \in Names \cup {NoName, Same}, i \in users \cup {None, New}}
  BY DEF Requests

LEMMA RenameRequests == Requests("rename") = {Asks("rename", u, Same, n, None, NoName) : u \in users, n \in Names}
  BY DEF Requests

LEMMA CreateRequests == Requests("createPassword") = {Asks("createPassword", u, Same, Same, None, NoName) : u \in users}
  BY DEF Requests

LEMMA ChangeRequests ==
  Requests("changePassword") = {Asks("changePassword", u, Same, Same, p, NoName) : u \in users, p \in Ids}
  BY DEF Requests

LEMMA AskRequests == Requests("askReset") = {Asks("askReset", None, e, Same, None, NoName) : e \in Emails}
  BY DEF Requests

LEMMA ResetRequests ==
  Requests("reset") = {Asks("reset", None, Same, Same, c, NoName) : c \in {c \in Reqs : codes[c] # None /\ pc[c] \in Ended}}
  BY DEF Requests

LEMMA OAuthRequests == Requests("oauth") = {Asks("oauth", None, Same, Same, None, i) : i \in Identities}
  BY DEF Requests

LEMMA RequestTypes == ASSUME Typed, NEW k \in AllKinds, NEW q \in Requests(k) PROVE q \in Sent(k)
  <1>1. /\ users \subseteq Ids /\ Reqs \subseteq Ids
        /\ None \in Ids \cup {None} /\ Same \in Emails \cup {Same} /\ Same \in Names \cup {NoName, Same}
        /\ NoName \in Identities \cup {NoName}
    BY AccountsAssumption DEF Typed, TypeOK, Ids, Reqs
  <1>2. CASE k = "signUp"
    <2> PICK e \in Emails, n \in Names : q = Asks("signUp", None, e, n, None, NoName)
      BY <1>2, SignUpRequests
    <2> QED
      BY <1>1, <1>2, AsksTypes
  <1>3. CASE k = "patch"
    <2>1. q \in Requests("patch")
      BY <1>3
    <2> PICK E : E = Emails \cup {Same}
      OBVIOUS
    <2> PICK N : N = Names \cup {NoName, Same}
      OBVIOUS
    <2> PICK I : I = users \cup {None, New}
      OBVIOUS
    <2>2. q \in {Asks("patch", u, e, n, i, NoName) : u \in users, e \in E, n \in N, i \in I}
      BY <2>1, PatchRequests
    <2>3. \E u \in users : \E e \in E : \E n \in N : \E i \in I : q = Asks("patch", u, e, n, i, NoName)
      BY <2>2, PatchesOf
    <2> PICK u \in users, e \in E, n \in N, i \in I : q = Asks("patch", u, e, n, i, NoName)
      BY <2>3, Zenon
    <2> QED
      BY <1>1, <1>3, AsksTypes
  <1>4. CASE k = "rename"
    <2> PICK u \in users, n \in Names : q = Asks("rename", u, Same, n, None, NoName)
      BY <1>4, RenameRequests
    <2> QED
      BY <1>1, <1>4, AsksTypes
  <1>5. CASE k = "createPassword"
    <2> PICK u \in users : q = Asks("createPassword", u, Same, Same, None, NoName)
      BY <1>5, CreateRequests
    <2> QED
      BY <1>1, <1>5, AsksTypes
  <1>6. CASE k = "changePassword"
    <2> PICK u \in users, p \in Ids : q = Asks("changePassword", u, Same, Same, p, NoName)
      BY <1>6, ChangeRequests
    <2> QED
      BY <1>1, <1>6, AsksTypes
  <1>7. CASE k = "askReset"
    <2> PICK e \in Emails : q = Asks("askReset", None, e, Same, None, NoName)
      BY <1>7, AskRequests
    <2> QED
      BY <1>1, <1>7, AsksTypes
  <1>8. CASE k = "reset"
    <2> PICK c \in {c \in Reqs : codes[c] # None /\ pc[c] \in Ended} : q = Asks("reset", None, Same, Same, c, NoName)
      BY <1>8, ResetRequests
    <2> QED
      BY <1>1, <1>8, AsksTypes
  <1>9. CASE k = "oauth"
    <2> PICK i \in Identities : q = Asks("oauth", None, Same, Same, None, i)
      BY <1>9, OAuthRequests
    <2> QED
      BY <1>1, <1>9, AsksTypes
  <1>10. QED
    BY <1>2, <1>3, <1>4, <1>5, <1>6, <1>7, <1>8, <1>9 DEF AllKinds

-----------------------------------------------------------------------------
(* What a statement keeps *)

Tables ==
  /\ users \subseteq Ids /\ fresh \subseteq Reqs \ users
  /\ row \in [Ids -> Row \cup {NoRow}] /\ asked \in [Ids -> Row \cup {NoRow}]
  /\ \A u \in users \cup fresh : row[u] \in Row /\ asked[u] \in Row
  /\ \A u, v \in users \cup fresh : u # v => ~Clash(row[u], row[v])
  /\ password \in [Ids -> Ids \cup {None}] /\ \A u \in Ids \ users : password[u] = None
  /\ codes \in [Reqs -> users \cup {None}]
  /\ revoked \cup expired \subseteq {c \in Reqs : codes[c] # None}
  /\ link \in [Identities -> users \cup {None}]
  /\ locked \in [Reqs -> SUBSET Identities]
  /\ \A q, r \in Reqs : q # r => locked[q] \cap locked[r] = {}
  /\ crossed \subseteq users /\ collided \subseteq Reqs

Locals ==
  /\ req \in [Reqs -> Request] /\ pc \in [Reqs -> Steps]
  /\ at \in [Reqs -> Ids \cup {None}] /\ copy \in [Reqs -> Row \cup {NoRow}]
  /\ todo \in [Reqs -> SUBSET {"code", "password"}]
  /\ before \in [Reqs -> SUBSET Reqs]
  /\ errors \in 0..MaxErrors

LEMMA Parts == TypeOK => Tables /\ Locals
  BY DEF TypeOK, Tables, Locals

(* A request moves itself only, and inserts no user but its own.             *)
Moves(r) ==
  \A q \in Reqs \ {r} : req'[q] = req[q] /\ pc'[q] = pc[q] /\ at'[q] = at[q] /\ copy'[q] = copy[q]
Grows(r) ==
  /\ users \subseteq users' /\ users' \subseteq users \cup {r} /\ fresh' \ {r} = fresh \ {r}
  /\ \A c \in Reqs : codes[c] # None => codes'[c] # None

Fits(r) == Tables' /\ Locals' /\ Moves(r) /\ Grows(r) /\ Ready(r)'

LEMMA FitsTyped == ASSUME Typed, NEW r \in Reqs, Fits(r) PROVE Typed'
  <1>1. TypeOK'
    BY DEF Fits, Tables, Locals, TypeOK
  <1>2. ASSUME NEW q \in Reqs PROVE Ready(q)'
    <2>1. CASE q = r
      BY <2>1 DEF Fits
    <2>2. CASE q # r
      <3>1. /\ req'[q] = req[q] /\ pc'[q] = pc[q] /\ at'[q] = at[q] /\ copy'[q] = copy[q]
            /\ users \subseteq users' /\ (q \in users' <=> q \in users) /\ (q \in fresh' <=> q \in fresh)
        BY <2>2 DEF Fits, Moves, Grows
      <3>2. Ready(q)
        BY DEF Typed, Control
      <3>3. Named(req[q])'
        BY <3>1, <3>2 DEF Ready, Named, Fits, Grows
      <3>4. MayBeAt(req[q], pc[q])'
        BY <3>1, <3>2 DEF Ready, MayBeAt
      <3>5. Found(q)'
        BY <3>1, <3>2 DEF Ready, Found
      <3>6. Inserted(q)'
        BY <3>1, <3>2 DEF Ready, Inserted
      <3>7. QED
        BY <3>3, <3>4, <3>5, <3>6 DEF Ready
    <2>3. QED
      BY <2>1, <2>2
  <1>3. QED
    BY <1>1, <1>2 DEF Typed, Control

-----------------------------------------------------------------------------
(* Statements that read *)

(* A look-up changes its request alone.                                      *)
Looks(r) ==
  /\ UNCHANGED <<db, tx, hist, errors, before>>
  /\ Moves(r) /\ Locals'

LEMMA LooksFit ==
  ASSUME Typed, NEW r \in Reqs, Looks(r), Named(req'[r]), MayBeAt(req'[r], pc'[r]), Found(r)',
         r \notin users, r \in fresh => pc'[r] \in Linking /\ at'[r] = r
  PROVE  Fits(r)
  <1>1. Tables'
    BY Parts DEF Typed, Looks, Tables, db, tx, hist, Clash
  <1>2. Grows(r)
    BY DEF Grows, Looks, db, tx
  <1>3. Inserted(r)' /\ Named(req[r])' /\ MayBeAt(req[r], pc[r])'
    BY DEF Inserted, Named, MayBeAt, Looks, db, tx
  <1>4. QED
    BY <1>1, <1>2, <1>3 DEF Looks, Fits, Ready

(* One that changes nothing but the statement it is at.                      *)
LEMMA GotoFits ==
  ASSUME Typed, NEW r \in Reqs, pc[r] \notin Ended, NEW s \in Steps \ {"idle"}, MayBeAt(req[r], s),
         Goto(r, s), UNCHANGED <<db, tx, local, hist, req, before>>,
         s \in WithUser => at[r] \in users, s \in Linking => pc[r] \in Linking,
         s = "insertPassword" => req[r].kind # "signUp", s \in Holding => pc[r] \in Holding,
         pc[r] \in Linking => s \in Linking, pc[r] # "insertPassword"
  PROVE  Fits(r)
  <1>1. pc' = [pc EXCEPT ![r] = s] /\ pc'[r] = s
    BY DEF Goto, Typed, TypeOK
  <1>2. Looks(r)
    BY <1>1, Parts DEF Looks, Moves, Locals, local, Typed
  <1>3. Ready(r)
    BY DEF Typed, Control
  <1>4. Found(r)'
    BY <1>1, <1>3 DEF Ready, Found, db, tx, local, Holding, WithUser, Linking
  <1>5. r \notin users /\ (r \in fresh => s \in Linking /\ at'[r] = r)
    BY <1>3 DEF Ready, Inserted, local, Ended
  <1>6. QED
    BY <1>1, <1>2, <1>3, <1>4, <1>5, LooksFit DEF Ready

LEMMA FindTakenFits == ASSUME Typed, NEW r \in Reqs, FindTaken(r) PROVE Fits(r)
  <1> DEFINE s == IF Taken(r) THEN "refused" ELSE "insertUser"
  <1>1. s \in {"refused", "insertUser"} /\ Goto(r, s) /\ pc[r] = "findTaken"
    BY DEF FindTaken
  <1>2. MayBeAt(req[r], s)
    BY <1>1 DEF Typed, Control, Ready, MayBeAt, Linking
  <1> HIDE DEF s
  <1>3. UNCHANGED <<db, tx, local, hist, req, before>>
    BY DEF FindTaken
  <1>4. QED
    BY <1>1, <1>2, <1>3, GotoFits DEF Steps, Ended, WithUser, Linking, Holding

LEMMA FindNameFits == ASSUME Typed, NEW r \in Reqs, FindName(r) PROVE Fits(r)
  <1> DEFINE s == IF \E u \in users : row[u].name = req[r].name THEN "refused" ELSE "saveUser"
  <1>1. s \in {"refused", "saveUser"} /\ Goto(r, s) /\ pc[r] = "findName"
    BY DEF FindName
  <1>2. MayBeAt(req[r], s) /\ at[r] \in users
    BY <1>1 DEF Typed, Control, Ready, Found, WithUser, MayBeAt, Linking
  <1> HIDE DEF s
  <1>3. UNCHANGED <<db, tx, local, hist, req, before>>
    BY DEF FindName
  <1>4. QED
    BY <1>1, <1>2, <1>3, GotoFits DEF Steps, Ended, WithUser, Linking, Holding

LEMMA SendMailFits == ASSUME Typed, NEW r \in Reqs, SendMail(r) PROVE Fits(r)
  <1>1. Goto(r, "done") /\ pc[r] = "mail" /\ UNCHANGED <<db, tx, local, hist, req, before>>
    BY DEF SendMail
  <1>2. MayBeAt(req[r], "done")
    BY <1>1 DEF Typed, Control, Ready, MayBeAt, Linking
  <1>3. QED
    BY <1>1, <1>2, GotoFits DEF Steps, Ended, WithUser, Linking, Holding

LEMMA FindAccountFits == ASSUME Typed, NEW r \in Reqs, FindAccount(r) PROVE Fits(r)
  <1> DEFINE s == IF link[req[r].identity] = None THEN "insertAccount" ELSE "updateAccount"
  <1>1. s \in {"insertAccount", "updateAccount"} /\ Goto(r, s) /\ pc[r] = "findAccount"
    BY DEF FindAccount
  <1>2. MayBeAt(req[r], s)
    BY <1>1 DEF Typed, Control, Ready, MayBeAt, Linking
  <1> HIDE DEF s
  <1>3. UNCHANGED <<db, tx, local, hist, req, before>>
    BY DEF FindAccount
  <1>4. QED
    BY <1>1, <1>2, <1>3, GotoFits DEF Steps, Ended, WithUser, Linking, Holding

LEMMA LoadUserFits == ASSUME Typed, NEW r \in Reqs, LoadUser(r) PROVE Fits(r)
  <1> DEFINE s == IF req[r].kind = "patch" THEN "saveUser" ELSE "findName"
  <1>1. s \in Holding /\ pc[r] = "loadUser" /\ pc' = [pc EXCEPT ![r] = s] /\ req' = req /\ at' = at
        /\ copy' = [copy EXCEPT ![r] = row[at[r]]] /\ UNCHANGED <<db, tx, todo, errors, hist, before>>
    BY DEF LoadUser, Goto, Holding
  <1>2. at[r] \in users /\ row[at[r]] \in Row /\ Named(req[r]) /\ r \notin users /\ r \notin fresh
    BY <1>1 DEF Typed, TypeOK, Control, Ready, Found, Inserted, WithUser, Linking
  <1>3. MayBeAt(req[r], s)
    BY <1>1 DEF Typed, Control, Ready, MayBeAt, Linking, Holding
  <1> HIDE DEF s
  <1>4. Looks(r)
    BY <1>1, <1>2, Parts DEF Looks, Moves, Locals, Typed, Holding, Steps
  <1>5. Found(r)'
    BY <1>1, <1>2 DEF Found, Holding, Linking, db, Typed, TypeOK
  <1>6. QED
    BY <1>1, <1>2, <1>3, <1>4, <1>5, LooksFit DEF Typed, TypeOK

LEMMA FindPasswordFits == ASSUME Typed, NEW r \in Reqs, FindPassword(r) PROVE Fits(r)
  <1>1. pc[r] = "findPassword" /\ UNCHANGED <<db, tx, at, copy, errors, hist, req, before>>
        /\ at[r] \in users /\ Named(req[r]) /\ r \notin users /\ r \notin fresh
    BY DEF FindPassword, Typed, TypeOK, Control, Ready, Found, Inserted, WithUser, Linking
  <1>2. ASSUME NEW s \in {"refused", "insertPassword", "savePassword"}, Goto(r, s), todo' = todo,
               s = "insertPassword" => req[r].kind = "createPassword",
               s = "savePassword" => req[r].kind = "changePassword"
        PROVE  Fits(r)
    <2>1. MayBeAt(req[r], s)
      BY <1>1, <1>2 DEF Typed, Control, Ready, MayBeAt, Linking
    <2>2. UNCHANGED local
      BY <1>1, <1>2 DEF local
    <2>3. QED
      BY <1>1, <1>2, <2>1, <2>2, GotoFits DEF Steps, Ended, WithUser, Linking, Holding
  <1>3. ASSUME req[r].kind = "reset", Goto(r, "saveBoth"), todo' = [todo EXCEPT ![r] = {"code", "password"}]
        PROVE  Fits(r)
    <2>1. pc' = [pc EXCEPT ![r] = "saveBoth"]
      BY <1>3 DEF Goto
    <2>2. Looks(r)
      BY <1>1, <1>3, <2>1, Parts DEF Looks, Moves, Locals, Typed, Steps
    <2>3. MayBeAt(req[r], "saveBoth")
      BY <1>1, <1>3 DEF Typed, Control, Ready, MayBeAt, Linking
    <2>4. Found(r)'
      BY <1>1, <2>1 DEF Found, Holding, Linking, db, Typed, TypeOK
    <2>5. QED
      BY <1>1, <2>1, <2>2, <2>3, <2>4, LooksFit DEF Typed, TypeOK
  <1>4. \/ (Goto(r, "saveBoth") /\ req[r].kind = "reset" /\ todo' = [todo EXCEPT ![r] = {"code", "password"}])
        \/ \E s \in {"refused", "insertPassword", "savePassword"} :
             /\ Goto(r, s) /\ todo' = todo
             /\ s = "insertPassword" => req[r].kind = "createPassword"
             /\ s = "savePassword" => req[r].kind = "changePassword"
    BY DEF FindPassword
  <1>5. QED
    BY <1>2, <1>3, <1>4

LEMMA FindEmailFits == ASSUME Typed, NEW r \in Reqs, FindEmail(r) PROVE Fits(r)
  <1>1. pc[r] = "findEmail" /\ UNCHANGED <<db, tx, copy, todo, errors, hist, req, before>>
        /\ Named(req[r]) /\ r \notin users /\ r \notin fresh
    BY DEF FindEmail, Typed, TypeOK, Control, Ready, Inserted, Linking
  <1>2. MayBeAt(req[r], "refused") /\ MayBeAt(req[r], "insertCode")
    BY <1>1 DEF Typed, Control, Ready, MayBeAt, Linking
  <1>3. CASE Goto(r, "refused") /\ UNCHANGED at
    <2>1. UNCHANGED local
      BY <1>1, <1>3 DEF local
    <2>2. QED
      BY <1>1, <1>2, <1>3, <2>1, GotoFits DEF Steps, Ended, WithUser, Linking, Holding
  <1>4. ASSUME NEW u \in users, at' = [at EXCEPT ![r] = u], Goto(r, "insertCode") PROVE Fits(r)
    <2>1. pc' = [pc EXCEPT ![r] = "insertCode"] /\ u \in Ids
      BY <1>4 DEF Goto, Typed, TypeOK
    <2>2. Looks(r)
      BY <1>1, <1>4, <2>1, Parts DEF Looks, Moves, Locals, Typed, Steps
    <2>3. Found(r)'
      BY <1>1, <1>4, <2>1 DEF Found, Holding, Linking, db, Typed, TypeOK
    <2>4. QED
      BY <1>1, <1>2, <2>1, <2>2, <2>3, LooksFit DEF Typed, TypeOK
  <1>5. QED
    BY <1>3, <1>4 DEF FindEmail

LEMMA FindCodeFits == ASSUME Typed, NEW r \in Reqs, FindCode(r) PROVE Fits(r)
  <1> DEFINE s == IF Valid(req[r].item) THEN "findPassword" ELSE "refused"
             u == codes[req[r].item]
  <1>1. s \in {"findPassword", "refused"} /\ pc[r] = "findCode" /\ pc' = [pc EXCEPT ![r] = s] /\ req' = req
        /\ at' = [at EXCEPT ![r] = u] /\ UNCHANGED <<db, tx, copy, todo, errors, hist, before>>
    BY DEF FindCode, Goto
  <1>2. req[r].kind = "reset" /\ Named(req[r]) /\ r \notin users /\ r \notin fresh
    BY <1>1 DEF Typed, Control, Ready, MayBeAt, Inserted, Linking
  <1>3. u \in users /\ u \in Ids
    BY <1>2 DEF Named, Typed, TypeOK
  <1>4. MayBeAt(req[r], s)
    BY <1>1 DEF Typed, Control, Ready, MayBeAt, Linking
  <1> HIDE DEF s, u
  <1>5. Looks(r)
    BY <1>1, <1>3, Parts DEF Looks, Moves, Locals, Typed, Steps, Ended
  <1>6. Found(r)'
    BY <1>1, <1>3 DEF Found, Holding, Linking, db, Typed, TypeOK
  <1>7. QED
    BY <1>1, <1>2, <1>4, <1>5, <1>6, LooksFit DEF Typed, TypeOK

(* The provider answers with a profile of the identity, or refuses.          *)
LEMMA ProfileFits ==
  ASSUME Typed, NEW r \in Reqs, pc[r] = "exchange", UNCHANGED <<db, tx, local, hist, before>>,
         NEW e \in Emails, NEW n \in Names \cup {NoName}, req[r].identity \in Google => n = NoName,
         req' = [req EXCEPT ![r] = Asks("oauth", None, e, n, None, req[r].identity)], Goto(r, "findOrCreate")
  PROVE  Fits(r)
  <1> DEFINE i == req[r].identity
             q == Asks("oauth", None, e, n, None, i)
  <1>1. i \in Identities /\ r \notin users /\ r \notin fresh
    BY DEF Typed, Control, Ready, MayBeAt, Named, Inserted, Linking
  <1>2. q \in Request /\ Named(q) /\ MayBeAt(q, "findOrCreate")
    BY <1>1 DEF Asks, Request, AllKinds, Named, MayBeAt, Linking
  <1>3. req' = [req EXCEPT ![r] = q]
    OBVIOUS
  <1>4. pc' = [pc EXCEPT ![r] = "findOrCreate"]
    BY DEF Goto
  <1> HIDE DEF q, i
  <1>5. Looks(r)
    BY <1>2, <1>3, <1>4, Parts DEF Looks, Moves, Locals, local, Typed, Steps
  <1>6. pc'[r] = "findOrCreate" /\ req'[r] = q
    BY <1>3, <1>4 DEF Typed, TypeOK
  <1>7. Found(r)'
    BY <1>6 DEF Found, WithUser, Holding, Linking
  <1>8. QED
    BY <1>1, <1>2, <1>5, <1>6, <1>7, LooksFit

LEMMA ExchangeFits == ASSUME Typed, NEW r \in Reqs, ExchangeGoogle(r) \/ ExchangeGitHub(r) PROVE Fits(r)
  <1>1. pc[r] = "exchange" /\ UNCHANGED <<db, tx, local, hist, before>>
    BY DEF ExchangeGoogle, ExchangeGitHub
  <1>2. CASE NotIdentified(r)
    <2>1. Goto(r, "refused") /\ req' = req
      BY <1>2 DEF NotIdentified
    <2>2. MayBeAt(req[r], "refused")
      BY <1>1 DEF Typed, Control, Ready, MayBeAt, Linking
    <2>3. QED
      BY <1>1, <2>1, <2>2, GotoFits DEF Steps, Ended, WithUser, Linking, Holding
  <1>3. ASSUME NEW p \in GoogleProfiles, Identified(r, p) PROVE Fits(r)
    BY <1>1, <1>3, ProfileFits DEF GoogleProfiles, Identified
  <1>4. ASSUME req[r].identity \in GitHub, NEW p \in GitHubProfiles, Identified(r, p) PROVE Fits(r)
    <2>1. req[r].identity \notin Google
      BY <1>4, AccountsAssumption
    <2>2. QED
      BY <1>1, <1>4, <2>1, ProfileFits DEF GitHubProfiles, Identified
  <1>5. QED
    BY <1>2, <1>3, <1>4 DEF ExchangeGoogle, ExchangeGitHub

LEMMA FindOrCreateFits == ASSUME Typed, NEW r \in Reqs, FindOrCreate(r) PROVE Fits(r)
  <1>1. pc[r] = "findOrCreate" /\ UNCHANGED <<db, tx, copy, todo, errors, hist, req, before>>
        /\ Named(req[r]) /\ r \notin users /\ r \notin fresh
    BY DEF FindOrCreate, Typed, TypeOK, Control, Ready, Inserted, Linking
  <1>2. MayBeAt(req[r], "insertFresh") /\ MayBeAt(req[r], "findAccount")
    BY <1>1 DEF Typed, Control, Ready, MayBeAt, Linking
  <1>3. CASE Goto(r, "insertFresh") /\ UNCHANGED at
    <2>1. UNCHANGED local
      BY <1>1, <1>3 DEF local
    <2>2. QED
      BY <1>1, <1>2, <1>3, <2>1, GotoFits DEF Steps, Ended, WithUser, Linking, Holding
  <1>4. ASSUME NEW u \in users, at' = [at EXCEPT ![r] = u], Goto(r, "findAccount") PROVE Fits(r)
    <2>1. pc' = [pc EXCEPT ![r] = "findAccount"] /\ u \in Ids
      BY <1>4 DEF Goto, Typed, TypeOK
    <2>2. Looks(r)
      BY <1>1, <1>4, <2>1, Parts DEF Looks, Moves, Locals, Typed, Steps
    <2>3. Found(r)'
      BY <1>1, <1>4, <2>1 DEF Found, Holding, WithUser, db, Typed, TypeOK
    <2>4. QED
      BY <1>1, <1>2, <2>1, <2>2, <2>3, LooksFit DEF Typed, TypeOK
  <1>5. QED
    BY <1>3, <1>4 DEF FindOrCreate

-----------------------------------------------------------------------------
(* Starting and failing *)

LEMMA FirstStatements ==
  /\ FirstStatement("signUp") = "findTaken" /\ FirstStatement("patch") = "loadUser"
  /\ FirstStatement("rename") = "loadUser" /\ FirstStatement("createPassword") = "findPassword"
  /\ FirstStatement("changePassword") = "findPassword" /\ FirstStatement("askReset") = "findEmail"
  /\ FirstStatement("reset") = "findCode" /\ FirstStatement("oauth") = "exchange"
  BY DEF FirstStatement

(* A request k that has just started.                                        *)
Starts(r, k) ==
  /\ pc[r] = "idle" /\ k \in AllKinds
  /\ req'[r] \in Sent(k) /\ req' = [req EXCEPT ![r] = req'[r]]
  /\ at' = [at EXCEPT ![r] = req'[r].user] /\ pc' = [pc EXCEPT ![r] = FirstStatement(k)]
  /\ before' = [before EXCEPT ![r] = {q \in Reqs : pc[q] \in Ended}]
  /\ UNCHANGED <<db, tx, copy, todo, errors, hist>>

LEMMA StartStarts == ASSUME Typed, NEW r \in Reqs, Start(r) PROVE \E k \in AllKinds : Starts(r, k)
  <1>1. PICK p \in Plans : \E k \in p[r] : \E q \in Requests(k) :
          req' = [req EXCEPT ![r] = q] /\ at' = [at EXCEPT ![r] = q.user] /\ Goto(r, FirstStatement(k))
    BY DEF Start
  <1>2. PICK k \in p[r] : \E q \in Requests(k) :
          req' = [req EXCEPT ![r] = q] /\ at' = [at EXCEPT ![r] = q.user] /\ Goto(r, FirstStatement(k))
    BY <1>1
  <1>3. p[r] \subseteq AllKinds
    BY AccountsAssumption DEF Reqs
  <1>4. PICK q \in Requests(k) :
          req' = [req EXCEPT ![r] = q] /\ at' = [at EXCEPT ![r] = q.user] /\ Goto(r, FirstStatement(k))
    BY <1>2
  <1>5. q \in Sent(k) /\ k \in AllKinds
    BY <1>3, RequestTypes
  <1>6. req'[r] = q
    BY <1>4 DEF Typed, TypeOK
  <1>7. Starts(r, k)
    BY <1>4, <1>5, <1>6 DEF Start, Starts, Goto
  <1>8. QED
    BY <1>5, <1>7

LEMMA StartFits == ASSUME Typed, NEW r \in Reqs, NEW k \in AllKinds, Starts(r, k) PROVE Fits(r)
  <1> PICK q : q = req'[r]
    OBVIOUS
  <1> PICK s : s = FirstStatement(k)
    OBVIOUS
  <1>1. /\ q \in Request /\ q.kind = k /\ Named(q)
        /\ k \in {"patch", "rename", "createPassword", "changePassword"} => q.user \in users
        /\ q.user \in Ids \cup {None}
    BY DEF Starts, Sent, Request
  <1>2. /\ s \in {"findTaken", "loadUser", "findPassword", "findEmail", "findCode", "exchange"}
        /\ MayBeAt(q, s) /\ (s \in WithUser => q.user \in users)
    BY <1>1, FirstStatements DEF AllKinds, MayBeAt, Linking, WithUser
  <1>3. pc' = [pc EXCEPT ![r] = s] /\ at' = [at EXCEPT ![r] = q.user] /\ req' = [req EXCEPT ![r] = q]
        /\ UNCHANGED <<db, tx, copy, todo, errors, hist>>
    BY DEF Starts
  <1>4. before' \in [Reqs -> SUBSET Reqs]
    BY DEF Starts, Typed, TypeOK
  <1>5. r \notin users /\ r \notin fresh
    BY DEF Typed, Control, Ready, Inserted, Linking, Starts
  <1>7. Locals' /\ Moves(r)
    BY <1>1, <1>2, <1>3, <1>4, Parts DEF Locals, Moves, Typed, Steps
  <1>8. Tables'
    BY <1>3, Parts DEF Typed, Tables, db, tx, hist, Clash
  <1>9. Grows(r)
    BY <1>3 DEF Grows, db, tx
  <1>10. req'[r] = q /\ pc'[r] = s /\ at'[r] = q.user
    BY <1>3 DEF Typed, TypeOK
  <1>6. codes' = codes /\ users' = users
    BY <1>3 DEF db
  <1>11. Named(req[r])' /\ MayBeAt(req[r], pc[r])'
    <2>1. Named(req[r])'
      BY <1>1, <1>6, <1>10 DEF Named
    <2>2. MayBeAt(req[r], pc[r])'
      BY <1>2, <1>10 DEF MayBeAt
    <2>3. QED
      BY <2>1, <2>2
  <1>12. Found(r)'
    BY <1>2, <1>6, <1>10 DEF Found, Linking, Holding, WithUser
  <1>13. Inserted(r)'
    BY <1>3, <1>5 DEF Inserted, db, tx
  <1>14. QED
    BY <1>7, <1>8, <1>9, <1>11, <1>12, <1>13 DEF Fits, Ready

(* A request that ends with an error loses its uncommitted rows.             *)
LEMMA AbortFits ==
  ASSUME Typed, NEW r \in Reqs, pc[r] \notin Ended \cup {"idle"}, Abort(r),
         UNCHANGED <<db, at, copy, todo, req, before, asked, crossed>>,
         collided' \subseteq Reqs, errors' \in 0..MaxErrors
  PROVE  Fits(r)
  <1>1. pc' = [pc EXCEPT ![r] = "failed"] /\ pc'[r] = "failed"
        /\ fresh' = fresh \ {r} /\ locked' = [locked EXCEPT ![r] = {}]
    BY DEF Abort, Goto, Typed, TypeOK
  <1>2. Locals' /\ Moves(r)
    BY <1>1, Parts DEF Locals, Moves, Typed, Steps, Ended
  <1>3. Tables'
    BY <1>1, Parts DEF Typed, Tables, db, Clash
  <1>4. Grows(r)
    BY <1>1 DEF Grows, db
  <1>5. Named(req[r])' /\ MayBeAt(req[r], pc[r])'
    BY <1>1 DEF Typed, Control, Ready, Named, MayBeAt, db, Linking
  <1>6. Found(r)' /\ Inserted(r)'
    BY <1>1 DEF Typed, Control, Ready, Found, Inserted, db, Linking, WithUser, Holding, Ended
  <1>7. QED
    BY <1>2, <1>3, <1>4, <1>5, <1>6 DEF Fits, Ready

LEMMA FailFits == ASSUME Typed, NEW r \in Reqs, Fail(r) PROVE Fits(r)
  <1>1. errors' \in 0..MaxErrors
    BY AccountsAssumption DEF Fail, Typed, TypeOK
  <1>2. pc[r] \notin Ended \cup {"idle"} /\ Abort(r) /\ UNCHANGED <<db, at, copy, todo, req, before, asked, crossed>>
        /\ collided' \subseteq Reqs
    BY DEF Fail, InFlight, hist, Typed, TypeOK
  <1>3. QED
    BY <1>1, <1>2, AbortFits

LEMMA CollideFits ==
  ASSUME Typed, NEW r \in Reqs, pc[r] \notin Ended \cup {"idle"}, Collide(r), UNCHANGED <<local, req, before>>
  PROVE  Fits(r)
  <1>1. Abort(r) /\ UNCHANGED <<db, at, copy, todo, req, before, asked, crossed>> /\ collided' \subseteq Reqs
        /\ errors' \in 0..MaxErrors
    BY DEF Collide, local, Typed, TypeOK
  <1>2. QED
    BY <1>1, AbortFits

-----------------------------------------------------------------------------
(* Statements that write *)

(* A row with new columns clashes with no other one.                         *)
LEMMA Unclashed ==
  ASSUME Typed, NEW u \in Ids, NEW c \in Row, ~Waits(u, c), ~Refused(u, c),
         NEW v \in (users \cup fresh) \ {u}
  PROVE  ~Clash(row[v], c) /\ ~Clash(c, row[v])
  BY DEF Waits, Refused, Clash

LEMMA InsertedUser ==
  ASSUME Typed, NEW r \in Reqs, r \notin users \cup fresh, ~Waits(r, Columns(r)), ~Refused(r, Columns(r)),
         Columns(r) \in Row, row' = [row EXCEPT ![r] = Columns(r)], asked' = [asked EXCEPT ![r] = Columns(r)],
         users' \cup fresh' = users \cup fresh \cup {r}
  PROVE  /\ row' \in [Ids -> Row \cup {NoRow}] /\ asked' \in [Ids -> Row \cup {NoRow}]
         /\ \A u \in users' \cup fresh' : row'[u] \in Row /\ asked'[u] \in Row
         /\ \A u, v \in users' \cup fresh' : u # v => ~Clash(row'[u], row'[v])
  <1>1. r \in Ids /\ users \cup fresh \subseteq Ids
    BY AccountsAssumption DEF Reqs, Ids, Typed, TypeOK
  <1>2. /\ row'[r] = Columns(r) /\ asked'[r] = Columns(r)
        /\ \A u \in users \cup fresh : row'[u] = row[u] /\ asked'[u] = asked[u]
    BY <1>1 DEF Typed, TypeOK
  <1>3. \A v \in users \cup fresh : ~Clash(row[v], Columns(r)) /\ ~Clash(Columns(r), row[v])
    BY <1>1, Unclashed
  <1>4. ASSUME NEW u \in users' \cup fresh', NEW v \in users' \cup fresh', u # v
        PROVE  ~Clash(row'[u], row'[v])
    <2>1. CASE u = r
      BY <1>2, <1>3, <1>4, <2>1
    <2>2. CASE v = r
      BY <1>2, <1>3, <1>4, <2>2
    <2>3. CASE u # r /\ v # r
      BY <1>2, <1>4, <2>3 DEF Typed, TypeOK
    <2>4. QED
      BY <2>1, <2>2, <2>3
  <1>5. /\ row' \in [Ids -> Row \cup {NoRow}] /\ asked' \in [Ids -> Row \cup {NoRow}]
        /\ \A u \in users' \cup fresh' : row'[u] \in Row /\ asked'[u] \in Row
    BY <1>1, <1>2 DEF Typed, TypeOK
  <1>6. QED
    BY <1>4, <1>5

LEMMA InsertUserFits == ASSUME Typed, NEW r \in Reqs, InsertUser(r) PROVE Fits(r)
  <1>1. pc[r] = "insertUser" /\ ~Waits(r, Columns(r)) /\ UNCHANGED <<req, before>>
        /\ Ready(r) /\ req[r].kind = "signUp"
    BY DEF InsertUser, Typed, Control, Ready, MayBeAt
  <1>2. CASE Collide(r) /\ UNCHANGED local
    BY <1>1, <1>2, CollideFits DEF Ended
  <1>3. ASSUME ~Refused(r, Columns(r)), users' = users \cup {r}, row' = [row EXCEPT ![r] = Columns(r)],
               asked' = [asked EXCEPT ![r] = Columns(r)], at' = [at EXCEPT ![r] = r], Goto(r, "insertPassword"),
               UNCHANGED <<password, codes, revoked, expired, link, tx, copy, todo, errors, crossed, collided>>
        PROVE  Fits(r)
    <2>1. r \notin users \cup fresh /\ r \in Ids /\ Columns(r) \in Row
      BY <1>1, AccountsAssumption DEF Ready, Inserted, Named, Linking, Reqs, Ids, Columns, Row
    <2>2. fresh' = fresh /\ locked' = locked
      BY <1>3 DEF tx
    <2>3. /\ row' \in [Ids -> Row \cup {NoRow}] /\ asked' \in [Ids -> Row \cup {NoRow}]
          /\ \A u \in users' \cup fresh' : row'[u] \in Row /\ asked'[u] \in Row
          /\ \A u, v \in users' \cup fresh' : u # v => ~Clash(row'[u], row'[v])
      BY <1>1, <1>3, <2>1, <2>2, InsertedUser
    <2>4. Tables'
      <3>1. \A u, v \in (users \cup fresh)' : u # v => ~Clash(row[u], row[v])'
        BY <2>3 DEF Clash
      <3>2. QED
        BY <1>3, <2>1, <2>2, <2>3, <3>1, Parts DEF Typed, Tables
    <2>5. pc' = [pc EXCEPT ![r] = "insertPassword"] /\ pc'[r] = "insertPassword" /\ at'[r] = r
      BY <1>3 DEF Goto, Typed, TypeOK
    <2>6. Locals' /\ Moves(r)
      BY <1>1, <1>3, <2>1, <2>5, Parts DEF Locals, Moves, Typed, Steps
    <2>7. Grows(r)
      BY <1>3, <2>2 DEF Grows
    <2>8. Named(req[r])' /\ MayBeAt(req[r], pc[r])'
      BY <1>1, <1>3, <2>5 DEF Ready, Named, MayBeAt, Linking
    <2>9. Found(r)' /\ Inserted(r)'
      BY <1>1, <1>3, <2>1, <2>2, <2>5 DEF Found, Inserted, Linking, Holding
    <2>10. QED
      BY <2>4, <2>6, <2>7, <2>8, <2>9 DEF Fits, Ready
  <1>4. QED
    BY <1>2, <1>3 DEF InsertUser

LEMMA InsertFreshFits == ASSUME Typed, NEW r \in Reqs, InsertFresh(r) PROVE Fits(r)
  <1>1. pc[r] = "insertFresh" /\ ~Waits(r, Columns(r)) /\ UNCHANGED <<req, before>>
        /\ Ready(r) /\ req[r].kind = "oauth" /\ req[r].email \in Emails /\ req[r].name \in Names \cup {NoName}
    BY DEF InsertFresh, Typed, Control, Ready, MayBeAt
  <1>2. CASE Collide(r) /\ UNCHANGED local
    BY <1>1, <1>2, CollideFits DEF Ended
  <1>3. ASSUME ~Refused(r, Columns(r)), fresh' = fresh \cup {r}, row' = [row EXCEPT ![r] = Columns(r)],
               asked' = [asked EXCEPT ![r] = Columns(r)], at' = [at EXCEPT ![r] = r], Goto(r, "findAccount"),
               UNCHANGED <<users, password, codes, revoked, expired, link, locked, copy, todo, errors, crossed, collided>>
        PROVE  Fits(r)
    <2>1. r \notin users \cup fresh /\ r \in Ids /\ Columns(r) \in Row
      BY <1>1, AccountsAssumption DEF Ready, Inserted, Linking, Reqs, Ids, Columns, Row
    <2>2. /\ row' \in [Ids -> Row \cup {NoRow}] /\ asked' \in [Ids -> Row \cup {NoRow}]
          /\ \A u \in users' \cup fresh' : row'[u] \in Row /\ asked'[u] \in Row
          /\ \A u, v \in users' \cup fresh' : u # v => ~Clash(row'[u], row'[v])
      BY <1>1, <1>3, <2>1, InsertedUser
    <2>3. Tables'
      <3>1. \A u, v \in (users \cup fresh)' : u # v => ~Clash(row[u], row[v])'
        BY <2>2 DEF Clash
      <3>2. QED
        BY <1>3, <2>1, <2>2, <3>1, Parts DEF Typed, Tables
    <2>4. pc' = [pc EXCEPT ![r] = "findAccount"] /\ pc'[r] = "findAccount" /\ at'[r] = r
      BY <1>3 DEF Goto, Typed, TypeOK
    <2>5. Locals' /\ Moves(r)
      BY <1>1, <1>3, <2>1, <2>4, Parts DEF Locals, Moves, Typed, Steps
    <2>6. Grows(r)
      BY <1>3 DEF Grows
    <2>7. Named(req[r])' /\ MayBeAt(req[r], pc[r])'
      BY <1>1, <1>3, <2>4 DEF Ready, Named, MayBeAt, Linking
    <2>8. Found(r)' /\ Inserted(r)'
      BY <1>1, <1>3, <2>1, <2>4 DEF Found, Inserted, Linking, Holding, WithUser
    <2>9. QED
      BY <2>3, <2>5, <2>6, <2>7, <2>8 DEF Fits, Ready
  <1>4. QED
    BY <1>2, <1>3 DEF InsertFresh

(* A password is stored for a user who has a row, a code used is one that     *)
(* exists.                                                                   *)
LEMMA PasswordFits ==
  ASSUME Typed, NEW r \in Reqs, NEW s \in {"done", "failed", "saveBoth", "saveOther"}, Goto(r, s),
         pc[r] \in {"insertPassword", "savePassword", "saveBoth", "saveOther"},
         s \in {"saveBoth", "saveOther"} => pc[r] = "saveBoth",
         password' = password \/ password' = [password EXCEPT ![at[r]] = r],
         revoked' = revoked \/ (revoked' = revoked \cup {req[r].item} /\ req[r].kind = "reset"),
         todo' \in [Reqs -> SUBSET {"code", "password"}], errors' \in 0..MaxErrors,
         UNCHANGED <<users, row, codes, expired, link, tx, at, copy, hist, req, before>>
  PROVE  Fits(r)
  <1>1. pc' = [pc EXCEPT ![r] = s] /\ pc'[r] = s /\ at[r] \in users /\ Ready(r) /\ r \in Ids
    BY AccountsAssumption DEF Goto, Typed, TypeOK, Control, Ready, Found, WithUser, Reqs, Ids
  <1>2. Tables'
    <2>1. password' \in [Ids -> Ids \cup {None}] /\ \A u \in Ids \ users' : password'[u] = None
      BY <1>1 DEF Typed, TypeOK
    <2>2. (revoked \cup expired)' \subseteq {c \in Reqs : codes'[c] # None}
      BY <1>1 DEF Ready, Named, Typed, TypeOK
    <2>3. QED
      BY <2>1, <2>2, Parts DEF Typed, Tables, tx, hist, Clash
  <1>3. Locals' /\ Moves(r)
    BY <1>1, Parts DEF Locals, Moves, Typed, Steps, Ended
  <1>4. Grows(r)
    BY DEF Grows, tx
  <1>5. Named(req[r])' /\ MayBeAt(req[r], pc[r])'
    BY <1>1 DEF Ready, Named, MayBeAt, Linking
  <1>6. Found(r)' /\ Inserted(r)'
    BY <1>1 DEF Ready, Found, Inserted, Linking, Holding, WithUser, tx
  <1>7. QED
    BY <1>2, <1>3, <1>4, <1>5, <1>6 DEF Fits, Ready

LEMMA InsertPasswordFits == ASSUME Typed, NEW r \in Reqs, InsertPassword(r) PROVE Fits(r)
  <1>1. pc[r] = "insertPassword" /\ UNCHANGED <<local, req, before>>
    BY DEF InsertPassword
  <1>2. CASE Collide(r)
    BY <1>1, <1>2, CollideFits DEF Ended
  <1>3. CASE password[at[r]] = None
    BY <1>1, <1>3, PasswordFits DEF InsertPassword, local, Typed, TypeOK
  <1>4. QED
    BY <1>2, <1>3 DEF InsertPassword

LEMMA SavePasswordFits == ASSUME Typed, NEW r \in Reqs, SavePassword(r) PROVE Fits(r)
  BY PasswordFits DEF SavePassword, local, Typed, TypeOK

(* A save of a reset writes one of the two rows, or fails.                   *)
LEMMA SaveBothWrites ==
  ASSUME Typed, NEW r \in Reqs, SaveBoth(r)
  PROVE  /\ pc[r] = "saveBoth" /\ req[r].kind = "reset"
         /\ UNCHANGED <<users, row, codes, expired, link, tx, at, copy, hist, req, before>>
         /\ \E x \in todo[r] :
              /\ todo' = [todo EXCEPT ![r] = todo[r] \ {x}]
              /\ \/ /\ revoked' = IF x = "code" THEN revoked \cup {req[r].item} ELSE revoked
                    /\ password' = IF x = "password" THEN [password EXCEPT ![at[r]] = r] ELSE password
                    /\ Goto(r, IF todo[r] \ {x} # {} THEN "saveBoth" ELSE "done")
                    /\ errors' = errors
                 \/ /\ errors < MaxErrors /\ errors' = errors + 1
                    /\ Goto(r, IF todo[r] \ {x} # {} THEN "saveOther" ELSE "failed")
                    /\ UNCHANGED <<revoked, password>>
  <1>1. pc[r] = "saveBoth" /\ req[r].kind = "reset"
        /\ UNCHANGED <<users, row, codes, expired, link, tx, at, copy, hist, req, before>>
    BY DEF SaveBoth, Typed, Control, Ready, MayBeAt
  <1>2. PICK x \in todo[r] :
          /\ todo' = [todo EXCEPT ![r] = todo[r] \ {x}]
          /\ \/ /\ revoked' = IF x = "code" THEN revoked \cup {req[r].item} ELSE revoked
                /\ password' = IF x = "password" THEN [password EXCEPT ![at[r]] = r] ELSE password
                /\ Goto(r, IF todo'[r] # {} THEN "saveBoth" ELSE "done")
                /\ errors' = errors
             \/ /\ errors < MaxErrors /\ errors' = errors + 1
                /\ Goto(r, IF todo'[r] # {} THEN "saveOther" ELSE "failed")
                /\ UNCHANGED <<revoked, password>>
    BY DEF SaveBoth
  <1>3. todo'[r] = todo[r] \ {x}
    BY <1>2 DEF Typed, TypeOK
  <1>4. QED
    BY <1>1, <1>2, <1>3

LEMMA SaveBothFits == ASSUME Typed, NEW r \in Reqs, SaveBoth(r) PROVE Fits(r)
  <1>1. pc[r] = "saveBoth" /\ req[r].kind = "reset"
        /\ UNCHANGED <<users, row, codes, expired, link, tx, at, copy, hist, req, before>>
    BY SaveBothWrites
  <1>2. /\ todo' \in [Reqs -> SUBSET {"code", "password"}]
        /\ password' = password \/ password' = [password EXCEPT ![at[r]] = r]
        /\ revoked' = revoked \/ revoked' = revoked \cup {req[r].item}
        /\ \E s \in {"done", "failed", "saveBoth", "saveOther"} : Goto(r, s)
    BY SaveBothWrites DEF Typed, TypeOK
  <1>3. errors' \in 0..MaxErrors
    <2>1. errors' = errors \/ (errors < MaxErrors /\ errors' = errors + 1)
      BY SaveBothWrites
    <2>2. errors \in 0..MaxErrors /\ MaxErrors \in Nat
      BY AccountsAssumption DEF Typed, TypeOK
    <2>3. QED
      BY <2>1, <2>2
  <1>4. QED
    BY <1>1, <1>2, <1>3, PasswordFits

LEMMA SaveOtherFits == ASSUME Typed, NEW r \in Reqs, SaveOther(r) PROVE Fits(r)
  <1>1. pc[r] = "saveOther" /\ req[r].kind = "reset" /\ Goto(r, "failed")
        /\ UNCHANGED <<users, row, codes, expired, link, tx, at, copy, errors, hist, req, before>>
    BY DEF SaveOther, Typed, Control, Ready, MayBeAt
  <1>2. /\ todo' \in [Reqs -> SUBSET {"code", "password"}] /\ errors' \in 0..MaxErrors
        /\ password' = password \/ password' = [password EXCEPT ![at[r]] = r]
        /\ revoked' = revoked \/ revoked' = revoked \cup {req[r].item}
    BY DEF SaveOther, Typed, TypeOK
  <1>3. QED
    BY <1>1, <1>2, PasswordFits

LEMMA MergedTypes == ASSUME NEW r \in Reqs, req[r] \in Request, NEW c \in Row PROVE Merged(r, c) \in Row
  BY DEF Merged, Row, Request

(* A save goes to a row that is there, or inserts the row of its request.    *)
LEMMA TargetTypes ==
  ASSUME Typed, NEW r \in Reqs, pc[r] = "saveUser"
  PROVE  /\ Target(r) \in users \cup {r} /\ Target(r) \in Ids /\ r \notin users \cup fresh
         /\ Target(r) = r => req[r].kind = "patch" /\ req[r].item = New
         /\ req[r].kind = "rename" => Target(r) = at[r]
  <1>1. at[r] \in users /\ r \notin users \cup fresh /\ Named(req[r]) /\ req[r].kind \in {"patch", "rename"}
    BY DEF Typed, Control, Ready, Found, Inserted, MayBeAt, WithUser, Linking, Ended
  <1>2. req[r].item \in users \cup {None, New} /\ (req[r].kind = "rename" => req[r].item = None)
    BY <1>1 DEF Named
  <1>3. Target(r) = IF req[r].item = None THEN at[r] ELSE IF req[r].item = New THEN r ELSE req[r].item
    BY <1>2, NoneIsNoId DEF Target, Typed, TypeOK
  <1>4. users \subseteq Ids /\ r \in Ids
    BY NoneIsNoId DEF Typed, TypeOK
  <1>5. QED
    BY <1>1, <1>2, <1>3, <1>4, NoneIsNoId

LEMMA SaveUserFits == ASSUME Typed, NEW r \in Reqs, SaveUser(r) PROVE Fits(r)
  <1>1. pc[r] = "saveUser" /\ UNCHANGED <<local, req, before>> /\ Ready(r) /\ copy[r] \in Row /\ at[r] \in users
    BY DEF SaveUser, Typed, Control, Ready, Found, Holding, WithUser
  <1>2. CASE Collide(r)
    BY <1>1, <1>2, CollideFits DEF Ended
  <1> PICK c : c = Written(r, copy[r])
    OBVIOUS
  <1> PICK d : d = Merged(r, asked[at[r]])
    OBVIOUS
  <1> PICK t : t = Target(r)
    OBVIOUS
  <1>7. /\ t \in users \cup {r} /\ t \in Ids /\ r \notin users \cup fresh
        /\ t = r => req[r].kind = "patch" /\ req[r].item = New
    BY <1>1, TargetTypes
  <1>3. ASSUME ~Waits(t, c), ~Refused(t, c), users' = users \cup {t},
               row' = [row EXCEPT ![t] = c], asked' = [asked EXCEPT ![t] = d], crossed' \subseteq users,
               Goto(r, "done"), UNCHANGED <<password, codes, revoked, expired, link, tx, collided>>
        PROVE  Fits(r)
    <2>1. c \in Row /\ d \in Row
      BY <1>1, MergedTypes DEF Written, Typed, TypeOK
    <2>2. /\ row'[t] = c /\ asked'[t] = d /\ fresh' = fresh /\ locked' = locked
          /\ \A v \in (users \cup fresh) \ {t} : row'[v] = row[v] /\ asked'[v] = asked[v]
                                               /\ ~Clash(row[v], c) /\ ~Clash(c, row[v])
      BY <1>3, <1>7, <2>1, Unclashed DEF tx, Typed, TypeOK
    <2>3. \A u, v \in (users \cup fresh)' : u # v => ~Clash(row[u], row[v])'
      <3>1. ASSUME NEW u \in users \cup fresh \cup {t}, NEW v \in users \cup fresh \cup {t}, u # v
            PROVE  ~Clash(row'[u], row'[v])
        <4>1. CASE u = t
          BY <2>2, <3>1, <4>1
        <4>2. CASE v = t
          BY <2>2, <3>1, <4>2
        <4>3. CASE u # t /\ v # t
          BY <2>2, <3>1, <4>3 DEF Typed, TypeOK
        <4>4. QED
          BY <4>1, <4>2, <4>3
      <3>2. QED
        BY <1>3, <2>2, <3>1 DEF Clash
    <2>4. Tables'
      BY <1>3, <1>7, <2>1, <2>2, <2>3, Parts DEF Typed, Tables
    <2>5. pc' = [pc EXCEPT ![r] = "done"] /\ pc'[r] = "done"
      BY <1>3 DEF Goto, Typed, TypeOK
    <2>6. Locals' /\ Moves(r)
      BY <1>1, <2>5, Parts DEF Locals, Moves, Typed, Steps, Ended, local
    <2>7. Grows(r)
      BY <1>3, <1>7, <2>2 DEF Grows
    <2>8. Named(req[r])' /\ MayBeAt(req[r], pc[r])'
      BY <1>1, <1>3, <2>5 DEF Ready, Named, MayBeAt, Linking
    <2>9. Found(r)' /\ Inserted(r)'
      BY <1>1, <1>3, <1>7, <2>2, <2>5 DEF Ready, Found, Inserted, Linking, Holding, WithUser
    <2>10. QED
      BY <2>4, <2>6, <2>7, <2>8, <2>9 DEF Fits, Ready
  <1>4. ASSUME crossed' = crossed \cup {at[q] : q \in {q \in InFlight \ {r} : pc[q] \in {"findName", "saveUser"} /\ at[q] = t}}
        PROVE  crossed' \subseteq users
    <2>1. \A q \in InFlight : pc[q] \in {"findName", "saveUser"} => at[q] \in users
      BY DEF InFlight, Typed, Control, Ready, Found, WithUser
    <2>2. QED
      BY <1>4, <2>1 DEF Typed, TypeOK
  <1>5. CASE ~Refused(t, c)
    <2>1. ~Waits(t, c) /\ users' = users \cup {t} /\ row' = [row EXCEPT ![t] = c] /\ Goto(r, "done")
          /\ UNCHANGED <<password, codes, revoked, expired, link, tx, collided>>
          /\ crossed' = crossed \cup {at[q] : q \in {q \in InFlight \ {r} : pc[q] \in {"findName", "saveUser"} /\ at[q] = t}}
      BY <1>5 DEF SaveUser
    <2>2. asked' = [asked EXCEPT ![t] = d]
      BY <1>5 DEF SaveUser
    <2>3. QED
      BY <1>3, <1>4, <1>5, <2>1, <2>2
  <1>6. QED
    BY <1>2, <1>5 DEF SaveUser

LEMMA InsertCodeFits == ASSUME Typed, NEW r \in Reqs, InsertCode(r) PROVE Fits(r)
  <1>1. pc[r] = "insertCode" /\ codes' = [codes EXCEPT ![r] = at[r]] /\ Ready(r) /\ at[r] \in users
        /\ UNCHANGED <<users, row, password, revoked, expired, link, tx, local, hist, req, before>>
    BY DEF InsertCode, Typed, Control, Ready, Found, WithUser
  <1>2. pc' = [pc EXCEPT ![r] = "mail"] /\ pc'[r] = "mail"
    BY DEF InsertCode, Goto, Typed, TypeOK
  <1>3. codes' \in [Reqs -> users \cup {None}] /\ \A c \in Reqs : codes[c] # None => codes'[c] # None
    BY <1>1, NoneIsNoId DEF Typed, TypeOK
  <1>4. Tables'
    BY <1>1, <1>3, Parts DEF Typed, Tables, tx, hist, Clash
  <1>5. Locals' /\ Moves(r)
    BY <1>1, <1>2, Parts DEF Locals, Moves, Typed, Steps, local
  <1>6. Grows(r)
    BY <1>1, <1>3 DEF Grows, tx
  <1>7. Named(req[r])' /\ MayBeAt(req[r], pc[r])'
    BY <1>1, <1>2, <1>3 DEF Ready, Named, MayBeAt, Linking
  <1>8. Found(r)' /\ Inserted(r)'
    BY <1>1, <1>2 DEF Ready, Found, Inserted, Linking, Holding, WithUser, tx
  <1>9. QED
    BY <1>4, <1>5, <1>6, <1>7, <1>8 DEF Fits, Ready

LEMMA SaveAccountFits == ASSUME Typed, NEW r \in Reqs, SaveAccount(r) PROVE Fits(r)
  <1>1. pc[r] \in {"insertAccount", "updateAccount"} /\ UNCHANGED <<local, req, before>> /\ Ready(r)
        /\ (\A q \in Reqs \ {r} : req[r].identity \notin locked[q])
    BY DEF SaveAccount, Typed, Control
  <1>2. CASE Collide(r)
    BY <1>1, <1>2, CollideFits DEF Ended
  <1>3. ASSUME locked' = [locked EXCEPT ![r] = {req[r].identity}], Goto(r, "commit"), UNCHANGED <<db, fresh, hist>>
        PROVE  Fits(r)
    <2>1. req[r].kind = "oauth" /\ req[r].identity \in Identities
      BY <1>1 DEF Ready, MayBeAt, Named, Linking
    <2>2. Tables'
      <3>1. locked' \in [Reqs -> SUBSET Identities] /\ \A q, p \in Reqs : q # p => locked'[q] \cap locked'[p] = {}
        BY <1>1, <1>3, <2>1 DEF Typed, TypeOK
      <3>2. QED
        BY <1>3, <3>1, Parts DEF Typed, Tables, db, hist, Clash
    <2>3. pc' = [pc EXCEPT ![r] = "commit"] /\ pc'[r] = "commit"
      BY <1>3 DEF Goto, Typed, TypeOK
    <2>4. Locals' /\ Moves(r)
      BY <1>1, <2>3, Parts DEF Locals, Moves, Typed, Steps, local
    <2>5. Grows(r)
      BY <1>3 DEF Grows, db
    <2>6. Named(req[r])' /\ MayBeAt(req[r], pc[r])'
      BY <1>1, <1>3, <2>1, <2>3 DEF Ready, Named, MayBeAt, Linking, db
    <2>7. Found(r)' /\ Inserted(r)'
      BY <1>1, <1>3, <2>3 DEF Ready, Found, Inserted, Linking, Holding, WithUser, db, local
    <2>8. QED
      BY <2>2, <2>4, <2>5, <2>6, <2>7 DEF Fits, Ready
  <1>4. QED
    BY <1>2, <1>3 DEF SaveAccount

LEMMA CommitFits == ASSUME Typed, NEW r \in Reqs, Commit(r) PROVE Fits(r)
  <1>1. /\ pc[r] = "commit" /\ UNCHANGED <<row, password, codes, revoked, expired, local, hist, req, before>>
        /\ users' = users \cup (fresh \cap {r}) /\ fresh' = fresh \ {r} /\ link' = Linked(r)
        /\ locked' = [locked EXCEPT ![r] = {}] /\ Ready(r)
    BY DEF Commit, Typed, Control
  <1>2. pc' = [pc EXCEPT ![r] = "done"] /\ pc'[r] = "done"
    BY DEF Commit, Goto, Typed, TypeOK
  <1>3. req[r].kind = "oauth" /\ req[r].identity \in Identities /\ at[r] \in users'
    BY <1>1 DEF Ready, MayBeAt, Named, Found, Linking
  <1>4. users' \cup fresh' = users \cup fresh /\ users \subseteq users' /\ users' \subseteq Ids
    BY <1>1, NoneIsNoId DEF Typed, TypeOK
  <1>5. Tables'
    <2>1. \A u, v \in (users \cup fresh)' : u # v => ~Clash(row[u], row[v])'
      BY <1>1, <1>4 DEF Typed, TypeOK, Clash
    <2>2. link' \in [Identities -> users' \cup {None}]
      BY <1>1, <1>3, <1>4 DEF Linked, Typed, TypeOK
    <2>3. locked' \in [Reqs -> SUBSET Identities] /\ \A q, p \in Reqs : q # p => locked'[q] \cap locked'[p] = {}
      BY <1>1 DEF Typed, TypeOK
    <2>4. /\ fresh' \subseteq Reqs \ users'
          /\ password' \in [Ids -> Ids \cup {None}] /\ \A u \in Ids \ users' : password'[u] = None
          /\ codes' \in [Reqs -> users' \cup {None}]
          /\ (revoked \cup expired)' \subseteq {c \in Reqs : codes'[c] # None}
          /\ crossed' \subseteq users' /\ collided' \subseteq Reqs
      BY <1>1, <1>4 DEF Typed, TypeOK, hist
    <2>5. /\ row' \in [Ids -> Row \cup {NoRow}] /\ asked' \in [Ids -> Row \cup {NoRow}]
          /\ \A u \in users' \cup fresh' : row'[u] \in Row /\ asked'[u] \in Row
      BY <1>1, <1>4 DEF Typed, TypeOK, hist
    <2>6. QED
      BY <1>4, <2>1, <2>2, <2>3, <2>4, <2>5 DEF Tables
  <1>6. Locals' /\ Moves(r)
    BY <1>1, <1>2, Parts DEF Locals, Moves, Typed, Steps, Ended, local
  <1>7. Grows(r)
    BY <1>1, <1>4 DEF Grows
  <1>8. Named(req[r])' /\ MayBeAt(req[r], pc[r])'
    BY <1>1, <1>2 DEF Ready, Named, MayBeAt, Linking
  <1>9. Found(r)' /\ Inserted(r)'
    BY <1>1, <1>2, <1>3 DEF Found, Inserted, Linking, Holding, WithUser
  <1>10. QED
    BY <1>5, <1>6, <1>7, <1>8, <1>9 DEF Fits, Ready

-----------------------------------------------------------------------------
(* Every step *)

(* A request under way.                                                      *)
LEMMA AtWork == ASSUME NEW r \in Reqs, Account(r) \/ OAuth(r) PROVE pc[r] \notin Ended \cup {"idle"}
  BY DEF Account, OAuth, FindTaken, InsertUser, InsertPassword, LoadUser, FindName, SaveUser,
         FindPassword, SavePassword, FindEmail, InsertCode, SendMail, FindCode, SaveBoth, SaveOther, ExchangeGoogle,
         ExchangeGitHub, FindOrCreate, InsertFresh, FindAccount, SaveAccount, Commit, Ended

LEMMA StatementFits == ASSUME Typed, NEW r \in Reqs, Account(r) \/ OAuth(r) PROVE Fits(r)
  BY FindTakenFits, InsertUserFits, InsertPasswordFits, LoadUserFits, FindNameFits, SaveUserFits,
     FindPasswordFits, SavePasswordFits, FindEmailFits, InsertCodeFits, SendMailFits, FindCodeFits,
     SaveBothFits, SaveOtherFits, ExchangeFits, FindOrCreateFits, InsertFreshFits, FindAccountFits,
     SaveAccountFits, CommitFits DEF Account, OAuth

LEMMA ExpiryTyped == ASSUME Typed, CodeExpires PROVE Typed'
  <1>1. UNCHANGED <<users, row, password, codes, revoked, link, tx, local, hist, req, pc, before>>
        /\ expired' \subseteq {c \in Reqs : codes[c] # None}
    BY DEF CodeExpires, Typed, TypeOK
  <1>2. Tables'
    BY <1>1, Parts DEF Typed, Tables, tx, hist, Clash
  <1>3. Locals'
    BY <1>1, Parts DEF Typed, Locals, local
  <1>4. TypeOK'
    BY <1>2, <1>3 DEF Tables, Locals, TypeOK
  <1>5. ASSUME NEW q \in Reqs PROVE Ready(q)'
    BY <1>1 DEF Typed, Control, Ready, Named, MayBeAt, Found, Inserted, tx, local
  <1>6. QED
    BY <1>4, <1>5 DEF Typed, Control

LEMMA InitTyped == Init => Typed
  <1> SUFFICES ASSUME Init PROVE Typed
    OBVIOUS
  <1>1. PICK c \in IF users = {} THEN {NoRow} ELSE Row : row = [u \in Ids |-> IF u = 0 THEN c ELSE NoRow]
    BY DEF Init
  <1>2. /\ users \in {{}, {0}} /\ fresh = {} /\ asked = row /\ codes = [x \in Reqs |-> None] /\ revoked = {} /\ expired = {}
        /\ locked = [r \in Reqs |-> {}] /\ crossed = {} /\ collided = {} /\ 0 \in Ids
        /\ row \in [Ids -> Row \cup {NoRow}] /\ (0 \in users => row[0] \in Row)
    BY <1>1, AccountsAssumption DEF Init, Ids
  <1>3. /\ password \in [Ids -> Ids \cup {None}] /\ \A u \in Ids \ users : password[u] = None
        /\ link \in [Identities -> users \cup {None}]
    <2>1. PICK p \in BOOLEAN : \E S \in SUBSET Identities :
       /\ users = {} => ~p /\ S = {}
       /\ users # {} => Cardinality(S) <= 1 /\ (p \/ S # {})
       /\ password = [u \in Ids |-> IF u = 0 /\ p THEN 0 ELSE None]
       /\ link = [i \in Identities |-> IF i \in S THEN 0 ELSE None]
      BY DEF Init
    <2>2. PICK S \in SUBSET Identities :
       /\ users = {} => ~p /\ S = {}
       /\ password = [u \in Ids |-> IF u = 0 /\ p THEN 0 ELSE None]
       /\ link = [i \in Identities |-> IF i \in S THEN 0 ELSE None]
      BY <2>1
    <2>3. QED
      BY <1>2, <2>2
  <1>4. Tables
    BY <1>2, <1>3 DEF Tables
  <1>5. Locals
    BY AccountsAssumption DEF Init, Locals, Steps, Blank, Asks, Request, NoRow
  <1>6. ASSUME NEW r \in Reqs PROVE Ready(r)
    <2>1. pc[r] = "idle" /\ req[r].kind = "none" /\ req[r].identity = NoName /\ r \notin users /\ r \notin fresh
      BY <1>2, NoneIsNoId DEF Init, Blank, Asks
    <2>2. QED
      BY <2>1 DEF Ready, Named, MayBeAt, Found, Inserted, WithUser, Linking, Holding
  <1>7. QED
    BY <1>4, <1>5, <1>6 DEF Typed, TypeOK, Tables, Locals, Control

LEMMA NextTyped == Typed /\ [Next]_vars => Typed'
  <1> SUFFICES ASSUME Typed, [Next]_vars PROVE Typed'
    OBVIOUS
  <1>1. CASE CodeExpires
    BY <1>1, ExpiryTyped
  <1>2. CASE UNCHANGED vars
    BY <1>2 DEF vars, Typed, TypeOK, Control, Ready, Named, MayBeAt, Found, Inserted, Clash
  <1>3. ASSUME NEW r \in Reqs, Start(r) PROVE Typed'
    BY <1>3, StartStarts, StartFits, FitsTyped
  <1>4. ASSUME NEW r \in Reqs, Fail(r) PROVE Typed'
    BY <1>4, FailFits, FitsTyped
  <1>5. ASSUME NEW r \in Reqs, Account(r) \/ OAuth(r) PROVE Typed'
    BY <1>5, StatementFits, FitsTyped
  <1>6. QED
    BY <1>1, <1>2, <1>3, <1>4, <1>5 DEF Next, Idle

LEMMA AlwaysTyped == Spec => []Typed
  BY InitTyped, NextTyped, PTL DEF Spec

(* The tables hold what the unique indexes and foreign keys allow: no two     *)
(* users with the same address or name, committed or not, no password and no *)
(* account of a user who has no row, and one transaction at most that writes *)
(* an account.                                                               *)
THEOREM TypeCorrect == Spec => []TypeOK
  <1>1. Typed => TypeOK
    BY DEF Typed
  <1>2. QED
    BY <1>1, AlwaysTyped, PTL

-----------------------------------------------------------------------------
(* What the statements write *)

(* Which statement writes which table; nothing that is stored gets lost.     *)
Writes(r) ==
  /\ before' = before /\ revoked \subseteq revoked'
  /\ \A q \in Reqs : /\ req'[q].kind = req[q].kind /\ req'[q].identity = req[q].identity
                     /\ req[q].kind # "oauth" => req'[q] = req[q]
  /\ password' = password \/ password' = [password EXCEPT ![at[r]] = r]
  /\ link' = link \/ (pc[r] = "commit" /\ link' = Linked(r))
  /\ users' = users \/ pc[r] \in {"insertUser", "commit", "saveUser"}
  /\ UNCHANGED <<row, asked, crossed>> \/ pc[r] \in {"insertUser", "insertFresh", "saveUser"}
  /\ collided' = collided \/ (pc'[r] = "failed" /\ collided' = collided \cup {r})
  /\ pc'[r] # "idle"

LEMMA AbortWrites ==
  ASSUME Typed, NEW r \in Reqs, Abort(r), UNCHANGED <<db, asked, crossed, req, before>>,
         collided' = collided \/ collided' = collided \cup {r}
  PROVE  Writes(r) /\ pc'[r] = "failed"
  BY DEF Abort, Goto, Writes, db, Typed, TypeOK

LEMMA StatementWrites == ASSUME Typed, NEW r \in Reqs, Account(r) \/ OAuth(r) \/ Fail(r) PROVE Writes(r)
  <1>1. CASE Fail(r)
    BY <1>1, AbortWrites DEF Fail, hist
  <1>2. ASSUME Collide(r), req' = req, before' = before PROVE Writes(r)
    BY <1>2, AbortWrites DEF Collide
  <1>3. pc \in [Reqs -> Steps]
    BY DEF Typed, TypeOK
  <1>4. CASE FindTaken(r) \/ LoadUser(r) \/ FindName(r) \/ FindEmail(r) \/ SendMail(r) \/ FindCode(r)
    BY <1>3, <1>4 DEF FindTaken, LoadUser, FindName, FindEmail, SendMail, FindCode, Goto, Writes, db, hist
  <1>5. CASE FindPassword(r)
    BY <1>3, <1>5 DEF FindPassword, Goto, Writes, db, hist
  <1>6. CASE FindOrCreate(r) \/ FindAccount(r)
    BY <1>3, <1>6 DEF FindOrCreate, FindAccount, Goto, Writes, db, hist
  <1>7. CASE ExchangeGoogle(r) \/ ExchangeGitHub(r)
    <2>1. UNCHANGED <<db, hist, before>>
      BY <1>7 DEF ExchangeGoogle, ExchangeGitHub
    <2>2. CASE NotIdentified(r)
      BY <1>3, <2>1, <2>2 DEF NotIdentified, Goto, Writes, db, hist
    <2>3. ASSUME NEW p, Identified(r, p) PROVE Writes(r)
      <3>1. /\ req' = [req EXCEPT ![r] = Asks("oauth", None, p.email, p.name, None, req[r].identity)]
            /\ pc'[r] = "findOrCreate"
        BY <1>3, <2>3 DEF Identified, Goto
      <3>2. req[r].kind = "oauth"
        BY <1>7 DEF ExchangeGoogle, ExchangeGitHub, Typed, Control, Ready, MayBeAt
      <3>3. QED
        BY <2>1, <3>1, <3>2 DEF Asks, Writes, db, hist, Typed, TypeOK
    <2>4. QED
      BY <1>7, <2>2, <2>3 DEF ExchangeGoogle, ExchangeGitHub
  <1>8. CASE InsertUser(r)
    BY <1>2, <1>3, <1>8 DEF InsertUser, Goto, Writes
  <1>9. CASE InsertFresh(r)
    BY <1>2, <1>3, <1>9 DEF InsertFresh, Goto, Writes
  <1>10. CASE SaveUser(r)
    BY <1>2, <1>3, <1>10 DEF SaveUser, Goto, Writes
  <1>11. CASE InsertPassword(r)
    BY <1>2, <1>3, <1>11 DEF InsertPassword, Goto, Writes, hist
  <1>12. CASE SavePassword(r) \/ InsertCode(r) \/ SaveOther(r)
    BY <1>3, <1>12 DEF SavePassword, InsertCode, SaveOther, Goto, Writes, hist
  <1>13. CASE SaveBoth(r)
    BY <1>3, <1>13, SaveBothWrites DEF Goto, Writes, hist
  <1>14. CASE SaveAccount(r)
    BY <1>2, <1>3, <1>14 DEF SaveAccount, Goto, Writes, hist, db
  <1>15. CASE Commit(r)
    BY <1>3, <1>15 DEF Commit, Goto, Writes, hist, db
  <1>16. QED
    BY <1>1, <1>4, <1>5, <1>6, <1>7, <1>8, <1>9, <1>10, <1>11, <1>12, <1>13, <1>14, <1>15 DEF Account, OAuth

(* A request that has ended stays so, and is named as it was.                *)
LEMMA Progress ==
  ASSUME Typed, NEW r \in Reqs, Account(r) \/ OAuth(r) \/ Fail(r)
  PROVE  /\ Fits(r) /\ Writes(r) /\ pc[r] \notin Ended \cup {"idle"}
         /\ \A q \in Reqs : pc[q] \in Ended \cup {"idle"} => pc'[q] = pc[q]
  <1>1. pc[r] \notin Ended \cup {"idle"}
    BY AtWork DEF Fail, InFlight
  <1>2. Fits(r)
    BY FailFits, StatementFits
  <1>3. QED
    BY <1>1, <1>2, StatementWrites DEF Fits, Moves

-----------------------------------------------------------------------------
(* The ways in *)

HasAWayIn(u) ==
  \/ password[u] # None
  \/ \E i \in Identities : link[i] = u
  \/ u # 0 /\ req[u].kind = "signUp" /\ pc[u] \in {"insertPassword", "failed"}
  \/ u # 0 /\ req[u].kind = "oauth" /\ pc[u] = "done" /\ link[req[u].identity] \notin {u, None}
  \/ u # 0 /\ req[u].kind = "patch" /\ pc[u] = "done" /\ req[u].item = New

(* Others lose no way in by a statement.                                     *)
LEMMA WaysStay ==
  ASSUME Typed, NEW r \in Reqs, Fits(r), Writes(r), NEW u \in users, HasAWayIn(u),
         password[u] # None \/ (\E i \in Identities : link[i] = u) \/ u # r
  PROVE  HasAWayIn(u)'
  <1>1. u \in Ids /\ r \in Ids /\ r # None /\ u # None
    BY NoneIsNoId DEF Typed, TypeOK
  <1>2. password[u] # None => password'[u] # None
    BY <1>1 DEF Writes, Typed, TypeOK
  <1>3. \A i \in Identities : link[i] # None => link'[i] = link[i]
    BY DEF Writes, Linked, Typed, TypeOK
  <1>4. ASSUME u # r, u # 0
        PROVE  /\ u \in Reqs /\ req'[u].kind = req[u].kind /\ pc'[u] = pc[u] /\ req'[u].identity = req[u].identity
               /\ req[u].kind = "oauth" => req[u].identity \in Identities
               /\ req[u].kind = "patch" => req'[u].item = req[u].item
    BY <1>1, <1>4, AccountsAssumption DEF Ids, Reqs, Fits, Moves, Writes, Typed, Control, Ready, Named
  <1>5. QED
    BY <1>1, <1>2, <1>3, <1>4 DEF HasAWayIn

LEMMA StatementWays ==
  ASSUME Typed, EveryUserHasAWayIn, NEW r \in Reqs, Account(r) \/ OAuth(r) \/ Fail(r)
  PROVE  EveryUserHasAWayIn'
  <1>1. Fits(r) /\ Writes(r) /\ Ready(r) /\ r \in Ids /\ r # 0 /\ r # None
    BY Progress, NoneIsNoId DEF Typed, Control
  <1>2. \A u \in users : HasAWayIn(u)
    BY DEF EveryUserHasAWayIn, HasAWayIn
  <1>3. ASSUME NEW u \in users, u # r PROVE HasAWayIn(u)'
    BY <1>1, <1>2, <1>3, WaysStay
  <1>4. ASSUME r \in users PROVE HasAWayIn(r)'
    <2>1. pc[r] = "insertPassword" /\ req[r].kind = "signUp" /\ at[r] = r
      BY <1>1, <1>4, Progress DEF Ready, Inserted, Found, Ended
    <2>2. CASE pc'[r] = "failed"
      BY <1>1, <2>1, <2>2 DEF HasAWayIn, Writes
    <2>3. CASE InsertPassword(r)
      <3>1. CASE Collide(r)
        BY <2>2, <3>1 DEF Collide, Abort, Goto, Typed, TypeOK
      <3>2. CASE password' = [password EXCEPT ![at[r]] = r]
        BY <1>1, <2>1, <3>2 DEF HasAWayIn, Typed, TypeOK
      <3>3. QED
        BY <2>3, <3>1, <3>2 DEF InsertPassword
    <2>4. Fail(r) \/ InsertPassword(r)
      BY <2>1 DEF Account, OAuth, FindTaken, InsertUser, LoadUser, FindName, SaveUser,
         FindPassword, SavePassword, FindEmail, InsertCode, SendMail, FindCode, SaveBoth, SaveOther, ExchangeGoogle,
         ExchangeGitHub, FindOrCreate, InsertFresh, FindAccount, SaveAccount, Commit
    <2>5. QED
      BY <2>2, <2>3, <2>4 DEF Fail, Abort, Goto, Typed, TypeOK
  <1>5. ASSUME r \in users' \ users PROVE HasAWayIn(r)'
    <2>1. InsertUser(r) \/ Commit(r) \/ SaveUser(r)
      BY <1>1, <1>5 DEF Writes, Account, OAuth, FindTaken, InsertPassword, LoadUser, FindName,
         FindPassword, SavePassword, FindEmail, InsertCode, SendMail, FindCode, SaveBoth, SaveOther, ExchangeGoogle,
         ExchangeGitHub, FindOrCreate, InsertFresh, FindAccount, SaveAccount, Fail, InFlight, db
    <2>2. CASE InsertUser(r)
      <3>1. req[r].kind = "signUp"
        BY <1>1, <2>2 DEF InsertUser, Ready, MayBeAt
      <3>2. pc'[r] \in {"insertPassword", "failed"}
        BY <2>2 DEF InsertUser, Collide, Abort, Goto, Typed, TypeOK
      <3>3. QED
        BY <1>1, <3>1, <3>2 DEF HasAWayIn, Writes
    <2>3. CASE Commit(r)
      <3>1. /\ req[r].kind = "oauth" /\ req[r].identity \in Identities /\ r \in fresh /\ at[r] = r
            /\ pc'[r] = "done" /\ link' = Linked(r)
        BY <1>1, <1>5, <2>3 DEF Commit, Ready, MayBeAt, Named, Inserted, Linking, Goto, Typed, TypeOK
      <3>2. CASE link[req[r].identity] = None
        BY <3>1, <3>2 DEF HasAWayIn, Linked, Typed, TypeOK
      <3>3. CASE link[req[r].identity] # None
        BY <1>1, <1>5, <3>1, <3>3 DEF HasAWayIn, Linked, Typed, TypeOK, Writes
      <3>4. QED
        BY <3>2, <3>3
    <2>5. CASE SaveUser(r)
      <3>1. pc[r] = "saveUser" /\ users' # users /\ req' = req
        BY <1>5, <2>5 DEF SaveUser
      <3>2. users' = users \cup {Target(r)} /\ pc'[r] = "done"
        BY <2>5, <3>1 DEF SaveUser, Collide, db, Goto, Typed, TypeOK
      <3>3. Target(r) = r
        BY <1>5, <3>2
      <3>4. QED
        BY <1>1, <3>1, <3>2, <3>3, TargetTypes DEF HasAWayIn
    <2>4. QED
      BY <2>1, <2>2, <2>3, <2>5
  <1>6. users' \subseteq users \cup {r}
    BY <1>1 DEF Fits, Grows
  <1>7. QED
    BY <1>3, <1>4, <1>5, <1>6 DEF EveryUserHasAWayIn, HasAWayIn

LEMMA StartWays ==
  ASSUME Typed, EveryUserHasAWayIn, NEW r \in Reqs, NEW k \in AllKinds, Starts(r, k)
  PROVE  EveryUserHasAWayIn'
  <1>1. r \notin users /\ UNCHANGED <<users, password, link>> /\ Moves(r) /\ users \subseteq Ids
    BY StartFits DEF Starts, db, Typed, TypeOK, Control, Ready, Inserted, Fits, Ended
  <1>2. ASSUME NEW u \in users, u # 0 PROVE u \in Reqs /\ req'[u] = req[u] /\ pc'[u] = pc[u]
    BY <1>1, <1>2, AccountsAssumption DEF Moves, Ids, Reqs
  <1>3. QED
    BY <1>1, <1>2 DEF EveryUserHasAWayIn

LEMMA InitWays == Init => EveryUserHasAWayIn
  <1> SUFFICES ASSUME Init, NEW u \in users PROVE HasAWayIn(u)
    BY DEF EveryUserHasAWayIn, HasAWayIn
  <1>1. PICK p \in BOOLEAN : \E S \in SUBSET Identities :
       /\ users = {} => ~p /\ S = {}
       /\ users # {} => Cardinality(S) <= 1 /\ (p \/ S # {})
       /\ password = [x \in Ids |-> IF x = 0 /\ p THEN 0 ELSE None]
       /\ link = [i \in Identities |-> IF i \in S THEN 0 ELSE None]
    BY DEF Init
  <1>2. PICK S \in SUBSET Identities :
       /\ p \/ S # {}
       /\ password = [x \in Ids |-> IF x = 0 /\ p THEN 0 ELSE None]
       /\ link = [i \in Identities |-> IF i \in S THEN 0 ELSE None]
    BY <1>1
  <1>3. u = 0 /\ u \in Ids /\ u # None
    BY AccountsAssumption DEF Init, Ids, None
  <1>4. QED
    BY <1>2, <1>3 DEF HasAWayIn

LEMMA NextWays == Typed /\ EveryUserHasAWayIn /\ [Next]_vars => EveryUserHasAWayIn'
  <1> SUFFICES ASSUME Typed, EveryUserHasAWayIn, [Next]_vars PROVE EveryUserHasAWayIn'
    OBVIOUS
  <1>1. CASE CodeExpires \/ UNCHANGED vars
    BY <1>1 DEF CodeExpires, vars, EveryUserHasAWayIn
  <1>2. ASSUME NEW r \in Reqs, Start(r) PROVE EveryUserHasAWayIn'
    BY <1>2, StartStarts, StartWays
  <1>3. ASSUME NEW r \in Reqs, Account(r) \/ OAuth(r) \/ Fail(r) PROVE EveryUserHasAWayIn'
    BY <1>3, StatementWays
  <1>4. QED
    BY <1>1, <1>2, <1>3 DEF Next, Idle

(* Whatever interleaves and whatever fails, a user can always sign in, unless *)
(* the sign-up is unfinished or failed halfway, the address at the provider  *)
(* changed so that the account is another user's, or a PATCH with an id that *)
(* nobody had made the row.                                                  *)
THEOREM EverybodyGetsIn == Spec => []EveryUserHasAWayIn
  BY InitWays, NextWays, AlwaysTyped, PTL DEF Spec

-----------------------------------------------------------------------------
(* The profiles *)

(* A profile is what the user has asked for, and so is a copy of it, unless   *)
(* it was saved while another request held one, or under another row's id.   *)
Profiles ==
  /\ \A u \in (users \cup fresh) \ crossed : row[u] = asked[u] \/ Misdirected(u)
  /\ \A q \in Reqs : pc[q] \in Holding => copy[q] = row[at[q]] \/ at[q] \in crossed

(* A request that has ended is not forgotten.                                *)
LEMMA MisdirectedStays ==
  ASSUME Typed, NEW r \in Reqs, Moves(r), pc[r] \notin Ended, NEW u, Misdirected(u) PROVE Misdirected(u)'
  <1>1. PICK q \in Reqs : pc[q] = "done" /\ req[q].kind = "patch" /\ u = Target(q) /\ u # at[q]
    BY DEF Misdirected
  <1>2. q # r
    BY <1>1 DEF Ended
  <1>3. req'[q] = req[q] /\ pc'[q] = pc[q] /\ at'[q] = at[q]
    BY <1>2 DEF Moves
  <1>4. QED
    BY <1>1, <1>3 DEF Misdirected, Target

(* Statements other than those three write no profile.                       *)
RowsStay(r) ==
  /\ UNCHANGED <<row, asked, crossed>> /\ users' \cup fresh' \subseteq users \cup fresh
  /\ pc'[r] \in Holding => \/ at'[r] = at[r] /\ copy'[r] = row[at[r]]
                           \/ pc[r] \in Holding /\ at'[r] = at[r] /\ copy'[r] = copy[r]

LEMMA AbortRows ==
  ASSUME Typed, NEW r \in Reqs, Abort(r), UNCHANGED <<db, asked, crossed>> PROVE RowsStay(r)
  BY DEF Abort, Goto, RowsStay, db, Typed, TypeOK, Holding

LEMMA StatementRows ==
  ASSUME Typed, NEW r \in Reqs, Account(r) \/ OAuth(r) \/ Fail(r)
  PROVE  \/ RowsStay(r)
         \/ (InsertUser(r) /\ ~Collide(r)) \/ (InsertFresh(r) /\ ~Collide(r)) \/ (SaveUser(r) /\ ~Collide(r))
  <1>1. CASE Fail(r)
    BY <1>1, AbortRows DEF Fail, hist
  <1>2. ASSUME Collide(r) PROVE RowsStay(r)
    BY <1>2, AbortRows DEF Collide
  <1>3. pc \in [Reqs -> Steps] /\ at \in [Reqs -> Ids \cup {None}] /\ copy \in [Reqs -> Row \cup {NoRow}]
    BY DEF Typed, TypeOK
  <1>4. CASE FindTaken(r) \/ FindName(r) \/ FindEmail(r) \/ SendMail(r) \/ FindCode(r)
    BY <1>3, <1>4 DEF FindTaken, FindName, FindEmail, SendMail, FindCode, Goto, RowsStay, db, tx, local, hist, Holding
  <1>5. CASE LoadUser(r)
    BY <1>3, <1>5 DEF LoadUser, Goto, RowsStay, db, tx, hist, Holding
  <1>6. CASE FindPassword(r)
    BY <1>3, <1>6 DEF FindPassword, Goto, RowsStay, db, tx, hist, Holding
  <1>7. CASE FindOrCreate(r) \/ FindAccount(r)
    BY <1>3, <1>7 DEF FindOrCreate, FindAccount, Goto, RowsStay, db, tx, hist, Holding
  <1>8. CASE ExchangeGoogle(r) \/ ExchangeGitHub(r)
    BY <1>3, <1>8 DEF ExchangeGoogle, ExchangeGitHub, NotIdentified, Identified, Goto, RowsStay, db, tx, hist, Holding
  <1>9. CASE InsertPassword(r)
    BY <1>2, <1>3, <1>9 DEF InsertPassword, Goto, RowsStay, tx, hist, Holding
  <1>10. CASE SavePassword(r) \/ InsertCode(r) \/ SaveOther(r)
    BY <1>3, <1>10 DEF SavePassword, InsertCode, SaveOther, Goto, RowsStay, tx, hist, Holding
  <1>11. CASE SaveBoth(r)
    BY <1>3, <1>11, SaveBothWrites DEF Goto, RowsStay, tx, hist, Holding
  <1>12. CASE SaveAccount(r)
    BY <1>2, <1>3, <1>12 DEF SaveAccount, Goto, RowsStay, hist, db, Holding
  <1>13. CASE Commit(r)
    BY <1>3, <1>13 DEF Commit, Goto, RowsStay, hist, Holding
  <1>14. QED
    BY <1>1, <1>2, <1>4, <1>5, <1>6, <1>7, <1>8, <1>9, <1>10, <1>11, <1>12, <1>13 DEF Account, OAuth

(* An insert writes the row of its request.                                  *)
LEMMA InsertProfiles ==
  ASSUME Typed, Profiles, NEW r \in Reqs, Fits(r), r \notin users \cup fresh, pc[r] \notin Ended,
         row' = [row EXCEPT ![r] = Columns(r)], asked' = [asked EXCEPT ![r] = Columns(r)],
         users' \cup fresh' \subseteq users \cup fresh \cup {r}, crossed' = crossed, pc'[r] \notin Holding
  PROVE  Profiles'
  <1>1. r \in Ids /\ \A u \in (users \cup fresh) : u # r /\ row'[u] = row[u] /\ asked'[u] = asked[u]
    BY NoneIsNoId DEF Typed, TypeOK
  <1>2. row'[r] = Columns(r) /\ asked'[r] = Columns(r)
    BY <1>1 DEF Typed, TypeOK
  <1>3. ASSUME NEW q \in Reqs, pc'[q] \in Holding PROVE copy'[q] = row'[at'[q]] \/ at'[q] \in crossed'
    <2>1. q # r /\ pc[q] \in Holding /\ at'[q] = at[q] /\ copy'[q] = copy[q]
      BY <1>3 DEF Fits, Moves
    <2>2. at[q] \in users
      BY <2>1 DEF Typed, Control, Ready, Found, Holding, WithUser
    <2>3. QED
      BY <1>1, <2>1, <2>2 DEF Profiles
  <1>5. \A u : Misdirected(u) => Misdirected(u)'
    BY MisdirectedStays DEF Fits
  <1>6. ASSUME NEW u \in (users' \cup fresh') \ crossed' PROVE row'[u] = asked'[u] \/ Misdirected(u)'
    BY <1>1, <1>2, <1>5, <1>6 DEF Profiles
  <1>4. QED
    BY <1>3, <1>6 DEF Profiles

(* A save writes what the user asked for, if its copy was what the user asked *)
(* for until then, and goes to the user's own row; the requests that hold     *)
(* older copies are noted.                                                    *)
LEMMA SaveProfiles ==
  ASSUME Typed, Profiles, NEW r \in Reqs, Fits(r), SaveUser(r), ~Collide(r)
  PROVE  Profiles'
  <1>1. Ready(r) /\ pc[r] = "saveUser" /\ at[r] \in users /\ at[r] \in Ids /\ req' = req /\ at' = at
        /\ req[r].kind \in {"patch", "rename"}
    BY DEF SaveUser, local, Typed, TypeOK, Control, Ready, Found, MayBeAt, WithUser
  <1> PICK t : t = Target(r)
    OBVIOUS
  <1>2. /\ row' = [row EXCEPT ![t] = Merged(r, copy[r])] /\ pc'[r] = "done"
        /\ asked' = [asked EXCEPT ![t] = Merged(r, asked[at[r]])]
        /\ crossed' = crossed \cup {at[q] : q \in {q \in InFlight \ {r} : pc[q] \in {"findName", "saveUser"} /\ at[q] = t}}
        /\ users' = users \cup {t} /\ fresh' = fresh
    BY DEF SaveUser, Written, tx, Goto, Typed, TypeOK
  <1>9. t \in Ids /\ (req[r].kind = "rename" => t = at[r])
    BY <1>1, TargetTypes
  <1>3. /\ row'[t] = Merged(r, copy[r]) /\ asked'[t] = Merged(r, asked[at[r]])
        /\ \A v \in (users \cup fresh) \ {t} : row'[v] = row[v] /\ asked'[v] = asked[v]
    BY <1>2, <1>9 DEF Typed, TypeOK
  <1>5. crossed \subseteq crossed' /\ \A q \in InFlight \ {r} : pc[q] \in Holding /\ at[q] = t => t \in crossed'
    BY <1>2 DEF Holding
  <1>10. \A u : Misdirected(u) => Misdirected(u)'
    BY <1>1, MisdirectedStays DEF Fits, Ended
  <1>4. t \in crossed \/ row'[t] = asked'[t] \/ Misdirected(t)'
    <2>1. CASE t = at[r]
      <3>1. copy[r] = row[t] \/ t \in crossed
        BY <1>1, <2>1 DEF Profiles, Holding
      <3>2. row[t] = asked[t] \/ Misdirected(t) \/ t \in crossed
        BY <1>1, <2>1 DEF Profiles
      <3>3. QED
        BY <1>3, <1>10, <2>1, <3>1, <3>2
    <2>2. CASE t # at[r]
      BY <1>1, <1>2, <1>9, <2>2 DEF Misdirected, Target
    <2>3. QED
      BY <2>1, <2>2
  <1>6. ASSUME NEW v \in (users' \cup fresh') \ crossed' PROVE row'[v] = asked'[v] \/ Misdirected(v)'
    <2>1. CASE v = t
      BY <1>4, <1>5, <1>6, <2>1
    <2>2. CASE v # t
      BY <1>2, <1>3, <1>5, <1>6, <1>10, <2>2 DEF Profiles
    <2>3. QED
      BY <2>1, <2>2
  <1>7. ASSUME NEW q \in Reqs, pc'[q] \in Holding PROVE copy'[q] = row'[at'[q]] \/ at'[q] \in crossed'
    <2>1. q # r /\ pc[q] \in Holding /\ at'[q] = at[q] /\ copy'[q] = copy[q] /\ q \in InFlight
      BY <1>2, <1>7 DEF Fits, Moves, Holding, InFlight, Ended
    <2>2. at[q] \in users
      BY <2>1 DEF Typed, Control, Ready, Found, Holding, WithUser
    <2>3. QED
      BY <1>3, <1>5, <2>1, <2>2 DEF Profiles
  <1>8. QED
    BY <1>6, <1>7 DEF Profiles

LEMMA StatementProfiles ==
  ASSUME Typed, Profiles, NEW r \in Reqs, Account(r) \/ OAuth(r) \/ Fail(r) PROVE Profiles'
  <1>1. Fits(r) /\ Ready(r) /\ pc[r] \notin Ended
    BY Progress DEF Typed, Control
  <1>2. CASE RowsStay(r)
    <2>1. ASSUME NEW q \in Reqs, pc'[q] \in Holding PROVE copy'[q] = row'[at'[q]] \/ at'[q] \in crossed'
      <3>1. CASE q = r
        BY <1>2, <2>1, <3>1 DEF RowsStay, Profiles
      <3>2. CASE q # r
        BY <1>1, <1>2, <2>1, <3>2 DEF Fits, Moves, RowsStay, Profiles
      <3>3. QED
        BY <3>1, <3>2
    <2>2. \A u : Misdirected(u) => Misdirected(u)'
      BY <1>1, MisdirectedStays DEF Fits
    <2>3. QED
      BY <1>2, <2>1, <2>2 DEF RowsStay, Profiles
  <1>3. CASE InsertUser(r) /\ ~Collide(r)
    <2>1. r \notin users \cup fresh
      BY <1>1, <1>3 DEF InsertUser, Ready, Inserted, Linking
    <2>2. /\ row' = [row EXCEPT ![r] = Columns(r)] /\ asked' = [asked EXCEPT ![r] = Columns(r)]
          /\ users' = users \cup {r} /\ fresh' = fresh /\ crossed' = crossed /\ pc'[r] = "insertPassword"
      BY <1>3 DEF InsertUser, tx, Goto, Typed, TypeOK
    <2>3. QED
      BY <1>1, <2>1, <2>2, InsertProfiles DEF Holding
  <1>4. CASE InsertFresh(r) /\ ~Collide(r)
    <2>1. r \notin users \cup fresh
      BY <1>1, <1>4 DEF InsertFresh, Ready, Inserted, Linking
    <2>2. /\ row' = [row EXCEPT ![r] = Columns(r)] /\ asked' = [asked EXCEPT ![r] = Columns(r)]
          /\ fresh' = fresh \cup {r} /\ users' = users /\ crossed' = crossed /\ pc'[r] = "findAccount"
      BY <1>4 DEF InsertFresh, Goto, Typed, TypeOK
    <2>3. QED
      BY <1>1, <2>1, <2>2, InsertProfiles DEF Holding
  <1>5. CASE SaveUser(r) /\ ~Collide(r)
    BY <1>1, <1>5, SaveProfiles
  <1>6. QED
    BY <1>2, <1>3, <1>4, <1>5, StatementRows

LEMMA StartProfiles ==
  ASSUME Typed, Profiles, NEW r \in Reqs, NEW k \in AllKinds, Starts(r, k) PROVE Profiles'
  <1>1. UNCHANGED <<users, fresh, row, asked, crossed, copy>> /\ Moves(r) /\ pc'[r] = FirstStatement(k)
    BY StartFits DEF Starts, db, tx, hist, Fits, Typed, TypeOK
  <1>2. FirstStatement(k) \notin Holding
    BY FirstStatements DEF AllKinds, Holding
  <1>3. \A u : Misdirected(u) => Misdirected(u)'
    BY <1>1, MisdirectedStays DEF Starts, Ended
  <1>4. QED
    BY <1>1, <1>2, <1>3 DEF Moves, Profiles

LEMMA InitProfiles == Init => Profiles
  BY DEF Init, Profiles, Holding

LEMMA NextProfiles == Typed /\ Profiles /\ [Next]_vars => Profiles'
  <1> SUFFICES ASSUME Typed, Profiles, [Next]_vars PROVE Profiles'
    OBVIOUS
  <1>1. CASE CodeExpires \/ UNCHANGED vars
    BY <1>1 DEF CodeExpires, vars, tx, local, hist, Profiles, Misdirected, Target
  <1>2. ASSUME NEW r \in Reqs, Start(r) PROVE Profiles'
    BY <1>2, StartStarts, StartProfiles
  <1>3. ASSUME NEW r \in Reqs, Account(r) \/ OAuth(r) \/ Fail(r) PROVE Profiles'
    BY <1>3, StatementProfiles
  <1>4. QED
    BY <1>1, <1>2, <1>3 DEF Next, Idle

(* A profile shows what its user has asked for, column by column, although a  *)
(* save writes every column as it was loaded, unless two changes overlapped  *)
(* or a PATCH with another row's id wrote it.                                *)
THEOREM ProfilesAreKept == Spec => []ProfileAsAsked
  <1>1. Profiles => ProfileAsAsked
    BY DEF Profiles, ProfileAsAsked
  <1>2. QED
    BY <1>1, InitProfiles, NextProfiles, AlwaysTyped, PTL DEF Spec

-----------------------------------------------------------------------------
(* The reset codes *)

(* A reset that is done has used its code up, and one that began after it     *)
(* does not get past the look-up.                                            *)
Used(q) ==
  /\ req[q].kind = "reset" /\ pc[q] = "done" => req[q].item \in revoked
  /\ pc[q] = "saveBoth" => "code" \in todo[q] \/ req[q].item \in revoked
Stopped(q, r) ==
  q \in before[r] /\ req[q].kind = "reset" /\ req[r].kind = "reset" /\ req[q].item = req[r].item /\ pc[q] = "done"
  => pc[r] \in {"findCode", "refused", "failed"}
Bygone(r) == \A p \in before[r] : pc[p] \in Ended

Resets == \A r \in Reqs : Used(r) /\ Bygone(r) /\ \A q \in Reqs : Stopped(q, r)

LEMMA SaveBothUses ==
  ASSUME Typed, NEW r \in Reqs, Used(r), SaveBoth(r) PROVE Used(r)'
  <1>1. /\ pc[r] = "saveBoth" /\ req' = req
        /\ \E x \in todo[r] :
              /\ todo' = [todo EXCEPT ![r] = todo[r] \ {x}]
              /\ \/ /\ revoked' = IF x = "code" THEN revoked \cup {req[r].item} ELSE revoked
                    /\ Goto(r, IF todo[r] \ {x} # {} THEN "saveBoth" ELSE "done")
                 \/ /\ Goto(r, IF todo[r] \ {x} # {} THEN "saveOther" ELSE "failed")
                    /\ UNCHANGED revoked
    BY SaveBothWrites
  <1>2. PICK x \in todo[r] :
              /\ todo' = [todo EXCEPT ![r] = todo[r] \ {x}]
              /\ \/ /\ revoked' = IF x = "code" THEN revoked \cup {req[r].item} ELSE revoked
                    /\ Goto(r, IF todo[r] \ {x} # {} THEN "saveBoth" ELSE "done")
                 \/ /\ Goto(r, IF todo[r] \ {x} # {} THEN "saveOther" ELSE "failed")
                    /\ UNCHANGED revoked
    BY <1>1
  <1>3. todo'[r] = todo[r] \ {x} /\ todo[r] \subseteq {"code", "password"} /\ pc \in [Reqs -> Steps]
    BY <1>2 DEF Typed, TypeOK
  <1>4. "code" \in todo[r] \/ req[r].item \in revoked
    BY <1>1 DEF Used
  <1>5. CASE Goto(r, IF todo[r] \ {x} # {} THEN "saveOther" ELSE "failed")
    BY <1>3, <1>5 DEF Goto, Used
  <1>6. CASE /\ revoked' = IF x = "code" THEN revoked \cup {req[r].item} ELSE revoked
             /\ Goto(r, IF todo[r] \ {x} # {} THEN "saveBoth" ELSE "done")
    <2>1. "code" \in todo'[r] \/ req[r].item \in revoked'
      BY <1>3, <1>4, <1>6
    <2>2. pc'[r] = "done" => todo'[r] = {}
      BY <1>3, <1>6 DEF Goto
    <2>3. QED
      BY <1>1, <2>1, <2>2 DEF Used
  <1>7. QED
    BY <1>2, <1>5, <1>6

LEMMA StatementUses ==
  ASSUME Typed, NEW r \in Reqs, Used(r), Account(r) \/ OAuth(r) \/ Fail(r) PROVE Used(r)'
  <1>1. Ready(r) /\ Writes(r) /\ pc \in [Reqs -> Steps]
    BY Progress DEF Typed, TypeOK, Control
  <1>2. CASE SaveBoth(r)
    BY <1>2, SaveBothUses
  <1>3. CASE FindPassword(r)
    <2>1. \/ pc'[r] \in {"refused", "insertPassword", "savePassword"}
          \/ pc'[r] = "saveBoth" /\ todo' = [todo EXCEPT ![r] = {"code", "password"}]
      BY <1>1, <1>3 DEF FindPassword, Goto
    <2>2. QED
      BY <2>1 DEF Used, Typed, TypeOK
  <1>4. CASE req[r].kind = "reset" /\ ~SaveBoth(r) /\ ~FindPassword(r)
    <2>1. FindCode(r) \/ SaveOther(r) \/ Fail(r)
      BY <1>1, <1>4 DEF Ready, MayBeAt, Linking, Account, OAuth, FindTaken, InsertUser, InsertPassword, LoadUser, FindName,
         SaveUser, SavePassword, FindEmail, InsertCode, SendMail, ExchangeGoogle, ExchangeGitHub, FindOrCreate,
         InsertFresh, FindAccount, SaveAccount, Commit
    <2>2. pc'[r] \in {"findPassword", "refused", "failed"}
      BY <1>1, <2>1 DEF FindCode, SaveOther, Fail, Abort, Goto
    <2>3. QED
      BY <2>2 DEF Used
  <1>5. CASE req[r].kind # "reset"
    <2>1. req'[r].kind # "reset" /\ Ready(r)'
      BY <1>1, <1>5, Progress DEF Writes, Fits
    <2>2. pc'[r] # "saveBoth"
      BY <2>1 DEF Ready, MayBeAt
    <2>3. QED
      BY <2>1, <2>2 DEF Used
  <1>6. QED
    BY <1>2, <1>3, <1>4, <1>5

LEMMA StatementResets ==
  ASSUME Typed, Resets, NEW r \in Reqs, Account(r) \/ OAuth(r) \/ Fail(r) PROVE Resets'
  <1>1. /\ Fits(r) /\ Writes(r) /\ Ready(r) /\ pc[r] \notin Ended /\ pc \in [Reqs -> Steps]
        /\ \A q \in Reqs : pc[q] \in Ended => pc'[q] = pc[q]
    BY Progress DEF Typed, TypeOK, Control
  <1>2. ASSUME NEW q \in Reqs, q # r PROVE Used(q)'
    <2>1. req'[q] = req[q] /\ pc'[q] = pc[q] /\ revoked \subseteq revoked'
      BY <1>1, <1>2 DEF Fits, Moves, Writes
    <2>2. todo'[q] = todo[q]
      BY <1>2, SaveBothWrites DEF Account, OAuth, FindTaken, InsertUser, InsertPassword, LoadUser, FindName,
         FindPassword, SaveOther, FindCode, Fail, Collide, local,
         SaveUser, SavePassword, FindEmail, InsertCode, SendMail, ExchangeGoogle, ExchangeGitHub, FindOrCreate,
         InsertFresh, FindAccount, SaveAccount, Commit, Typed, TypeOK
    <2>3. QED
      BY <2>1, <2>2 DEF Resets, Used
  <1>3. Used(r)'
    BY StatementUses DEF Resets
  <1>4. ASSUME NEW p \in Reqs PROVE Bygone(p)'
    BY <1>1, <1>4 DEF Resets, Bygone, Writes, Typed, TypeOK
  <1>5. ASSUME NEW q \in Reqs, NEW p \in Reqs, q \in before'[p], req'[q].kind = "reset", req'[p].kind = "reset",
               req'[q].item = req'[p].item, pc'[q] = "done"
        PROVE  pc'[p] \in {"findCode", "refused", "failed"}
    <2>1. q \in before[p] /\ pc[q] \in Ended
      BY <1>1, <1>5 DEF Resets, Bygone, Writes
    <2>2. /\ pc[q] = "done" /\ req[q].kind = "reset" /\ req[p].kind = "reset" /\ req[q].item = req[p].item
      BY <1>1, <1>5, <2>1 DEF Writes
    <2>3. pc[p] \in {"findCode", "refused", "failed"} /\ req[p].item \in revoked
      BY <2>1, <2>2 DEF Resets, Stopped, Used
    <2>4. CASE p # r
      BY <1>1, <2>3, <2>4 DEF Fits, Moves
    <2>5. CASE p = r
      <3>1. pc[r] = "findCode"
        BY <1>1, <2>3, <2>5 DEF Ended
      <3>2. FindCode(r) \/ Fail(r)
        BY <3>1 DEF Account, OAuth, FindTaken, InsertUser, InsertPassword, LoadUser, FindName,
         FindPassword, SaveOther, SaveBoth,
         SaveUser, SavePassword, FindEmail, InsertCode, SendMail, ExchangeGoogle, ExchangeGitHub, FindOrCreate,
         InsertFresh, FindAccount, SaveAccount, Commit
      <3>3. pc'[r] \in {"refused", "failed"}
        BY <1>1, <2>3, <2>5, <3>2 DEF FindCode, Valid, Fail, Abort, Goto
      <3>4. QED
        BY <2>5, <3>3
    <2>6. QED
      BY <2>4, <2>5
  <1>6. QED
    BY <1>2, <1>3, <1>4, <1>5 DEF Resets, Stopped

LEMMA StartResets ==
  ASSUME Typed, Resets, NEW r \in Reqs, NEW k \in AllKinds, Starts(r, k) PROVE Resets'
  <1>1. /\ Moves(r) /\ pc[r] = "idle" /\ pc'[r] = FirstStatement(k) /\ UNCHANGED <<revoked, todo>> /\ req'[r].kind = k
        /\ before'[r] = {q \in Reqs : pc[q] \in Ended} /\ \A p \in Reqs \ {r} : before'[p] = before[p]
    BY StartFits DEF Starts, db, Fits, Typed, TypeOK, Sent
  <1>2. FirstStatement(k) \notin Ended \cup {"saveBoth"} /\ FirstStatement("reset") = "findCode"
    BY FirstStatements DEF AllKinds, Ended
  <1>3. ASSUME NEW q \in Reqs PROVE Used(q)' /\ Bygone(q)'
    <2>1. CASE q = r
      BY <1>1, <1>2, <2>1 DEF Used, Bygone, Moves, Ended
    <2>2. CASE q # r
      BY <1>1, <1>2, <2>2 DEF Resets, Used, Bygone, Moves, Typed, TypeOK, Ended
    <2>3. QED
      BY <2>1, <2>2
  <1>4. ASSUME NEW q \in Reqs, NEW p \in Reqs PROVE Stopped(q, p)'
    <2>1. CASE p = r
      BY <1>1, <1>2, <2>1 DEF Stopped
    <2>2. CASE p # r /\ q = r
      BY <1>1, <1>2, <2>2 DEF Stopped, Ended
    <2>3. CASE p # r /\ q # r
      BY <1>1, <2>3 DEF Resets, Stopped, Moves
    <2>4. QED
      BY <2>1, <2>2, <2>3
  <1>5. QED
    BY <1>3, <1>4 DEF Resets

LEMMA InitResets == Init => Resets
  BY DEF Init, Resets, Used, Bygone, Stopped

LEMMA NextResets == Typed /\ Resets /\ [Next]_vars => Resets'
  <1> SUFFICES ASSUME Typed, Resets, [Next]_vars PROVE Resets'
    OBVIOUS
  <1>1. CASE CodeExpires \/ UNCHANGED vars
    BY <1>1 DEF CodeExpires, vars, local, Resets, Used, Bygone, Stopped
  <1>2. ASSUME NEW r \in Reqs, Start(r) PROVE Resets'
    BY <1>2, StartStarts, StartResets
  <1>3. ASSUME NEW r \in Reqs, Account(r) \/ OAuth(r) \/ Fail(r) PROVE Resets'
    BY <1>3, StatementResets
  <1>4. QED
    BY <1>1, <1>2, <1>3 DEF Next, Idle

(* A reset code sets a password in two requests that both succeed only if     *)
(* they overlapped, although the two rows are saved side by side and either  *)
(* save may fail.                                                            *)
THEOREM CodesResetOnce == Spec => []CodeResetsOnce
  <1>1. Resets => CodeResetsOnce
    BY DEF Resets, Stopped, CodeResetsOnce
  <1>2. QED
    BY <1>1, InitResets, NextResets, AlwaysTyped, PTL DEF Spec

-----------------------------------------------------------------------------
(* The collisions *)

Overlap(q, r) == pc[q] # "idle" /\ q \notin before[r] /\ r \notin before[q]
Raced(r)      == \E q \in Reqs \ {r} : Overlap(q, r)

(* What a look-up has found holds until the statement that relies on it.     *)
Clear(r) ==
  /\ pc[r] \in {"insertUser", "insertFresh"} => \A v \in users : ~Clash(row[v], Columns(r))
  /\ pc[r] = "insertPassword" => password[at[r]] = None
  /\ pc[r] = "insertAccount" => link[req[r].identity] = None
  /\ pc[r] \in Holding => copy[r] = row[at[r]]
  /\ pc[r] = "saveUser" => \A v \in users : row[v].name # req[r].name

Races ==
  /\ \A r \in Reqs : Bygone(r)
  /\ \A r \in InFlight : LooksUp(r) => Raced(r) \/ Clear(r)
  /\ \A r \in collided : pc[r] = "failed"
  /\ CollidesOnlyByRace

(* Two requests under way overlap.                                           *)
LEMMA BothRace ==
  ASSUME Races, NEW q \in InFlight, NEW r \in InFlight, q # r PROVE Raced(r)
  BY DEF Races, Bygone, Raced, Overlap, InFlight, Ended

(* The names of a request, and whom it met, do not change.                   *)
LEMMA RacesStay ==
  ASSUME Typed, Races, NEW r \in Reqs, Writes(r), Fits(r), NEW q \in Reqs, Raced(q) PROVE Raced(q)'
  <1>1. PICK p \in Reqs \ {q} : Overlap(p, q)
    BY DEF Raced
  <1>2. pc'[p] # "idle" /\ before' = before
    BY <1>1 DEF Overlap, Fits, Moves, Writes
  <1>3. QED
    BY <1>1, <1>2 DEF Raced, Overlap

LEMMA LooksStay == ASSUME NEW r \in Reqs, Writes(r), NEW q \in Reqs PROVE LooksUp(q)' <=> LooksUp(q)
  BY DEF Writes, LooksUp

(* The own statements of a request that has met no other one.                *)
LEMMA ClearStays ==
  ASSUME Typed, NEW r \in Reqs, LooksUp(r), Clear(r), Account(r) \/ OAuth(r) \/ Fail(r) PROVE Clear(r)'
  <1>1. Ready(r) /\ Fits(r) /\ Writes(r) /\ pc[r] \notin Ended \cup {"idle"} /\ pc \in [Reqs -> Steps]
    BY Progress DEF Typed, TypeOK, Control
  <1>2. CASE Fail(r)
    BY <1>1, <1>2 DEF Fail, Abort, Goto, Clear, Holding
  <1>3. CASE FindTaken(r)
    <2>1. UNCHANGED <<users, row, req>> /\ pc'[r] \in {"refused", "insertUser"}
          /\ (pc'[r] = "insertUser" => ~Taken(r))
      BY <1>1, <1>3 DEF FindTaken, Goto, db
    <2>2. req[r].kind = "signUp" /\ req[r].name # Empty
      BY <1>1, <1>3, AccountsAssumption DEF FindTaken, Ready, MayBeAt, Named, LooksUp
    <2>3. ~Taken(r) => \A v \in users : ~Clash(row[v], Columns(r))
      BY <2>2 DEF Taken, Clash, Columns
    <2>4. QED
      BY <2>1, <2>3 DEF Clear, Clash, Columns, Holding
  <1>4. CASE InsertUser(r)
    <2>1. CASE pc'[r] = "failed"
      BY <2>1 DEF Clear, Holding
    <2>2. CASE pc'[r] # "failed"
      <3>1. pc'[r] = "insertPassword" /\ at'[r] = r /\ password' = password
        BY <1>1, <1>4, <2>2 DEF InsertUser, Collide, Abort, Goto, Typed, TypeOK
      <3>2. r \notin users /\ r \in Ids
        BY <1>1, <1>4, NoneIsNoId DEF InsertUser, Ready, Inserted
      <3>3. QED
        BY <3>1, <3>2 DEF Clear, Holding, Typed, TypeOK
    <2>3. QED
      BY <2>1, <2>2
  <1>5. CASE LoadUser(r)
    <2>1. /\ UNCHANGED <<row, at, users, req>> /\ copy'[r] = row[at[r]]
          /\ pc'[r] = IF req[r].kind = "patch" THEN "saveUser" ELSE "findName"
      BY <1>1, <1>5 DEF LoadUser, Goto, db, Typed, TypeOK
    <2>2. req[r].kind # "patch"
      BY <1>1, AccountsAssumption DEF LooksUp, Ready, Named
    <2>3. QED
      BY <2>1, <2>2 DEF Clear
  <1>6. CASE FindName(r)
    <2>1. /\ UNCHANGED <<row, at, users, req, copy>> /\ pc[r] \in Holding
          /\ \/ pc'[r] = "refused"
             \/ pc'[r] = "saveUser" /\ \A u \in users : row[u].name # req[r].name
      BY <1>1, <1>6 DEF FindName, Goto, db, local, Holding
    <2>2. QED
      BY <2>1 DEF Clear, Holding
  <1>7. CASE FindPassword(r)
    <2>1. /\ UNCHANGED <<password, at>>
          /\ \/ pc'[r] \in {"refused", "savePassword", "saveBoth"}
             \/ pc'[r] = "insertPassword" /\ password[at[r]] = None
      BY <1>1, <1>7 DEF FindPassword, Goto, db
    <2>2. QED
      BY <2>1 DEF Clear, Holding
  <1>8. CASE FindOrCreate(r)
    <2>1. /\ UNCHANGED <<users, row, req>>
          /\ \/ pc'[r] = "findAccount"
             \/ pc'[r] = "insertFresh" /\ \A u \in users : row[u].email # req[r].email
      BY <1>1, <1>8 DEF FindOrCreate, Goto, db
    <2>2. req[r].name = NoName
      BY <1>1, <1>8 DEF FindOrCreate, LooksUp, Ready, MayBeAt
    <2>3. QED
      BY <2>1, <2>2 DEF Clear, Clash, Columns, Holding
  <1>9. CASE FindAccount(r)
    <2>1. /\ UNCHANGED <<link, req>>
          /\ \/ pc'[r] = "updateAccount"
             \/ pc'[r] = "insertAccount" /\ link[req[r].identity] = None
      BY <1>1, <1>9 DEF FindAccount, Goto, db
    <2>2. QED
      BY <2>1 DEF Clear, Holding
  <1>10. CASE FindEmail(r) \/ SendMail(r) \/ FindCode(r) \/ SavePassword(r) \/ InsertCode(r) \/ SaveOther(r) \/ Commit(r)
    <2>1. pc'[r] \in {"refused", "insertCode", "done", "findPassword", "mail", "failed"}
      BY <1>1, <1>10 DEF FindEmail, SendMail, FindCode, SavePassword, InsertCode, SaveOther, Commit, Goto
    <2>2. QED
      BY <2>1 DEF Clear, Holding
  <1>11. CASE ExchangeGoogle(r) \/ ExchangeGitHub(r)
    <2>1. pc'[r] \in {"refused", "findOrCreate"}
      BY <1>1, <1>11 DEF ExchangeGoogle, ExchangeGitHub, NotIdentified, Identified, Goto
    <2>2. QED
      BY <2>1 DEF Clear, Holding
  <1>12. CASE InsertPassword(r) \/ SaveUser(r) \/ InsertFresh(r) \/ SaveAccount(r)
    <2>1. pc'[r] \in {"failed", "done", "findAccount", "commit"}
      BY <1>1, <1>12 DEF InsertPassword, SaveUser, InsertFresh, SaveAccount, Collide, Abort, Goto
    <2>2. QED
      BY <2>1 DEF Clear, Holding
  <1>13. CASE SaveBoth(r)
    <2>1. pc'[r] \in {"saveBoth", "done", "saveOther", "failed"}
      BY <1>1, <1>13, SaveBothWrites DEF Goto
    <2>2. QED
      BY <2>1 DEF Clear, Holding
  <1>14. QED
    BY <1>2, <1>3, <1>4, <1>5, <1>6, <1>7, <1>8, <1>9, <1>10, <1>11, <1>12, <1>13 DEF Account, OAuth

(* What is clear is not refused.                                             *)
LEMMA ClearIsSaved ==
  ASSUME Typed, NEW r \in Reqs, LooksUp(r), Clear(r), Account(r) \/ OAuth(r) \/ Fail(r)
  PROVE  collided' = collided
  <1>1. Ready(r)
    BY DEF Typed, Control
  <1>2. CASE InsertUser(r) \/ InsertFresh(r)
    <2>1. ~Refused(r, Columns(r))
      BY <1>2 DEF InsertUser, InsertFresh, Clear, Refused
    <2>2. QED
      BY <1>2, <2>1 DEF InsertUser, InsertFresh
  <1>3. CASE InsertPassword(r)
    BY <1>3 DEF InsertPassword, Clear, hist
  <1>4. CASE SaveAccount(r)
    BY <1>4 DEF SaveAccount, Clear, hist
  <1>5. CASE SaveUser(r)
    <2>1. /\ req[r].kind = "rename" /\ req[r].email = Same /\ req[r].name \in Names /\ req[r].name # Same
          /\ at[r] \in users /\ copy[r] = row[at[r]] /\ \A v \in users : row[v].name # req[r].name
      BY <1>1, <1>5, AccountsAssumption
         DEF SaveUser, LooksUp, Ready, MayBeAt, Named, Found, WithUser, Clear, Holding
    <2>2. Written(r, copy[r]) = [email |-> row[at[r]].email, name |-> req[r].name]
      BY <2>1 DEF Written, Merged
    <2>3. \A v \in users \ {at[r]} : row[v].email # row[at[r]].email
      BY <2>1 DEF Typed, TypeOK, Clash
    <2>6. Target(r) = at[r]
      BY <1>5, <2>1, TargetTypes DEF SaveUser
    <2>4. ~Refused(Target(r), Written(r, copy[r]))
      BY <2>1, <2>2, <2>3, <2>6 DEF Refused, Clash
    <2>5. QED
      BY <1>5, <2>4 DEF SaveUser
  <1>6. CASE SaveBoth(r)
    BY <1>6, SaveBothWrites DEF hist
  <1>7. QED
    BY <1>2, <1>3, <1>4, <1>5, <1>6 DEF Account, OAuth, FindTaken, LoadUser, FindName, FindPassword, SavePassword,
       FindEmail, InsertCode, SendMail, FindCode, SaveOther, ExchangeGoogle, ExchangeGitHub, FindOrCreate,
       FindAccount, Commit, Fail, hist

LEMMA StatementRaces ==
  ASSUME Typed, Races, NEW r \in Reqs, Account(r) \/ OAuth(r) \/ Fail(r) PROVE Races'
  <1>1. /\ Fits(r) /\ Writes(r) /\ pc[r] \notin Ended \cup {"idle"} /\ r \in InFlight
        /\ \A q \in Reqs : pc[q] \in Ended \cup {"idle"} => pc'[q] = pc[q]
    BY Progress DEF InFlight
  <1>2. ASSUME NEW q \in Reqs PROVE Bygone(q)'
    BY <1>1, <1>2 DEF Races, Bygone, Writes, Typed, TypeOK
  <1>3. ASSUME NEW q \in InFlight', LooksUp(q)' PROVE Raced(q)' \/ Clear(q)'
    <2>1. q \in InFlight /\ LooksUp(q) /\ q \in Reqs
      BY <1>1, <1>3, LooksStay DEF InFlight, Fits, Moves
    <2>2. CASE q # r
      BY <1>1, <2>1, <2>2, BothRace, RacesStay
    <2>3. CASE q = r /\ Raced(r)
      BY <1>1, <2>3, RacesStay
    <2>4. CASE q = r /\ Clear(r)
      BY <2>1, <2>4, ClearStays
    <2>5. QED
      BY <2>1, <2>2, <2>3, <2>4 DEF Races
  <1>4. ASSUME NEW q \in collided' PROVE pc'[q] = "failed" /\ (LooksUp(q)' => Raced(q)')
    <2>1. CASE q \in collided
      <3>1. q \in Reqs /\ pc[q] = "failed" /\ (LooksUp(q) => Raced(q))
        BY <2>1 DEF Races, CollidesOnlyByRace, Raced, Overlap, Typed, TypeOK
      <3>2. QED
        BY <1>1, <3>1, RacesStay, LooksStay DEF Ended
    <2>2. CASE q \notin collided
      <3>1. q = r /\ pc'[r] = "failed"
        BY <1>1, <1>4, <2>2 DEF Writes
      <3>2. ASSUME LooksUp(r)' PROVE Raced(r)'
        <4>1. LooksUp(r) /\ ~Clear(r)
          BY <1>1, <1>4, <2>2, <3>2, LooksStay, ClearIsSaved
        <4>2. QED
          BY <1>1, <4>1, RacesStay DEF Races
      <3>3. QED
        BY <3>1, <3>2
    <2>3. QED
      BY <2>1, <2>2
  <1>5. CollidesOnlyByRace'
    BY <1>4 DEF CollidesOnlyByRace, Raced, Overlap
  <1>6. QED
    BY <1>2, <1>3, <1>4, <1>5 DEF Races

LEMMA StartRaces ==
  ASSUME Typed, Races, NEW r \in Reqs, NEW k \in AllKinds, Starts(r, k) PROVE Races'
  <1>1. /\ Moves(r) /\ pc[r] = "idle" /\ pc'[r] = FirstStatement(k) /\ UNCHANGED <<db, collided>>
        /\ before'[r] = {q \in Reqs : pc[q] \in Ended} /\ \A p \in Reqs \ {r} : before'[p] = before[p]
    BY StartFits DEF Starts, hist, Fits, Typed, TypeOK
  <1>2. FirstStatement(k) \notin Ended \cup Holding \cup {"idle", "insertUser", "insertFresh", "insertPassword", "insertAccount"}
    BY FirstStatements DEF AllKinds, Ended, Holding
  <1>3. ASSUME NEW q \in Reqs PROVE Bygone(q)'
    <2>1. CASE q = r
      BY <1>1, <2>1 DEF Bygone, Moves, Ended
    <2>2. CASE q # r
      BY <1>1, <1>2, <2>2 DEF Races, Bygone, Moves, Typed, TypeOK, Ended
    <2>3. QED
      BY <2>1, <2>2
  <1>4. ASSUME NEW q \in Reqs, q # r PROVE /\ Raced(q) => Raced(q)'
                                           /\ LooksUp(q)' <=> LooksUp(q)
                                           /\ Clear(q) => Clear(q)'
                                           /\ pc'[q] = pc[q]
    <2>1. pc'[q] = pc[q] /\ req'[q] = req[q] /\ at'[q] = at[q] /\ copy'[q] = copy[q]
      BY <1>1, <1>4 DEF Moves
    <2>2. ASSUME Raced(q) PROVE Raced(q)'
      <3>1. PICK p \in Reqs \ {q} : Overlap(p, q)
        BY <2>2 DEF Raced
      <3>2. p # r /\ pc'[p] = pc[p] /\ before'[p] = before[p] /\ before'[q] = before[q]
        BY <1>1, <1>4, <3>1 DEF Overlap, Moves
      <3>3. QED
        BY <3>1, <3>2 DEF Raced, Overlap
    <2>3. Clear(q) => Clear(q)'
      BY <1>1, <2>1 DEF Clear, db, Clash, Columns
    <2>4. LooksUp(q)' <=> LooksUp(q)
      BY <2>1 DEF LooksUp
    <2>5. QED
      BY <2>1, <2>2, <2>3, <2>4
  <1>5. Clear(r)'
    BY <1>1, <1>2 DEF Clear, Holding
  <1>6. ASSUME NEW q \in InFlight', LooksUp(q)' PROVE Raced(q)' \/ Clear(q)'
    <2>1. CASE q = r
      BY <1>5, <2>1
    <2>2. CASE q # r
      BY <1>4, <1>6, <2>2 DEF Races, InFlight
    <2>3. QED
      BY <2>1, <2>2
  <1>7. ASSUME NEW q \in collided' PROVE pc'[q] = "failed" /\ (LooksUp(q)' => Raced(q)')
    <2>1. q \in Reqs /\ pc[q] = "failed" /\ q # r /\ (LooksUp(q) => Raced(q))
      BY <1>1, <1>7 DEF Races, CollidesOnlyByRace, Raced, Overlap, Typed, TypeOK
    <2>2. QED
      BY <1>4, <2>1
  <1>8. CollidesOnlyByRace'
    BY <1>7 DEF CollidesOnlyByRace, Raced, Overlap
  <1>9. QED
    BY <1>3, <1>6, <1>7, <1>8 DEF Races

LEMMA InitRaces == Init => Races
  BY DEF Init, Races, Bygone, InFlight, CollidesOnlyByRace

LEMMA NextRaces == Typed /\ Races /\ [Next]_vars => Races'
  <1> SUFFICES ASSUME Typed, Races, [Next]_vars PROVE Races'
    OBVIOUS
  <1>1. CASE CodeExpires \/ UNCHANGED vars
    <2>1. UNCHANGED <<users, row, password, link, req, pc, at, copy, before, collided>>
      BY <1>1 DEF CodeExpires, vars, local, hist
    <2>2. QED
      BY <2>1 DEF Races, Bygone, InFlight, LooksUp, Raced, Overlap, Clear, Clash, Columns, CollidesOnlyByRace
  <1>2. ASSUME NEW r \in Reqs, Start(r) PROVE Races'
    BY <1>2, StartStarts, StartRaces
  <1>3. ASSUME NEW r \in Reqs, Account(r) \/ OAuth(r) \/ Fail(r) PROVE Races'
    BY <1>3, StatementRaces
  <1>4. QED
    BY <1>1, <1>2, <1>3 DEF Next, Idle

(* The look-ups suffice as long as requests come one after the other: one     *)
(* that looked up what it writes ends at a unique index only because of a    *)
(* request that ran at the same time.                                        *)
THEOREM OnlyRacesCollide == Spec => []CollidesOnlyByRace
  <1>1. Races => CollidesOnlyByRace
    BY DEF Races
  <1>2. QED
    BY <1>1, InitRaces, NextRaces, AlwaysTyped, PTL DEF Spec
=============================================================================
