------------------------------ MODULE Accounts ------------------------------
(***************************************************************************)
(* Users, passwords, password-reset codes and the accounts of the OAuth    *)
(* providers: account.service.ts with its controller, and the sign-in of   *)
(* base-oauth.service.ts with the Google and GitHub services.              *)
(*                                                                         *)
(* A request is a process and an action is one database statement (or one  *)
(* exchange with a provider, or one mail) with the local code up to the    *)
(* next await.  save(row) writes every column as it was loaded, in a       *)
(* transaction of its own.  An OAuth sign-in runs all its statements in    *)
(* one READ COMMITTED transaction: what it has written is seen by others   *)
(* when it commits, and a statement of another request that writes the     *)
(* same unique value or the same row waits until then.                     *)
(***************************************************************************)
EXTENDS Integers, FiniteSets

CONSTANTS
  Emails, Names,
  NoName,         \* username NULL
  Empty,          \* the empty user name
  Same,           \* a column that a PATCH leaves alone
  Google, GitHub, \* identities at the providers: provider and providerAccountId
  Plans,          \* bound: the kinds the first, the second, ... request may have
  MaxRequests,    \* bound: number of requests
  MaxInFlight,    \* bound: requests served at the same time
  MaxErrors       \* bound: statements that fail

AllKinds == {"signUp", "patch", "rename", "createPassword", "changePassword", "askReset",
             "reset", "oauth"}

ASSUME AccountsAssumption ==
  /\ Empty \in Names /\ NoName \notin Names \cup Google \cup GitHub /\ Same \notin Emails \cup Names \cup {NoName}
  /\ Google \cap GitHub = {} /\ Plans \subseteq [1..MaxRequests -> SUBSET AllKinds]
  /\ MaxRequests \in Nat /\ MaxInFlight \in Nat /\ MaxErrors \in Nat

(* A row, a password and a reset code are named by the request that wrote it; *)
(* 0 names what an earlier sign-up or OAuth sign-in left.                     *)
Reqs       == 1..MaxRequests
Ids        == 0..MaxRequests
None       == MaxRequests + 1         \* no password, no user, no code
New        == MaxRequests + 2         \* an id that no row has
Identities == Google \cup GitHub
Row        == [email : Emails, name : Names \cup {NoName}]
Request    == [kind : AllKinds \cup {"none"}, user : Ids \cup {None}, email : Emails \cup {Same},
               name : Names \cup {NoName, Same}, item : Ids \cup {None, New},
               identity : Identities \cup {NoName}]
Asks(k, u, e, n, p, i) == [kind |-> k, user |-> u, email |-> e, name |-> n, item |-> p, identity |-> i]

VARIABLES
  users,      \* user_entity: the committed rows
  row,        \* their columns, of an uncommitted row as well
  password,   \* password_entity: the password of each user, or None
  codes,      \* token_entity: reset codes, with their user
  revoked,    \* codes with revoked = true
  expired,    \* codes whose expiresAt has passed
  link,       \* account_entity: the user of each identity, or None
  req, pc,    \* what each request asks for, the statement it is about to execute
  at,         \* the user the request has found
  copy,       \* the user row it has loaded
  todo,       \* what a reset has still to save
  fresh,      \* requests with an uncommitted user row
  locked,     \* identities whose account row a request has written and not committed
  errors,     \* statements that have failed
  (* History variables: no action reads them. *)
  asked,      \* the columns each user has asked for
  crossed,    \* users whose row was saved while another request held a copy
  collided,   \* requests that ended at a unique index
  before      \* requests that had ended when this one started

db    == <<users, row, password, codes, revoked, expired, link>>
tx    == <<fresh, locked>>
local == <<at, copy, todo, errors>>
hist  == <<asked, crossed, collided>>
vars  == <<users, row, password, codes, revoked, expired, link, fresh, locked, at, copy, todo,
           errors, asked, crossed, collided, req, pc, before>>

NoRow    == [email |-> Same, name |-> NoName]   \* the columns of no row
Blank    == Asks("none", None, Same, Same, None, NoName)
Ended    == {"done", "refused", "failed"}
InFlight == {r \in Reqs : pc[r] \notin Ended \cup {"idle"}}
Goto(r, s) == pc' = [pc EXCEPT ![r] = s]

-----------------------------------------------------------------------------
(* Requests.  A user who is signed in has a committed row.  The controller    *)
(* takes a password change without the old one for the creation of one.  A    *)
(* reset code is known once the request that mailed it has ended.  The body of *)
(* a PATCH has a type that is gone at run time, so that nothing is stripped    *)
(* from it: its item is the id it carries, of any user or of none, or no id.   *)
(* An operator named Bug... is a seeded fault that stands beside the           *)
(* definition it would replace; nothing uses it.                               *)

Requests(k) ==
  CASE k = "signUp" -> {Asks(k, None, e, n, None, NoName) : e \in Emails, n \in Names}
    [] k = "patch" -> {Asks(k, u, e, n, i, NoName) : u \in users, e \in Emails \cup {Same},
                         n \in Names \cup {NoName, Same}, i \in users \cup {None, New}}
    [] k = "rename" -> {Asks(k, u, Same, n, None, NoName) : u \in users, n \in Names}
    [] k = "createPassword" -> {Asks(k, u, Same, Same, None, NoName) : u \in users}
    [] k = "changePassword" -> {Asks(k, u, Same, Same, p, NoName) : u \in users, p \in Ids}
    [] k = "askReset" -> {Asks(k, None, e, Same, None, NoName) : e \in Emails}
    [] k = "reset" -> {Asks(k, None, Same, Same, c, NoName) :
                         c \in {c \in Reqs : codes[c] # None /\ pc[c] \in Ended}}
    [] OTHER -> {Asks(k, None, Same, Same, None, i) : i \in Identities}

FirstStatement(k) ==
  CASE k = "signUp" -> "findTaken"
    [] k \in {"patch", "rename"} -> "loadUser"
    [] k \in {"createPassword", "changePassword"} -> "findPassword"
    [] k = "askReset" -> "findEmail"
    [] k = "reset" -> "findCode"
    [] OTHER -> "exchange"

Start(r) ==
  /\ pc[r] = "idle"
  /\ \A q \in Reqs : q < r => pc[q] # "idle"
  /\ Cardinality(InFlight) < MaxInFlight
  /\ \E p \in {p \in Plans : \A q \in 1..(r - 1) : req[q].kind \in p[q]} :
     \E k \in p[r] : \E q \in Requests(k) :
       /\ req' = [req EXCEPT ![r] = q]
       /\ at' = [at EXCEPT ![r] = q.user]
       /\ Goto(r, FirstStatement(k))
  /\ before' = [before EXCEPT ![r] = {q \in Reqs : pc[q] \in Ended}]
  /\ UNCHANGED <<db, tx, copy, todo, errors, hist>>

(* The end of a request with an error: a transaction is rolled back, what was *)
(* written outside of one stays.                                              *)
Abort(r) ==
  /\ Goto(r, "failed")
  /\ fresh' = fresh \ {r}
  /\ locked' = [locked EXCEPT ![r] = {}]

Fail(r) ==
  /\ r \in InFlight /\ todo[r] = {} /\ errors < MaxErrors
  /\ errors' = errors + 1
  /\ Abort(r)
  /\ UNCHANGED <<db, at, copy, todo, hist, req, before>>

CodeExpires ==
  /\ \E c \in Reqs : codes[c] # None /\ c \notin expired /\ expired' = expired \cup {c}
  /\ UNCHANGED <<users, row, password, codes, revoked, link, tx, local, hist, req, pc, before>>

-----------------------------------------------------------------------------
(* The unique indexes of user_entity *)

Clash(a, b) == a.email = b.email \/ (a.name = b.name /\ a.name # NoName)

(* Writing columns c of user u waits for uncommitted rows with the same values *)
(* and ends with an error when a committed row has one of them.                *)
BugNoIndex(u, c) == FALSE
Waits(u, c)   == \E q \in fresh \ {u} : Clash(row[q], c)
Refused(u, c) == \E v \in users \ {u} : Clash(row[v], c)

Collide(r) ==
  /\ Abort(r)
  /\ collided' = collided \cup {r}
  /\ UNCHANGED <<db, asked, crossed>>

Columns(r) == [email |-> req[r].email, name |-> req[r].name]

-----------------------------------------------------------------------------
(* Signing up: two look-ups in one, the user row, then the password row.  A    *)
(* name is looked up unless it is empty, and stored in any case.               *)

BugEmailOnly(r) == \E u \in users : row[u].email = req[r].email
Taken(r) == \E u \in users : \/ row[u].email = req[r].email
                            \/ (req[r].name # Empty /\ row[u].name = req[r].name)

FindTaken(r) ==
  /\ pc[r] = "findTaken"
  /\ Goto(r, IF Taken(r) THEN "refused" ELSE "insertUser")
  /\ UNCHANGED <<db, tx, local, hist, req, before>>

InsertUser(r) ==
  /\ pc[r] = "insertUser" /\ ~Waits(r, Columns(r))
  /\ \/ Refused(r, Columns(r)) /\ Collide(r) /\ UNCHANGED local
     \/ /\ ~Refused(r, Columns(r))
        /\ users' = users \cup {r}
        /\ row' = [row EXCEPT ![r] = Columns(r)]
        /\ asked' = [asked EXCEPT ![r] = Columns(r)]
        /\ at' = [at EXCEPT ![r] = r]
        /\ Goto(r, "insertPassword")
        /\ UNCHANGED <<password, codes, revoked, expired, link, tx, copy, todo, errors, crossed, collided>>
  /\ UNCHANGED <<req, before>>

(* The only index of password_entity is the one on its user. *)
InsertPassword(r) ==
  /\ pc[r] = "insertPassword"
  /\ IF password[at[r]] # None THEN Collide(r)
     ELSE /\ password' = [password EXCEPT ![at[r]] = r]
          /\ Goto(r, "done")
          /\ UNCHANGED <<users, row, codes, revoked, expired, link, tx, hist>>
  /\ UNCHANGED <<local, req, before>>

-----------------------------------------------------------------------------
(* The profile: PATCH me writes what it is told, a rename looks the name up.  *)
(* save goes by the id of the row as it is by then: a PATCH with an id of      *)
(* another row writes that one, with the columns of its own user that the body *)
(* leaves alone, and inserts a row if there is none.                           *)

Target(r) == CASE req[r].item = None -> at[r]
               [] req[r].item = New  -> r
               [] OTHER              -> req[r].item

Merged(r, c) == [email |-> IF req[r].email = Same THEN c.email ELSE req[r].email,
                 name  |-> IF req[r].name  = Same THEN c.name  ELSE req[r].name]

LoadUser(r) ==
  /\ pc[r] = "loadUser"
  /\ copy' = [copy EXCEPT ![r] = row[at[r]]]
  /\ Goto(r, IF req[r].kind = "patch" THEN "saveUser" ELSE "findName")
  /\ UNCHANGED <<db, tx, at, todo, errors, hist, req, before>>

(* The user's own name counts as taken. *)
FindName(r) ==
  /\ pc[r] = "findName"
  /\ Goto(r, IF \E u \in users : row[u].name = req[r].name THEN "refused" ELSE "saveUser")
  /\ UNCHANGED <<db, tx, local, hist, req, before>>

BugReset(r, c) == Merged(r, [c EXCEPT !.name = NoName])
Written(r, c) == Merged(r, c)

SaveUser(r) ==
  /\ pc[r] = "saveUser" /\ ~Waits(Target(r), Written(r, copy[r]))
  /\ \/ Refused(Target(r), Written(r, copy[r])) /\ Collide(r)
     \/ /\ ~Refused(Target(r), Written(r, copy[r]))
        /\ users' = users \cup {Target(r)}
        /\ row' = [row EXCEPT ![Target(r)] = Written(r, copy[r])]
        /\ asked' = [asked EXCEPT ![Target(r)] = Merged(r, asked[at[r]])]
        /\ crossed' = crossed \cup {at[q] : q \in {q \in InFlight \ {r} :
                               pc[q] \in {"findName", "saveUser"} /\ at[q] = Target(r)}}
        /\ Goto(r, "done")
        /\ UNCHANGED <<password, codes, revoked, expired, link, tx, collided>>
  /\ UNCHANGED <<local, req, before>>

-----------------------------------------------------------------------------
(* Passwords and reset codes *)

FindPassword(r) ==
  /\ pc[r] = "findPassword"
  /\ LET has == password[at[r]] # None  k == req[r].kind IN
     \/ has /\ k = "createPassword" /\ Goto(r, "refused") /\ UNCHANGED todo
     \/ ~has /\ k = "createPassword" /\ Goto(r, "insertPassword") /\ UNCHANGED todo
     \/ ~has /\ k \in {"changePassword", "reset"} /\ Goto(r, "refused") /\ UNCHANGED todo
     \/ has /\ k = "changePassword" /\ UNCHANGED todo
        /\ Goto(r, IF password[at[r]] = req[r].item THEN "savePassword" ELSE "refused")
     \/ has /\ k = "reset" /\ Goto(r, "saveBoth")
        /\ todo' = [todo EXCEPT ![r] = {"code", "password"}]
  /\ UNCHANGED <<db, tx, at, copy, errors, hist, req, before>>

SavePassword(r) ==
  /\ pc[r] = "savePassword"
  /\ password' = [password EXCEPT ![at[r]] = r]
  /\ Goto(r, "done")
  /\ UNCHANGED <<users, row, codes, revoked, expired, link, tx, local, hist, req, before>>

FindEmail(r) ==
  /\ pc[r] = "findEmail"
  /\ \/ (\A u \in users : row[u].email # req[r].email) /\ Goto(r, "refused") /\ UNCHANGED at
     \/ \E u \in users : /\ row[u].email = req[r].email
                         /\ at' = [at EXCEPT ![r] = u]
                         /\ Goto(r, "insertCode")
  /\ UNCHANGED <<db, tx, copy, todo, errors, hist, req, before>>

(* The codes asked for earlier stay valid. *)
InsertCode(r) ==
  /\ pc[r] = "insertCode"
  /\ codes' = [codes EXCEPT ![r] = at[r]]
  /\ Goto(r, "mail")
  /\ UNCHANGED <<users, row, password, revoked, expired, link, tx, local, hist, req, before>>

SendMail(r) ==
  /\ pc[r] = "mail"
  /\ Goto(r, "done")
  /\ UNCHANGED <<db, tx, local, hist, req, before>>

BugUnspent(c) == c \notin expired
Valid(c) == c \notin expired \cup revoked

FindCode(r) ==
  /\ pc[r] = "findCode"
  /\ at' = [at EXCEPT ![r] = codes[req[r].item]]
  /\ Goto(r, IF Valid(req[r].item) THEN "findPassword" ELSE "refused")
  /\ UNCHANGED <<db, tx, copy, todo, errors, hist, req, before>>

(* Promise.all: two saves on connections of their own, in any order.  One that *)
(* fails makes the request fail and does not stop the other one.               *)
SaveBoth(r) ==
  /\ pc[r] = "saveBoth"
  /\ \E x \in todo[r] :
       /\ todo' = [todo EXCEPT ![r] = @ \ {x}]
       /\ \/ /\ revoked' = IF x = "code" THEN revoked \cup {req[r].item} ELSE revoked
             /\ password' = IF x = "password" THEN [password EXCEPT ![at[r]] = r] ELSE password
             /\ Goto(r, IF todo'[r] # {} THEN "saveBoth" ELSE "done")
             /\ UNCHANGED errors
          \/ /\ errors < MaxErrors
             /\ errors' = errors + 1
             /\ Goto(r, IF todo'[r] # {} THEN "saveOther" ELSE "failed")
             /\ UNCHANGED <<revoked, password>>
  /\ UNCHANGED <<users, row, codes, expired, link, tx, at, copy, hist, req, before>>

SaveOther(r) ==
  /\ pc[r] = "saveOther"
  /\ todo' = [todo EXCEPT ![r] = {}]
  /\ \/ /\ revoked' = IF "code" \in todo[r] THEN revoked \cup {req[r].item} ELSE revoked
        /\ password' = IF "password" \in todo[r] THEN [password EXCEPT ![at[r]] = r] ELSE password
     \/ UNCHANGED <<revoked, password>>
  /\ Goto(r, "failed")
  /\ UNCHANGED <<users, row, codes, expired, link, tx, at, copy, errors, hist, req, before>>

-----------------------------------------------------------------------------
(* Signing in with a provider.  The provider takes the code for tokens and the *)
(* tokens for a profile: who the user is there, which e-mail address and, at   *)
(* GitHub, which login the user has by now.                                    *)

GoogleProfiles == [email : Emails, name : {NoName}]
GitHubProfiles == [email : Emails, name : Names \ {Empty}]

Identified(r, profile) ==
  /\ req' = [req EXCEPT ![r] = Asks("oauth", None, profile.email, profile.name, None, req[r].identity)]
  /\ Goto(r, "findOrCreate")

NotIdentified(r) == Goto(r, "refused") /\ UNCHANGED req

ExchangeGoogle(r) ==
  /\ pc[r] = "exchange" /\ req[r].identity \in Google
  /\ NotIdentified(r) \/ \E p \in GoogleProfiles : Identified(r, p)
  /\ UNCHANGED <<db, tx, local, hist, before>>

ExchangeGitHub(r) ==
  /\ pc[r] = "exchange" /\ req[r].identity \in GitHub
  /\ NotIdentified(r) \/ \E p \in GitHubProfiles : Identified(r, p)
  /\ UNCHANGED <<db, tx, local, hist, before>>

FindOrCreate(r) ==
  /\ pc[r] = "findOrCreate"
  /\ \/ (\A u \in users : row[u].email # req[r].email) /\ Goto(r, "insertFresh") /\ UNCHANGED at
     \/ \E u \in users : /\ row[u].email = req[r].email
                         /\ at' = [at EXCEPT ![r] = u]
                         /\ Goto(r, "findAccount")
  /\ UNCHANGED <<db, tx, copy, todo, errors, hist, req, before>>

BugNoTransaction(r) ==
  /\ pc[r] = "insertFresh" /\ ~Waits(r, Columns(r)) /\ ~Refused(r, Columns(r))
  /\ users' = users \cup {r}
  /\ row' = [row EXCEPT ![r] = Columns(r)]
  /\ asked' = [asked EXCEPT ![r] = Columns(r)]
  /\ at' = [at EXCEPT ![r] = r]
  /\ Goto(r, "findAccount")
  /\ UNCHANGED <<password, codes, revoked, expired, link, tx, copy, todo, errors, crossed, collided,
                 req, before>>
InsertFresh(r) ==
  /\ pc[r] = "insertFresh" /\ ~Waits(r, Columns(r))
  /\ \/ Refused(r, Columns(r)) /\ Collide(r) /\ UNCHANGED local
     \/ /\ ~Refused(r, Columns(r))
        /\ fresh' = fresh \cup {r}
        /\ row' = [row EXCEPT ![r] = Columns(r)]
        /\ asked' = [asked EXCEPT ![r] = Columns(r)]
        /\ at' = [at EXCEPT ![r] = r]
        /\ Goto(r, "findAccount")
        /\ UNCHANGED <<users, password, codes, revoked, expired, link, locked, copy, todo, errors,
                       crossed, collided>>
  /\ UNCHANGED <<req, before>>

FindAccount(r) ==
  /\ pc[r] = "findAccount"
  /\ Goto(r, IF link[req[r].identity] = None THEN "insertAccount" ELSE "updateAccount")
  /\ UNCHANGED <<db, tx, local, hist, req, before>>

(* An account that exists keeps its user; only its tokens are replaced. *)
SaveAccount(r) ==
  /\ pc[r] \in {"insertAccount", "updateAccount"}
  /\ \A q \in Reqs \ {r} : req[r].identity \notin locked[q]
  /\ IF pc[r] = "insertAccount" /\ link[req[r].identity] # None THEN Collide(r)
     ELSE /\ locked' = [locked EXCEPT ![r] = {req[r].identity}]
          /\ Goto(r, "commit")
          /\ UNCHANGED <<db, fresh, hist>>
  /\ UNCHANGED <<local, req, before>>

Linked(r) == IF link[req[r].identity] = None THEN [link EXCEPT ![req[r].identity] = at[r]] ELSE link

Commit(r) ==
  /\ pc[r] = "commit"
  /\ users' = users \cup (fresh \cap {r})
  /\ fresh' = fresh \ {r}
  /\ link' = Linked(r)
  /\ locked' = [locked EXCEPT ![r] = {}]
  /\ Goto(r, "done")
  /\ UNCHANGED <<row, password, codes, revoked, expired, local, hist, req, before>>

-----------------------------------------------------------------------------
(* At the start there may be a user 0, with a password, with an account at a *)
(* provider, or with both.                                                   *)
Init ==
  /\ users \in {{}, {0}}
  /\ \E c \in IF users = {} THEN {NoRow} ELSE Row : row = [u \in Ids |-> IF u = 0 THEN c ELSE NoRow]
  /\ \E p \in BOOLEAN, S \in SUBSET Identities :
       /\ users = {} => ~p /\ S = {}
       /\ users # {} => Cardinality(S) <= 1 /\ (p \/ S # {})
       /\ password = [u \in Ids |-> IF u = 0 /\ p THEN 0 ELSE None]
       /\ link = [i \in Identities |-> IF i \in S THEN 0 ELSE None]
  /\ codes = [c \in Reqs |-> None] /\ revoked = {} /\ expired = {}
  /\ fresh = {} /\ locked = [r \in Reqs |-> {}]
  /\ req = [r \in Reqs |-> Blank] /\ pc = [r \in Reqs |-> "idle"]
  /\ at = [r \in Reqs |-> None] /\ copy = [r \in Reqs |-> NoRow] /\ todo = [r \in Reqs |-> {}]
  /\ errors = 0 /\ asked = row /\ crossed = {} /\ collided = {}
  /\ before = [r \in Reqs |-> {}]

Account(r) ==
  \/ FindTaken(r) \/ InsertUser(r) \/ InsertPassword(r) \/ LoadUser(r) \/ FindName(r) \/ SaveUser(r)
  \/ FindPassword(r) \/ SavePassword(r) \/ FindEmail(r) \/ InsertCode(r) \/ SendMail(r)
  \/ FindCode(r) \/ SaveBoth(r) \/ SaveOther(r)
OAuth(r) ==
  \/ ExchangeGoogle(r) \/ ExchangeGitHub(r)
  \/ FindOrCreate(r) \/ InsertFresh(r) \/ FindAccount(r) \/ SaveAccount(r) \/ Commit(r)

(* The server may be idle for ever: a deadlock is a state in which every *)
(* request under way waits for another one.                              *)
Idle == InFlight = {} /\ UNCHANGED vars

Next == CodeExpires \/ Idle \/ \E r \in Reqs : Start(r) \/ Fail(r) \/ Account(r) \/ OAuth(r)

Spec == Init /\ [][Next]_vars

-----------------------------------------------------------------------------
(* Properties *)

Steps == {"idle", "findTaken", "insertUser", "insertPassword", "loadUser", "findName", "saveUser",
          "findPassword", "savePassword", "findEmail", "insertCode", "mail", "findCode", "saveBoth",
          "saveOther", "exchange", "findOrCreate", "insertFresh", "findAccount", "insertAccount",
          "updateAccount", "commit"} \cup Ended

(* The unique indexes hold over committed and uncommitted rows, at most one   *)
(* transaction writes an account, and a row that refers to a user has one.    *)
TypeOK ==
  /\ users \subseteq Ids /\ fresh \subseteq Reqs \ users
  /\ row \in [Ids -> Row \cup {NoRow}] /\ asked \in [Ids -> Row \cup {NoRow}]
  /\ \A u \in users \cup fresh : row[u] \in Row /\ asked[u] \in Row
  /\ \A u, v \in users \cup fresh : u # v => ~Clash(row[u], row[v])
  /\ password \in [Ids -> Ids \cup {None}] /\ \A u \in Ids \ users : password[u] = None
  /\ codes \in [Reqs -> users \cup {None}]
  /\ revoked \cup expired \subseteq {c \in Reqs : codes[c] # None}
  /\ link \in [Identities -> users \cup {None}]
  /\ locked \in [Reqs -> SUBSET Identities]
  /\ \A q, r \in Reqs : q # r => locked[q] \cap locked[r] = {}
  /\ req \in [Reqs -> Request] /\ pc \in [Reqs -> Steps]
  /\ at \in [Reqs -> Ids \cup {None}] /\ copy \in [Reqs -> Row \cup {NoRow}]
  /\ todo \in [Reqs -> SUBSET {"code", "password"}]
  /\ crossed \subseteq users /\ collided \subseteq Reqs /\ before \in [Reqs -> SUBSET Reqs]
  /\ errors \in 0..MaxErrors

(* Every user has a way in: a password, or an account at a provider.  The    *)
(* exceptions are three: the sign-up that made the row has not stored the    *)
(* password, because it runs still or has failed; the OAuth sign-in that     *)
(* made it came with an account that another user has already, its e-mail    *)
(* address at the provider having changed; a PATCH with an id that nobody    *)
(* had made it.  A transaction that fails leaves no user behind, and no      *)
(* later request takes a way in away.                                        *)
EveryUserHasAWayIn ==
  \A u \in users :
    \/ password[u] # None
    \/ \E i \in Identities : link[i] = u
    \/ u # 0 /\ req[u].kind = "signUp" /\ pc[u] \in {"insertPassword", "failed"}
    \/ u # 0 /\ req[u].kind = "oauth" /\ pc[u] = "done" /\ link[req[u].identity] \notin {u, None}
    \/ u # 0 /\ req[u].kind = "patch" /\ pc[u] = "done" /\ req[u].item = New

(* A PATCH with the id of another row than its user's has written user u.    *)
Misdirected(u) ==
  \E r \in Reqs : /\ pc[r] = "done" /\ req[r].kind = "patch"
                  /\ u = Target(r) /\ u # at[r]

(* A profile is what its user has asked for, column by column, unless two    *)
(* changes overlapped so that one was saved while the other held a copy, or  *)
(* a PATCH with another row's id wrote it.                                   *)
ProfileAsAsked ==
  \A u \in users \ crossed : row[u] = asked[u] \/ Misdirected(u)

(* A reset code sets a password in two requests that both succeed only if    *)
(* they overlapped; if one save of the first reset failed, the user was told *)
(* so.                                                                       *)
CodeResetsOnce ==
  \A q, r \in Reqs :
    /\ q # r /\ req[q].kind = "reset" /\ req[r].kind = "reset" /\ req[q].item = req[r].item
    /\ pc[q] = "done" /\ pc[r] = "done"
    => q \notin before[r]

(* The look-ups keep requests away from the unique indexes: one that looked  *)
(* up what it writes ends at an index only because of a request that ran at  *)
(* the same time.  A PATCH looks nothing up, nor does a sign-up for an empty *)
(* name, nor a GitHub sign-in for its login: these may end there alone.      *)
LooksUp(r) ==
  \/ req[r].kind = "signUp" /\ req[r].name # Empty
  \/ req[r].kind \in {"rename", "createPassword"}
  \/ req[r].identity \in Google
CollidesOnlyByRace ==
  \A r \in collided : LooksUp(r) =>
    \E q \in Reqs \ {r} : pc[q] # "idle" /\ q \notin before[r] /\ r \notin before[q]
=============================================================================
