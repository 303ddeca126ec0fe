# kinman-be: specifications and proofs

TLA+ models of the kinman back end (`src/`, NestJS and TypeORM over PostgreSQL), the TLC runs
that check them on small instances, and theorems that TLAPS proves for every instance.
`PROJECT.json` is the machine-readable index: components, runs, the lines every definition
translates, findings, hazards and theorems.

Contents: [The system](#the-system) · [Modelling conventions](#modelling-conventions) ·
[Modules](#modules) · [Runs](#runs) · [Theorems](#theorems) · [Findings](#findings) ·
[What is not modelled](#what-is-not-modelled) · [Plan](#plan)

## The system

One Node.js process serves HTTP and Socket.IO; all durable state is in PostgreSQL. A handler runs
without interruption between two `await`s, and nearly every `await` is a database statement, so
two requests interleave at their statements. No handler opens a database transaction (the OAuth
sign-in excepted), takes a lock or retries; a handler that throws leaves what it has written.
`main.ts` installs a global `ValidationPipe` (`whitelist`, `transform`), so bodies reach the
services with the declared fields and numeric amounts. `PATCH me` of the accounts is the exception: its body is
declared as a `Pick<...>`, which is gone at run time, so every field that is sent reaches the service.

| Component | State | Operations | What makes it correct | Module |
|---|---|---|---|---|
| Wallets, categories, transactions (`finance/services`) | soft-deleted rows; a wallet carries a running `balance` | create, update, remove of each; `updateBalance` | a balance is the opening balance and the sum of the live transactions; a refused request changes nothing; the sign of an amount is that of its category; deleted rows stay deleted | `WalletLedger` |
| Groups, members (`groups.service`) | group row, member rows (no unique key), `isHidden` | create, addMember, joinByCode, toggleHidden | a user is a member once; toggles are not lost; the other members hear of a new one | `GroupLedger` |
| Expenses, settlements (`group-expenses.service`) | expense rows with their splits, settlement rows | addExpense, settleUp | only members record; members are told; every cent charged is accounted for | `GroupLedger` |
| Debt calculation (`getDebts`) | locals of one call | two queries, balances, sort, greedy loop | terminates; pays nobody more than they are owed; few payments; one side ends settled | `Debts` |
| Notification dispatcher, scheduler | none | dispatch to one or several users; hourly reminders | respects the user's switches; leaves nobody out without a cause | `Notifications` |
| Notifications and settings | inbox rows; one settings row per user, created on first use | create, read, read all, delete; get and update settings | a deleted notification stays deleted; one settings row per user; settings are what the user asked for | `Notifications` |
| Push subscriptions | a row per address; endpoints unique, device tokens not | subscribe, unsubscribe, send, drop | an address belongs to whoever subscribed it last, and to nobody when it is gone | `Notifications` |
| One-time codes, magic links | code rows with `active` and `verified`, link rows with `used`, expiry times | request, verify | a ticket is good for one sign-in unless two overlap; a new one closes the earlier ones; a good one is refused only for a cause | `OneTimeTokens` |
| Accounts, passwords | user, password and reset-code rows | sign-up, change of profile, user name, password; reset | every user can sign in; a code resets once; unique indexes are not where requests end | `Accounts` |
| OAuth sign-in | account rows per provider identity | exchange, find or create in a transaction | one user per address, one account per identity; nothing half-made | `Accounts` |
| Realtime gateway | sockets, rooms, `groupIds` per socket | connect, subscribe, unsubscribe, emit | events are true and were asked for; who subscribed before loading misses nothing; the books agree with the rooms | `Realtime` |
| Reports | locals of one call | user and group summary | counts what was there when asked for; balances agree with `getDebts` | `Reports` |
| AI, health, JWT and cookies, security log, e-mail, configuration | none, or append-only | queries, signing, formatting | – | – |

How they interact: `TransactionsService.create` calls `GroupsService.findOne` and
`GroupExpensesService.addExpense` (errors swallowed), then `WalletsService.updateBalance`;
`GroupsService` and `GroupExpensesService` call the dispatcher once per member, and when all were
told the realtime service once per event; the dispatcher reads the settings, creates an inbox row
and then calls mail and push; the scheduler calls the dispatcher; `getDebts` and the reports only
read, on the tables the others write.

What is hard: read-modify-write of rows over two statements (balances, `isHidden`, settings,
profiles), check-then-insert without a unique key (members, device tokens) or against one (settings,
endpoints, names), a whole row saved back after somebody removed it, failures between two writes of
one request, sign rules that depend on a category that may change, several queries that add up only
together, and floating-point money in a loop. The full list is `hazards` in `PROJECT.json`, each at
its line, with the properties that would catch it.

## Modelling conventions

- **A request is a process; an action is one database statement** (or one mail, push or call of a
  provider) and the local code up to the next `await`. `pc[r]` names the statement request `r` is
  about to execute. The order of the checks in the handlers is the order of the statements. `Start`
  issues any request a client can send (it can name rows that exist or existed).
- **`save(entity)`** is one atomic step. TypeORM reloads the row and writes the columns that differ,
  in a transaction of its own, and inserts the row when it is gone. Where rows are soft-deleted,
  `deletedAt` was null when the row was loaded and a save clears it again.
- **`findOne`** sees live rows only and loads a relation whose row is deleted as null.
- **Rows are named by the request that inserted them**, so no counter of ids is needed.
- **Failure.** `Abort`, `Fail` or `Error` ends a statement with an error, for a database error or a
  crash of the process; what was written stays, except inside the OAuth transaction. Memory is per
  request, so a crash is a failure of those in flight; only `Realtime` keeps state in memory, and
  has a `Crash` of its own. Where the code catches the error (`sendToUser`, the scheduler) the model
  goes on where the code does.
- **Amounts are integers**, in cents, or in parts of a cent where rounding and the `0.01`
  tolerance matter (`Debts`).
- **Data no property tells apart is left out**: names, notes, dates, images, currencies, the
  texts and payloads of notifications, transaction splits, the digits of a code, hashes.
- A state in which every request has ended stutters (`Rest`, `Idle`, `Done`), so deadlock checking
  stays on in every run: a deadlock would be a request that waits for ever.
- **History variables** are written and never read by guards; each module lists its own. The
  frequent ones are `before` (requests that had ended when one started: two requests overlapped if
  neither is in the other's set), `crossed` (rows changed while another request held a copy) and
  `asked` (what the user asked for).
- Operators named `Bug...` are plausible faults of the definition they precede; nothing uses them.
  Substituting one must break the property listed with it under `mutants`.

## Modules

### `WalletLedger` – wallets, categories and transactions

Variables `wallets`, `categories`, `txs` are the tables (`absent`, `live`, `deleted`),
`groupExpenses` the transactions whose group expense was recorded; `req`, `pc`, `old`, `type`,
`step`, `snap` are the handler's locals: the loaded transaction, the type of the category it will be
stored under, which of its `updateBalance` calls it is at and the balance that call has read.

| Action | Code |
|---|---|
| `FindTx`, `FindCategory`, `FindWallet` | the three `findOne`s; `AfterTx`, `AfterCategory`, `AfterWallet` are the code up to the next statement, the `TypeError` of a null relation included |
| `FindGroupAndAddExpense` | `create`, `if (dto.groupId)`: `findOne` may refuse; whatever `addExpense` throws is swallowed, and without splits it always throws |
| `InsertTx` | `create`, `save` |
| `ReadBalance`, `WriteBalance` | the two statements of `updateBalance`; `Adjustments` are the calls with the code's three different sign formulas |
| `SaveTx`, `SoftRemoveTx` | the last statements of `update` and `remove` |
| `InsertWallet` … `DeleteCategory` | the writes of `WalletsService` and `CategoriesService` |

`update` compares `dto.amount` with a decimal the driver returns as a string, so `!==` always holds
and it always adjusts both wallets; that is what `Adjustments` says. Which users own what is not
modelled: every query is restricted to the caller, so the module is about one user.

### `GroupLedger` – groups, expenses and settlements

One group. `members`, `expenses` and `settlements` are sets of rows; `seen` is what
`groupsService.findOne` loaded, which the handlers keep using until they answer; `queue` the members
still to notify; `read` what `getDebts` has loaded; `toggled` the row `toggleHidden` loaded. The
dispatcher appears as `Dispatch`: an inbox row unless the user switched the type off (`Muted`);
`Notifications` has its statements. `PerPerson` is `toFixed(2)` of a share: a nearest cent.

An expense row has two columns for its splits: what those of each user above nothing come to (`charged`),
and those below (`credited`). `getDebts` takes one less the other (`Owes`), the report adds both, as it takes
magnitudes. Splits sent with a body are any of `Divisions` (any users, either sign, not necessarily
the amount: the DTO asks for numbers only), those of EQUAL are computed (`Evenly`).

### `Debts` and `DebtTransfer` – the loop of `getDebts`

`Partition` separates and sorts, `Settle` is one turn of the loop, `Finish` its exit. Where the
code compares a floating-point amount with `0.01`, a decimal that should be exactly `0.01` may fall
on either side; `Between` and `Advance` choose, at that value only. `Cents` is `toFixed(2)`, with
ties open. Equal amounts are sorted in any order. `DebtTransfer` is the abstract promise: money goes
from one who owes to one who is owed, never more than either amount; `Debts` implements it with
the identity on `left` (property `ImplementsPromise`).

### `Notifications` – dispatcher, settings, push subscriptions, scheduler

| Variables | Code |
|---|---|
| `settings` | the row of each user as the set of switches that are on, or `NoRow` (created on first use with every switch on) |
| `inbox`, `unread` | notification rows; the one that request `r` creates for `u` is `<<r, u>>` |
| `subs` | push subscriptions; only endpoints are unique |
| `queue`, `at`, `got`, `rows`, `cur` | the users still to dispatch to, the present one, the switches, subscriptions and row loaded |

`FindSettings`, `InsertSettings` are `getSettings`, `SavePatch` the whole-row save of
`updateSettings`; `FindDue` is the scheduler's query; `ReloadSettings`, `CreateNotification`,
`FindSubscriptions`, `Push`, `SavePushed`, `DropSubscription` are the statements of one `dispatch`, with
the loop of `sendToUser` and its catch; `FindSubscription`, `SaveSubscription`, `Unsubscribe`,
`FindUnread`, `SaveRead`, `MarkAllAsRead`, `Delete` the rest. `Error` fails a statement, and `Fail`
says where the code goes then: a dispatch to several users stops, the scheduler goes on to the next
user. Mail is in `CreateNotification`: it keeps no state and its errors are caught.

### `OneTimeTokens` and `OneTimeTicket` – codes and links

Both services issue a ticket and check it later; one module has both, since they are the two ways to
implement one promise. `active`, `verified` and `links`, `used` are the rows; `expires` is taken
when a request begins, in ticks of the clock `now`. Asking: `FindUser`, then for a code
`FindCodes`, `Deactivate` (one update for each), for a link `Erase`, then `Insert`, `SendMail`, `Log`.
Checking: `FindCode` or `FindLink` with the checks of the row, then `MarkVerified` and `MarkInactive`,
or `MarkUsed`, then `Log` and `GetUser`. A code that is presented is one that was sent, or a wrong
guess; the code counts no attempts. A ticket may be checked by several requests at once.

`OneTimeTicket` is the abstract promise: a ticket is issued once, dies once, is granted only to a
check that saw it live, and is dead by then. `OneTimeTokens` implements it under the mapping
`live <- Live` (rows that would be accepted now), `looked <- seen`, `granted <-` the requests that
were answered with a sign-in (property `ImplementsTicket`).

### `Accounts` – users, passwords, reset codes, OAuth

`users` are the committed rows, `row` the columns (e-mail, user name), `password`, `codes`, `revoked`,
`expired`, `link` (the user of each identity at a provider) the other tables. The actions are the
statements of `signUp` (`FindTaken`, `InsertUser`, `InsertPassword`), `updateUser` and
`changeUsername` (`LoadUser`, `FindName`, `SaveUser`), of the passwords (`FindPassword`,
`SavePassword`), of the reset (`FindEmail`, `InsertCode`, `SendMail`, `FindCode`, then `SaveBoth` and
`SaveOther`: the two saves of a `Promise.all`, in either order, of which one may fail). A PATCH may carry an
id: `Target` is the row it then writes, another user's or one that was not there. A user name may be `Empty`:
`signUp` stores it without looking it up (`Taken`).

An OAuth sign-in exchanges its code for a profile (`ExchangeGoogle`, `ExchangeGitHub`: any address,
and at GitHub any login name; or it fails) and then runs `FindOrCreate` … `Commit` in one READ
COMMITTED transaction: `fresh` and `locked` are what it has written and not committed. A
statement that writes a unique value another transaction has written waits (`Waits`); one that finds
it committed ends there (`Collide`, the answer of `QueryFailedErrorFilter`). At the start there may be a
user, with a password, an account or both.

### `Realtime` – gateway, rooms, events

The handlers of the gateway have no `await`: `Connect`, `Subscribe`, `Unsubscribe`, `Disconnect` are one
action each, on `connected` (the gateway's map) and `rooms` (Socket.IO's). A request that writes
stores its row, tells the members (`Dispatched`) and then emits (`Emit`, to the sockets in the room by
then) – the order of `addExpense`, `addMember`, `joinByCode`; `settleUp` tells nobody. `wire` holds events under way, lost
with the socket; `Crash` closes every socket and ends the requests. The client is external: it loads a
group by a GET (`Read`, `Answer`) and adds what events tell it.

### `Reports` – composed with `GroupLedger`

Extends `GroupLedger`: a report runs its queries (`FindSubject`, `LoadTransactions`, `LoadExpenses`,
`LoadSettlements`) between the statements of the requests that write what it reads.
`SaveTransaction` adds the transaction of `TransactionsService.create` after its group expense. `Early` are
rows a client dated before the period; `createdAt` is the time of the insert, `date` what the client
said, and the two reports filter by one or the other. Totals are sums of functions on the loaded rows
(`TotalSpent`, `Paid`, `Owed`, `Balance`, `ReportedDebts`).

`MC*` modules give the constants their values. `*Proofs` modules hold the theorems; those about
`Reports` are in `GroupLedgerProofs`, and those about `OneTimeTicket` in `OneTimeTokensProofs`. `Sums` has
the lemmas about sums over finite sets.

## Runs

| Run | Asks | Bounds | Distinct states |
|---|---|---|---|
| `WalletSerial` | every request kind, served one at a time, one possibly cut short: `BooksBalance`, `FailedRequestsAreSilent`, `SignFollowsCategory` | 3 requests, 1 in flight, 1 abort, two wallets and categories of which one each exists at the start, no group, group with and without splits, either sign | 2.9 M |
| `WalletConcurrent` | transactions, and removals of wallets and categories, interleaved: `TypeOK`, `BooksBalance`, `ReviveOnlyByBystander` | 3 requests, 2 in flight, 1 abort, 2 wallets, 2 categories | 1.3 M |
| `DebtsSettle` | the loop: `Returns`, `OneSideIsSettled`, `FewPayments`, `NoEmptyPayment`, `PairsAreDistinct`, `ImplementsPromise`, `TypeOK` | 4 members, two units to a cent, 11 balances on both sides of the tolerance | 0.15 M |
| `GroupMembership` | creation, adding, joining, toggling: `MemberTwiceOnlyByRace`, `HiddenFollowsToggles`, `TypeOK` | 3 users, no group yet, 3 requests, 2 in flight, 1 abort | 0.4 M |
| `GroupMoney` | joining, expenses, settlements, `getDebts`: `OnlyMembersRecord`, `NewsReachesMembers`, `DebtsAccountForLedger` | 2 users, one a member, an odd amount so that shares round, splits for more than the amount and in part with one below nothing, 3 requests, 2 in flight, 1 abort | 2.8 M |
| `Notifications` | `SettingsAsAsked`, `AddressesAsAsked`, `NoNewsWhileOff`, `NewsReachesEveryone`, `DeletedStaysDeleted`, `TypeOK` | 2 users, an endpoint and a device token, all kinds of request, every switch but the reminder hour, 3 requests, 2 in flight, 1 error | 1.8 M |
| `OneTimeTokens` | `OneOpenTicketUnlessRaced`, `RefusedForACause`, `ImplementsTicket`, `TypeOK` | 2 users and an unknown address, a life of 1 tick, 2 ticks, 3 requests at once, 1 error | 3.4 M |
| `Accounts` | `EveryUserHasAWayIn`, `ProfileAsAsked`, `CodeResetsOnce`, `CollidesOnlyByRace`, `TypeOK`, no waiting in a circle | 2 addresses, a name and the empty one, one identity each at Google and GitHub; any 2 requests, and three by chosen plans (`SomePlans`); 2 in flight, 1 error | 3.4 M |
| `Realtime` | `EventsAreTrue`, `NothingMissed`, `TypeOK` | 1 socket, 2 groups, 3 requests, all at once, 1 error or crash | 0.8 M |
| `Reports` | `ReportIsComplete`, `ReportAgreesWithDebts` | 2 users, one a member, 2 requests at once, amounts of 10 and −10, splits in full, in part, and with one below nothing, the second row dated early, one report | 2.1 M |
| `WalletRemoveExpense`, `ReportDebts` | the two findings below | as `WalletSerial`, and two creditors of one debtor | – |

Each run takes between a few seconds and two minutes with two workers.

**Why the bounds are enough.** Every statement names at most two wallets and one transaction; a
wrong balance needs a creation, a second request on the same transaction or wallet, and for the
interleaved cases a third: hence three requests, of which two overlap. The serial run covers all nine
kinds, both signs (also one that disagrees with the category) and the change of a category's
type between two edits. The member races need two requests and somebody to hear of them. Four members with
unlike amounts are the least for which a debt is split over two creditors and a credit over two debtors;
balances of a half, one and one and a half cents hit the tolerance, and their sums need not be
zero, as after rounded shares. A settings or subscription row goes wrong by a save of a copy: one
request that holds it and one that changes it, after a third has created it; two users are enough for an address to
move and for a dispatch to stop between them. A ticket needs a request that makes it, one that checks it and one that
replaces it or checks it again. Two callbacks race for an address or a name; three requests are
needed when the first only sets the stage (a sign-up, a reset code), which is what the plans say. A client
misses an event between a GET, a subscription and one request; two groups are there so that an
event could go to the wrong room. For a report one request before it and one during it. The
theorems below remove the bounds for every invariant and action property of the passing runs.

**Symmetry** is used where all users (addresses, names, groups) play the same part and only in runs
without liveness properties: `Notifications`, `OneTimeTokens`, `Accounts`, `Realtime`.

**Fairness** is assumed in `Debts` only: weak fairness of the loop, which runs to its end without an
`await`, so nothing can suspend it. Elsewhere none is: a database statement may never return, nothing
retries, and what the services promise is safety. What must have happened when a request has
ended is stated as safety (`NewsReachesEveryone`, `NewsReachesMembers`, `NothingMissed`).

What the main properties say, beyond the letter of the code:

- `BooksBalance`: with nothing in flight, each wallet outside `drifted` holds its opening balance
  and the sum of its live transactions. `drifted` names each known cause: a balance or a row written
  back although it had changed since it was read, a skipped adjustment of a removed wallet, a
  balance set by hand, a request cut short after a write, and the two reversals that do not undo.
  Everything else must balance, so a new cause is found by this property.
- `FailedRequestsAreSilent`: all checks of a handler precede its first write, although they are
  spread over four services.
- `ReviveOnlyByBystander`, `DeletedStaysDeleted`, `AddressesAsAsked`: a row that was removed comes back only
  through a request that held a copy of it at the time. The revival does happen; a later request
  cannot cause it.
- `MemberTwiceOnlyByRace`, `HiddenFollowsToggles`, `SettingsAsAsked`, `ProfileAsAsked`,
  `OneOpenTicketUnlessRaced`, `CodeResetsOnce`, `CollidesOnlyByRace`: check-then-write is safe against everything that had ended
  before; the harm needs an overlap, and the property names it.
- `NewsReachesMembers`: from the moment the row of a request is stored, every member who had joined before it
  began is told or still in its loop; a request cut short leaves out those in its loop and nobody else. The
  requester and the payer of an expense are exempt both: see the findings.
- `NewsReachesEveryone`: whoever was to be told was, unless the switch was off at some time
  meanwhile or a statement failed for them or, in a dispatch to several users, for one before them.
- `EveryUserHasAWayIn`: no interleaving of sign-ups, sign-ins and failures leaves a user without
  password and account, but for a sign-up that failed halfway, for an address that changed at the
  provider (the sign-in makes a new user and the account stays with the old one), and for a PATCH that
  made up an id (its save inserts the row).
- `ProfileAsAsked`: besides overlaps only a PATCH with the id of that row, sent by another user, writes columns
  its user did not ask for (`Misdirected`).
- `CollidesOnlyByRace`: says nothing of writes that were not looked up: a PATCH, the login of a GitHub
  profile, a sign-up with an empty user name.
- `RefusedForACause`: nobody else's wrong guesses, and no code asked for and answered earlier, can make a good ticket fail.
- `NothingMissed`: subscribe first, then load, and nothing is lost; the exception is a request that
  stored its row and failed before it emitted.
- `DebtsAccountForLedger`, `ReportIsComplete`, `ReportAgreesWithDebts`: several queries straddle
  writes and the sums still agree, because rows are only added and settlements only move money. The balances of
  the report are those of `getDebts` however splits divide an expense, but only while no amount and no
  split is negative (`NothingNegative`).

## Theorems

TLAPS proves these for all values of the constants, from the named assumptions
(`RefsAssumption`, `IdsAssumption`, `AmountsAssumption`, `CentAssumption`, `TokensAssumption`,
`UsersAssumption`, `KindsAssumption`, `BoundsAssumption`, `RealtimeAssumption`, `NotificationsAssumption`, `AccountsAssumption`, `DivisionsAssumption`, …): sets of users are finite, bounds are natural
numbers, a marker such as `NoUser` is not a user, an instance offers request kinds the module
knows.

| Theorem | Property | Argument |
|---|---|---|
| `DebtsProofs!TypeCorrect` | `TypeOK` | part of the invariant `IInv` |
| `DebtsProofs!PaymentsAreFew` | `FewPayments` | every turn advances an index, and an index passes its list at most once |
| `DebtsProofs!PaymentsAreNotEmpty` | `NoEmptyPayment` | members ahead of the indices still hold at least a cent |
| `DebtsProofs!SettlesOneSide` | `OneSideIsSettled` | members behind the indices hold at most a cent |
| `DebtsProofs!Refinement` | `ImplementsPromise` | initial states map to initial states, every step to a `Transfer` or a stutter |
| `DebtsProofs!PairsDiffer` | `PairsAreDistinct` | invariant `PInv` |
| `WalletLedgerProofs!TypeCorrect` | `TypeOK` | invariant `Control` |
| `WalletLedgerProofs!RefusedRequestsAreSilent` | `FailedRequestsAreSilent` | invariant `Silence` |
| `WalletLedgerProofs!OnlyBystandersRevive` | `ReviveOnlyByBystander` | invariant `Revival` |
| `WalletLedgerProofs!SignsFollow` | `SignFollowsCategory` | invariant `Signing` |
| `WalletLedgerProofs!BooksAreKept` | `BooksBalance` | invariant `Books`: a balance is out by what the requests in flight have still to do |
| `OneTimeTokensProofs!TypeCorrect` | `TypeOK` | invariant `IInv` |
| `OneTimeTokensProofs!Refinement` | `ImplementsTicket` | invariant `IInv`; each statement is an `Issue`, `Close`, `Look`, `Grant` or a stutter |
| `OneTimeTokensProofs!OneIsOpen` | `OneOpenTicketUnlessRaced` | invariant `SInv` |
| `OneTimeTokensProofs!NoRefusalWithoutCause` | `RefusedForACause` | invariant `CInv` |
| `OneTimeTokensProofs!GrantedStaysDead` | – | what the refinement is for: the ticket of a granted check is never accepted again |
| `OneTimeTokensProofs!OnlyOverlappingChecks` | – | and a check that accepts it must have done so before |
| `GroupLedgerProofs!TypeCorrect` | `TypeOK` | invariant `Typed` |
| `GroupLedgerProofs!NobodyJoinsTwiceInTurn` | `MemberTwiceOnlyByRace` | invariant `Membership` |
| `GroupLedgerProofs!RecordsAreOfMembers` | `OnlyMembersRecord` | invariant `Records`: member rows are never lost |
| `GroupLedgerProofs!MembersAreTold` | `NewsReachesMembers` | invariant `News`: what a request has loaded it tells or keeps in its queue, and it has loaded whoever was there before it |
| `GroupLedgerProofs!TogglesAreKept` | `HiddenFollowsToggles` | invariant `Flips`, by the parity of the toggles that ended |
| `GroupLedgerProofs!DebtsAreAccountedFor` | `DebtsAccountForLedger` | invariant `Counted` (what `getDebts` has read contains what was there when it began) and the sums `BalancesAddUp` |
| `GroupLedgerProofs!ReportsMissNothing` | `ReportIsComplete` | invariant `ReportInv` on those of the group, and the sums of what the listed members paid |
| `GroupLedgerProofs!ReportsAgreeWithDebts` | `ReportAgreesWithDebts` | `ReportInv`; expense by expense, paid less owed is a net balance where nothing is negative |
| `RealtimeProofs!TypeCorrect` | `TypeOK` | invariant `IInv` |
| `RealtimeProofs!ClientsHearTheTruth` | `EventsAreTrue` | invariant `IInv` |
| `RealtimeProofs!SubscribersMissNothing` | `NothingMissed` | invariant `IInv`, statement by statement of the request and of the client |
| `NotificationsProofs!TypeCorrect` | `TypeOK` | invariant `Typed` |
| `NotificationsProofs!SettingsAreKept` | `SettingsAsAsked` | invariant `Settled`: the row a patch has loaded is still what the user asked for |
| `NotificationsProofs!NobodyIsToldUnasked` | `NoNewsWhileOff` | invariant `Told`: a dispatch past its look at the settings has seen the switch on |
| `NotificationsProofs!EveryoneIsTold` | `NewsReachesEveryone` | invariant `Told`: everybody named waits, was told, had it off or was missed |
| `NotificationsProofs!DeletedAreGone` | `DeletedStaysDeleted` | invariant `Erasures`, on `Told` |
| `NotificationsProofs!AddressesAreKept` | `AddressesAsAsked` | invariant `Addressed`: who holds a copy of which row |
| `AccountsProofs!TypeCorrect` | `TypeOK` | invariant `Typed` |
| `AccountsProofs!EverybodyGetsIn` | `EveryUserHasAWayIn` | inductive on `Typed`: no password and no account is lost, and a user is inserted on the way to one |
| `AccountsProofs!ProfilesAreKept` | `ProfileAsAsked` | invariant `Profiles`: a copy that is held is the row, or the user is noted as crossed |
| `AccountsProofs!CodesResetOnce` | `CodeResetsOnce` | invariant `Resets`: who began after a reset was done does not pass the look-up |
| `AccountsProofs!OnlyRacesCollide` | `CollidesOnlyByRace` | invariant `Races`: what a look-up found holds until it is relied on, or another request overlaps |

**`IInv` (Debts)** is `TypeOK` with `Lists` (the lists hold distinct members, no debtor is a
creditor), `Signs` (a listed debtor never becomes a creditor), `Ahead` (who is at or after an index still
owes or is owed at least a cent), `Pending` (who owes or is owed more than a cent is at or after it),
`Counted` (at most one payment per index step) and `Stage`. The properties alone are not
inductive because they say nothing about the members still ahead of the indices. **`PInv`** adds the
two indices each payment was made at, one of which the loop has left since (`Matched`).

**`Control` (WalletLedger).** `TypeOK` alone is not inductive: `WriteBalance` keeps `balance` an
integer only if `Adjusted(r)` is a wallet, and that rests on the lookups the request passed.
`MayBeAt(q, o, s)` states which requests, having loaded what, reach which statement; each action is
shown to send a request to a place it may be at.

**`Silence`** adds that a request before its first write is not in `wrote`, has recorded no
expense, and that its future transaction is absent – which needs that requests name
transactions that exist.

**`Revival`** adds who holds what: rows that requests name or have loaded exist (`Refers`), the id of a
row about to be inserted is new and nobody else's (`Reserves`), and a request that will write back a row
that is deleted by now is among the `bystanders` of its deletion (`Keeps`). `Frame` is the one-step
lemma: whatever `r` does, the invariant of the other requests survives.

**`Signing`** is `Revival` with `Signs`: every stored amount has the sign of its category's type, and a
request on its way to store one knows that type (`Knows`), or the category has been edited. It needs
that a category under whose id a new one is about to be inserted is nobody's (`Reserves`).

**`Books`** is what `BooksBalance` becomes while requests run. `Balanced`: the balance of a wallet that has
not drifted is its opening balance, the sum of its rows (`RowsTotal`) and what the requests in flight are
ahead (`AheadTotal`). `AheadOf` says of each kind and statement how far: `create` stores the row first and
owes the balance its amount, `update` and `remove` adjust balances first, one after the other, and owe the
row. An adjustment changes the balance and this debt alike unless `LosesBalance`
(`DeltaIsOffset`), and the save of a row that is not `Outdated` clears it. `Accounted` says that a request that
has written nothing owes nothing to a wallet that has not drifted, which is why `Abort` lets only
others drift; `Unopened`, that an absent wallet has its opening balance; `Uncounted`, that adjustments are
counted from the first. `Revival` is needed for `createWallet`: the id it inserts under is still
absent.

**`IInv` (OneTimeTokens)** adds to the types who may hold a ticket: a request has stored none before
its insert (`Storing`); one that accepted a ticket is at the statements that close it, those for codes
only with a code and those for links only with a link (`Accepted`); after them the ticket is closed
(`Closed`). The last needs the first: a closed row could come alive again only by an insert
under its own name.

**`SInv`** adds the order of requests: while an earlier ticket of the same kind and user is open, a
request that began after its request had ended has not stored its own, and has that ticket in its
queue if it is deactivating codes (`Superseding`).

**`CInv`** adds that a stored ticket is open, or accepted, or late, or superseded (`Kept`), and that a
check on its way to be refused has its cause by then (`Caused`). `SInv` is why a code that is none
of these is its user's only one, so that `findOne` without an order finds it (`Alone`); what a request
deactivates is its own user's, or late (`Queued`).

**`GroupLedgerProofs`** builds its invariant in layers, each inductive on those before it:

- `Typed`: `TypeOK`, which requests reach which statements naming whom (`Control`), and that the
  tables a share is divided by are finite (`Finite`).
- `Ordered`: requests start one after the other, and two under way at the same time are in each
  other's `met`. So a row inserted while `r` runs is never among those that were there before `r`.
- `Membership`: where member rows come from (`Rows`), that only one request creates the group
  (`Creation`), and what `findOne` loaded is still there (`Held`, by `Kept`: rows are never lost).
  `MemberTwiceOnlyByRace` says nothing of a row still to be inserted; `Racing` adds that whoever is
  about to insert one has met every request whose row of the same user is there by now.
- `Records`: who is about to record has found the caller and the payer among the members.
- `News`: a request that will tell the members, or was cut short after it stored its row, has loaded
  those who were there before it (`Loaded`); once its own row is stored it is at the loop or past it, and each
  of them is told or in `queue` (`Told`).
- `Flips`: only members have toggled (`Joined`), and a row that `toggleHidden` has loaded is unchanged
  until it is saved, unless by a toggle the request has met (`Unflipped`). Then one more toggle
  that met no other turns the parity and the row together.
- `Counted`: the rows read by a call of `getDebts` contain those that ended before it began.
  `Tables` adds what every row looks like and that the tables are finite; over such rows
  `BalancesAddUp` sums the balances by row instead of by user, where a settlement vanishes.
- `ReportInv` (for `ReportSpec`; `ReportsWatch` shows that it implements `Spec`, so all of the above
  holds of it): the shape of a report (`ReportTyped`); what it has loaded are rows of the tables and of the
  period (`Quoted`); the members it lists contain the payer of every expense from before it
  (`Covered`, by `Records`); each query that is done has loaded the rows due to it (`Fetched`). The total
  is then summed by payer (`SumSwap`).

**`IInv` (Realtime)** adds to the properties the shapes of the books (`Shapes`) and what a request has
committed by the statement it is at (`Committed`): an event is emitted after the row is stored, so
what a room hears is true, and what a client inside the room has not got yet is in an answer, on the
wire, or with a request that will still emit.

**`NotificationsProofs`** has four invariants on top of `Typed`, which says which request reaches
which statement with what:

- `Settled`: a user without a row has asked for nothing but the defaults, and a row loaded by a patch
  is what the user asked for until that patch saves it, unless another request of theirs overlaps
  it (`Loaded`).
- `Told`: a running dispatch knows of every user what their switch is now, and only who had it on
  reaches the insert (`Switched`); it has created nothing for users still ahead, so a new inbox row is
  new (`Creating`); everybody it named is ahead, or present and not created yet, or was told, or had
  the switch off, or was missed (`Waiting`). The properties alone say nothing of a dispatch that
  still runs.
- `Erasures`: a `markAsRead` about to save a deleted notification held it when it was deleted, or
  one that did has brought it back meanwhile (`Buried`).
- `Addressed`: a row keeps the address of the request that inserted it (`Own`); an address that was
  never written while another request held a copy of it has one row (`Alone`), copies of it are as new
  as the row (`Current`), and the row is of who asked last (`Kept`). A copy that is older is the only
  way a row that was removed comes back, as in `Revival`.

**`AccountsProofs`** has four independent invariants on top of `Typed`, which says which request
reaches which statement, that the user it has found has a row (its own uncommitted one in a
transaction), and which requests have inserted a user. `TypeOK` contains the unique indexes: they hold over
committed and uncommitted rows together because a write waits for the latter and is refused by the
former, so a commit can break nothing.

- `EveryUserHasAWayIn` is inductive on `Typed` as it stands: the `at` of a request that
  commits a new user is that user, so the account is linked to them or was another's before. The rows
  that a PATCH with a fresh id inserts are the ones it excepts, and `Typed` knows them by `Target`.
- `Profiles` adds uncommitted rows and the copies that `findName` and `saveUser` hold. A row that a
  PATCH with its id has written is excepted for good, because a request that has ended is not forgotten
  (`MisdirectedStays`).
- `Resets` adds that a reset whose code is saved has revoked it, in whatever order the two saves of
  `Promise.all` run (`Used`), that requests from before have ended and stay so (`Bygone`), and that
  one with the code of a reset done before it has not passed `findCode` (`Stopped`).
- `Races` adds, for each request on its way that looks its name up (`LooksUp`: a sign-up with an empty
  name does not), that it has met another one or that what it looked up still holds (`Clear`). The name a rename looked up is free, and its address is free because it is the
  user's own: there the copy has to be the row.

**Sums over sets.** Induction over a finite set is done in `Sums` without a theorem that takes an
operator: strict inclusion is well-founded on the subsets of a finite set, so a set of
counterexamples has a smallest member (`SubsetInduction`), which one element less refutes. From the equation of
the fold (`FoldEquation`) follow what the models need: a sum changes by what one term changes
(`SumChange`), sums add (`SumPlus`), terms that are zero can be left out (`SumSupport`), a table is
summed by rows or by columns (`SumSwap`).

**Only model-checked**: liveness (`Returns`, that the loop of `getDebts` ends), which needs fairness and
`ENABLED`; and that no request waits for ever (deadlock), in every run.

## Findings

Each is a run that TLC ends with a counterexample; the quoted lines are in `PROJECT.json`.

| Run | What the repository says | What the code does |
|---|---|---|
| `WalletRemoveExpense` | `remove`: "Revert balance" | stored expenses are negative; `remove` adds the amount again instead of taking it back |
| `ReportDebts` | debts "from the balance of the members (who owes whom)" | every debtor is listed with the whole balance against every creditor; with two creditors the debts are twice the balance |

Met while modelling, stated in the models and their comments, and not runs of their own:

- Two transactions created together: the balance counts one (`WriteBalance`; `drifted`).
- A transaction without category or wallet, or whose category or wallet was removed, cannot be
  edited: `update` and `remove` dereference both (`AfterTx`).
- A group transaction without splits gets no expense: `EXACT` is always passed and throws; the error
  is swallowed (`FindGroupAndAddExpense`).
- `addMember` and `joinByCode` together make a user a member twice (`MemberTwiceOnlyByRace`).
- `group-expenses.service.ts:81` says "except payer", the next line leaves out the requester (`ExpenseAudience`).
  Which of the two is meant the repository does not say; `NewsReachesMembers` asks for neither (`Concerned`).
- The group report counts amounts and splits by magnitude (`reports.service.ts:207`), `getDebts` with their
  sign (`group-expenses.service.ts:150`): an expense with a negative split or amount has different balances in
  the two (`NothingNegative`).
- A PATCH of one's own profile with an `id` in the body writes the row of that id, with the columns of the
  sender that the body leaves alone, or inserts it (`Target`, `Misdirected`).
- A sign-up with an empty user name is not looked up but stored: the second one ends at the unique index
  (`Taken`).
- The user summary counts an expense that came with a transaction twice, and incomes as spending
  (`TotalSpent`); the group report ignores settlements in the balances and marks a debt as settled
  by any settlement between the two (`ReportedDebts`).
- A user whose settings row does not exist gets no reminder although the defaults are on (`FindDue`).
- `findValidByToken` looks for links with `LessThan` now, which are the expired ones; nothing calls it.

## What is not modelled

- **Pure I/O and formatting**: e-mail templates and SMTP, push payloads, JWT signing and cookies,
  health checks, CSV layout, pagination, CORS matching, Swagger, key generation.
- **SQL and grouping**: `finance/services/reports.service.ts`, whose sums the database computes, and
  the sums by category, month and type of the reports.
- **Dead code**: `deleteOldNotifications`, `cleanupExpiredLinks`, `findValidByToken`,
  `validateGoogleUser`, `validateGitHubUser`, `notifyExpenseUpdated`, `notifyExpenseDeleted`,
  `subscribeToGroup`; methods that throw at once (SMS, TOTP); FCM sending, which is commented out.
- **External services**: PostgreSQL and TypeORM appear only through the conventions above, Socket.IO
  through rooms and delivery in order, the providers, the push services and the mail server through
  their answers.
- **Simplified inputs**: a push subscription has one address (the DTO lets a row carry an endpoint and a token);
  one socket (connecting again beside another is not in the run); splits in whole cents; of a PATCH body only
  the id, the address and the user name (other columns, such as roles or the image, travel as these do), and two
  PATCHes do not make up the same new id; a PATCH that sets the address to null is a statement that fails.
- **Abstracted inside the modelled parts**: look-ups of the payer and of the user to add (ids sent
  are those of users), group codes, more than one group (`GroupLedger`), more than one owner of
  wallets, transaction splits, push look-ups by `deviceId`, the security log's rows, the time of
  day of a reminder (the switch `due`).

## Plan

Modelling is complete up to the list above, and every invariant and action property of the passing
runs is a theorem. What would come next: sums by category and month, if they grow rules of their own.
