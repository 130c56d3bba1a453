# Formal model of the bot

TLA+ modules, TLC configurations and TLAPS proofs about the Telegram bot in
this repository: how it keeps balances of users, moves money between them,
pays it out on the Juno chain and takes it in; and what is played, shared and
enforced on top: duels, giveaways, shared accounts, fines, jails and roles. The
code is TypeScript on Node.js with a SQLite database; paths below are relative
to `src/` (so `src/services/...` is the bot's own code).

Contents: [the system](#the-system) - [the modules](#the-modules) -
[runs](#runs) - [where the code differs from its documents](#disagreements) -
[proofs](#proofs) - [abstractions](#abstractions) -
[what is left out](#not-modelled) - [plan](#plan).

## The system

One process, one thread. Telegraf polls Telegram for batches of updates and
hands each to a command or callback handler (an `async` function); timers run
background jobs. All state that matters is in SQLite, behind synchronous calls
(better-sqlite3): one SQL statement is atomic, and nothing in the money paths
opens an SQL transaction. Memory holds little: the wallet's signer, the
monitor's `lastCheckedHeight`, the seeds of `/roll`, menu sessions.

| component | code | state | operations | hard behaviour | what makes it correct |
|---|---|---|---|---|---|
| event loop, dispatch | `src/bot.ts`, Telegraf, Node | runnable handlers, timers | batches, timers, I/O completions, kill | which awaits interleave with which | (environment of everything else) |
| transaction locks | `src/services/transactionLock.ts` | table `transaction_locks`, one row per user | lock/release for withdrawals, for transfers, for anything; store a hash; cleanup | rows outlive crashes; releases delete by user, not by owner; timeouts | a running request keeps its rows; no row stays for ever |
| lock check | `src/middleware/lockCheck.ts` | none | `financialLockCheck` before `/withdraw`, `/send`, `/transfer` | a check long before the use | a locked user is kept out |
| ledger | `src/services/ledgerService.ts`, `src/utils/precision.ts` | `user_balances`, `transactions` | deposit, withdrawal, transfer, credit, adjustment | read, compute and write are separate awaits; several statements per operation | never negative; balances equal the log; a movement is all or nothing |
| wallet | `src/services/unifiedWalletService.ts`, `src/handlers/wallet.ts` | none of its own | withdraw, send, pay a fine, refund | network between statements; late or lost answers; crashes | money leaves once and is refunded exactly when it did not leave; the bot stays solvent |
| `/roll` | `src/commands/gambling.ts` | seeds | bet against the treasury | several rolls in one batch share the treasury | users' balances right; lock returned |
| `/payallfines` | `src/commands/payment.ts` | `violations` | pay all fines | takes no lock; violations read before they are paid and settled | a fine is marked paid only for money received |
| deposits | `src/services/unifiedWalletService.ts`, `src/commands/deposit.ts` | `processed_deposits`, `lastCheckedHeight` | monitor, startup reconciliation, `/verifydeposit`, `/processdeposit`, `/claimdeposit` | four programs handle the same deposit; crashes between statements; pages of the node's answer | each deposit found, credited exactly once, claimed at most once |
| menu sessions | `src/utils/menuSession.ts` | two maps in memory | open, replace, press, expire, sweep | callbacks of an old menu; two maps for one session | the maps agree |
| duels | `src/services/duelService.ts`, `src/commands/duel.ts` | `duels`, locks of type `duel` | create, accept, reject, cancel, expire | accept against cancel and expiry; two locks, crash | paid once; locks returned |
| giveaways | `src/commands/giveaway.ts`, `src/handlers/callbacks.ts` | `giveaways`, `giveaway_claims`, escrow balances | create, fund, claim, complete, cancel | a claim is four statements; sums of money that are doubles | slots and escrow agree |
| shared accounts | `src/services/sharedAccountService.ts`, `src/commands/sharedAccounts.ts` | `shared_accounts`, `shared_account_permissions` | create, grant, revoke, update, delete, move money | checks are awaits before the statement; ids are used again | the creator keeps control; rights concern this account |
| roles, lists | `src/middleware/index.ts`, `src/handlers/roles.ts`, `src/handlers/blacklist.ts` | `users` | grant, revoke, lists | roles change while a moderation waits | only who may, does |
| jail and bail | `src/services/jailService.ts`, `src/commands/jail.ts`, `src/commands/moderation.ts` | `users.muted_until`, Telegram's restrictions | jail, release, bail, sweep | expiry against bail and new jails; crash of a sweep | who is due to be free is released |
| violations, fines | `src/services/violationService.ts`, `src/commands/payment.ts`, `src/commands/fineConfig.ts` | `violations`, `users.warning_count`, `fine_config` | record, warn, clear, pay, set a price | row and counter are two tables, written in two statements | counter equals rows; paid means paid for |
| restrictions | `src/services/restrictionService.ts`, `src/middleware/messageFilter.ts`, `src/handlers/restrictions.ts` | `user_restrictions`, `global_restrictions` | check a message, punish, escalate, expire | thresholds in a window; stale checks across I/O | a threshold leads to jail, jails end |

Interactions: handlers call the wallet, the wallet calls the lock service and
the ledger, all of them share the two tables; `/roll` and duels take locks in
the same table, duels, giveaways and fines move money through the same
`transferBetweenUsers`; duels and giveaways share the menus; duels, the filter
and the admins all write the jail of a user; the monitor and the commands share
`processed_deposits`; the cleanup timer shares the lock table with every
request; the chain and Telegram are reached by requests whose answer may be
late, lost or an error. Nothing calls back into a handler except the completion
of its own `await`.

### Which awaits interleave

This decides what can go wrong, so it is a module of its own (`EventLoop`).
`await` of a value that is already there (every ledger, lock and database call)
is a microtask. Microtasks run until none is left before Node takes the next
I/O completion or timer, so:

* a handler that has just waited for the network or for Telegram runs alone
  until its next real I/O or its end. This is so for `/send` and `/withdraw`
  (they await `ctx.reply` before they call the wallet), for `/verifydeposit`
  and `/processdeposit` (they ask the node first), for the monitor, and for the
  cleanup;
* the updates of one `getUpdates` answer are dispatched together, so handlers
  that reach the money code with no I/O before it interleave at every `await`:
  `/roll`, `/payallfines`, the three commands that move money to or from the
  treasury, `/claimdeposit`, `/cancelgiveaway`, the buttons of
  duels, and the commands of shared accounts that only change permissions. The
  buttons of giveaways and menus answer the query first and wake alone;
* Telegraf asks for the next batch when all handlers of the last one have
  returned, or have run for 90 seconds; so handlers of different batches
  overlap while the earlier ones wait.

The constant `Batching`, or the field `batching` of a mode, tells the two worlds
apart: `FALSE` means that no batch holds two of the second kind, the usual case
in a quiet group. Inside a batch the models let handlers interleave in any way.
Node is stricter (microtasks are queued first in, first out), but which await
costs how many microtasks is a detail of the compiler nobody should rely on.

## The modules

| module | models | role |
|---|---|---|
| `EventLoop` | drains, batches, timers, kill | environment of every module |
| `TransactionLock` | table of locks and its statements | part of `Wallet`, `Duel` |
| `Ledger` | balances, log, readings of a caller; one definition per statement | part of `Wallet`, `Deposits`, `Transfer` |
| `Wallet` | `/send`, `/roll`, `/payallfines`, the treasury commands, `/withdraw`, cleanup of locks, crashes, failing statements; composes the three above | detailed |
| `IdealLedger` | atomic account book with a counter for withdrawals | abstract, implemented by `Wallet` |
| `Deposits` | monitor, startup, three commands, crashes; composes `EventLoop`, `Ledger` | detailed |
| `Transfer` | requests on the event loop and `transferBetweenUsers` without faults of single statements; composes `EventLoop`, `Ledger` | base of the modules below |
| `MenuSession` | both maps of menus; extends `Transfer` | base of `Duel`, `Giveaway` |
| `Duel` | duels from the menu to the last release; extends `MenuSession`, composes `TransactionLock` | detailed |
| `Withdrawal` | what `/withdraw` and the cleanup do to the locks and balances of duels; extends `Duel` | detailed |
| `Giveaway` | giveaways and their escrow; extends `MenuSession` | detailed |
| `SharedAccounts` | accounts and permissions; extends `Transfer` | detailed |
| `Community` | duels, withdrawals, giveaways, shared accounts, menus, crash: one process | composition |
| `Roles` | table `users`, checks of roles, commands on roles and lists | part of `Discipline` |
| `Discipline` | filter, violations, fines, jail, bail, admins; extends `Transfer`, composes `Roles` | detailed |
| `MCWallet`, `MCDeposits`, `MCCommunity`, `MCDiscipline` | values for TLC | |
| `WalletProofs` | of `Wallet`: types, non-negative balances, mutual exclusion | proofs |
| `WalletLedgerProofs` | of `Wallet`: no lock is left behind, balances equal the log; extends `WalletProofs` | proofs |
| `WalletRefinementProofs` | `Wallet` implements `IdealLedger`, and is solvent; extends `WalletLedgerProofs`, `SumProofs` | proofs |
| `DepositProofs` | of `Deposits`: all its invariants | proofs |
| `MenuProofs` | of `Community`: the two maps of menus | proofs |
| `CommunityProofs` | of `Community`: all its other invariants; extends `MenuProofs` | proofs |
| `DisciplineProofs` | of `Discipline`: all its invariants; extends `SumProofs` | proofs |
| `SumProofs` | sums over finite sets, as the community modules fold them | lemmas |

### Wallet

A request `p` is a program counter `pc[p]` and local variables `job[p]`; one
action is one SQL statement, or the code between two awaits when nothing can
come between. Names follow the calls:

* `Ask` is `financialLockCheck` and the checks of the handler, up to its reply.
  The whole word is compared with the names of commands, so `/send@<bot>`
  passes unchecked (constant `Mentions`). `BeginSend`, `BeginWithdraw` are what
  the handler does after the reply, `Refuse` when the reply fails or the wallet
  says no. A request that is refused before it has changed anything or awaited
  anything from outside is not a step.
* `TransferReadFrom` ... `TransferRecord` are the five parts of
  `transferBetweenUsers`, for sends, rolls, fines and treasury commands;
  `snap[p]` holds `fromBalance` and `toBalance`.
* `Unlocked` is a command that looks at a balance and transfers, without a lock:
  `BeginFine` (`/payallfines`), `FundTreasury` (`/fundtreasury`,
  `/contributetreasury`), `WithdrawTreasury` (`/withdrawtreasury`).
* `LockReceiver`, `LockReceiverFails`, `Unlock`: `acquireTransferLocks` (its
  first INSERT is in `BeginSend`) and `releaseTransferLocks`.
* `BeginRoll`, `RollCheckUser` ... `RollReplyFails`: `/roll`. Winning and losing
  are a free choice. The lock is released before the log row is relabelled and
  the result sent; if Telegram refuses the message the catch releases again.
* `StealLock` ... `UnlockWithdrawal`: `processWithdrawal`. `getActiveLock`
  returns the columns of SQLite (`locked_at`, `lock_type`, `tx_hash`) and its
  callers read `lockedAt`, `lockType`, `txHash`. In `lockWithdrawal` the age is
  therefore `NaN`, the refusal never taken and the old row deleted
  (`WithdrawalRefused` is FALSE); `releaseWithdrawalLock` returns before its
  DELETE (`Releasable` is FALSE), so a withdrawal lock goes only by timeout, by
  the next withdrawal, or by a deletion that does not look at the type.
* `Land` is the chain: the transaction is included and succeeds or fails, at
  any time before `sendTokens` answers. `SendReturns` requires that;
  `SendThrows` does not, and with `LateThrow` may also follow it.
* `PayGas`, `RecordGas`: the fee for gas, which is no whole number of
  micro-units: 0.075 for each unit of gas, 3 of the 40 `PartsOfUnit`. The new
  balance of the reserve is rounded (`GasFee`), the row of the log keeps the fee
  as it was computed (`FeeInParts`); `gas` counts these rows, so that
  `LoggedInParts` is what the log says in parts of a micro-unit. A fee of a
  micro-unit or less is not booked.
* `StatementFails` makes any statement throw; `CatchStep` and
  `ReachesOuterCatch` say which catch takes over.
* `SweepStart`, `SweepRow`, `SweepVerify`, `SweepVerified`: `cleanExpiredLocks`,
  with a network request per withdrawal that has a hash. The rows were read at
  the start; `sweep` remembers them.
* `Crash`: the process is killed and started again; tables and chain remain.

`locks[u].holder` is a history variable (which request's INSERT made the row);
it lets `LocksHeld` tell rows apart that look the same.

### Deposits

`rows` is `processed_deposits` ("open": processed = 0; "failed": processed = 0
with an error; "done": processed = 1), `deposited` and `claimed` count the log
rows the code searches (DEPOSIT with the hash; TRANSFER from UNCLAIMED with the
hash in its description), `credits` is a history variable: how often the amount
was added to a balance. All four are kept by `Key`, a deposit and a way to write
its hash: the monitor has the hash from the node (`AsNode`), `/processdeposit`
turns what is typed to upper case, which is the node's way, `/verifydeposit`
only trims it, and the node takes any case and `0x`
(`rpcTransactionVerification.ts:70`). `Startup` is `initialize` (height from the table, a page of 100, everything
looked at), `Check` is the timer (a page of 20, only blocks above
`lastCheckedHeight`). `MonitorSkip/Insert/Credit/Record/Mark` are
`processDeposit`; `BeginCredit`, `CommandCredit/Record/Mark` are
`/verifydeposit` and `/processdeposit`, which differ in the height they store;
`BeginClaim`, `Claim...` are `/claimdeposit`. The node answers `tx_search`
without `order_by` in ascending order, which is why `OldestPage` is a prefix.

### Transfer, MenuSession

`Transfer` is what duels, giveaways and fines share. `pc[r]` is the await
request `r` is at, `job[r]` the locals it still needs; `TransferStep` is one of
the five steps of `transferBetweenUsers`, after which the caller goes on at a
step it names, or at another when the balance that was read does not cover the
amount. `Wallet` has its own transfer, because there every statement may fail.
`MenuSession` keeps `activeMenus` (by chat and type) and `menusByMessageId` (by
message), as the code does; `createMenuSession`, `noActiveMenu`
(`getActiveMenuSession`), `mayInteract` (`validateMenuInteraction`),
`CancelMenu`, `PressExpired`, `cleanupExpiredSessions` are its functions and the
presses that reach them, `MenuExpires` is 30 seconds, `ForgetMenus` a restart.

### Duel, Giveaway, SharedAccounts, Community

* Duels. `DuelCommand`, `DuelMenuShown` and `ChooseConsequence` are `/duel` and
  its menu; `CreateChecks`, `InsertDuel`, `PostChallenge`, `ChallengePosted`
  are `createDuel` and the posting of the challenge. `CancelDuel`,
  `RejectDuel`, `CleanExpiredDuels` end a pending duel in one statement each.
  `AcceptDuel` ... `ReleaseDuelLocks` is `acceptAndExecuteDuel`, one action per
  await: the balances, `acquireLock` twice (each reads, awaits and inserts),
  the transfer, the row, the consequence with a call to Telegram, two releases.
  Locks of duels have no timeout (the query of the cleanup does not name them),
  so a crash leaves them until a withdrawal of the player deletes his.
  `duels[d].paid` is history.
* Withdrawals. `BeginWithdrawal` (behind `financialLockCheck`, which
  `/withdraw@<bot>` passes), `LockWithdrawal` (deletes whatever row the user
  has, then inserts), `DebitWithdrawal`, `WithdrawalSent`, `RefundWithdrawal`;
  `CleanExpiredLocks` is the cleanup. `seized` is history: whose rows
  `lockWithdrawal` deleted. The rest of a withdrawal is in `Wallet`.
* Giveaways. `GiveawayCommand` ... `Announce`: the command, its menu, the row,
  the transfer into the escrow account and the message with the claim button.
  `PressClaim`, `BeginClaimSlot`, the transfer, `RecordClaim`, `CountClaim`,
  `CompleteGiveaway`: a claim. `CancelGiveaway` ... `Cancelled`: the refund of
  the slots nobody claimed, in a drain shared with its batch. 
  `toExact6Decimals` throws on a quotient that is written with more than 6
  decimals, and no giveaway is made: the constant `Printable` is the set of
  those that pass, as doubles have it. They are exact, or below a micro-unit
  (7.5e-7 is written with one decimal), where `amountPerSlot` rounds. The refund
  is a product of doubles; `Overshoots` are the products that come out greater
  than their amount, and are refused when the escrow holds just that
  (`Overshot`).
* Shared accounts. `CreateShared`, `InsertShared`, `GrantCreator`,
  `BalanceFails`: the creation, which commits account and permission and then
  fails, because the balance of a negative id violates a foreign key.
  `GrantAccess`, `RevokeAccess`, `UpdateAccess`, `DeleteShared`: the checks of
  the granter, then for grants and updates the permission that is there, then
  the statement, each one await later. `SharedTransferFails`: `/sharedsend` and
  `/shareddeposit`, which always end at the lock of the shared account.
* `Community` puts them on one event loop, with one ledger and one crash. A
  behaviour is in one `mode` from the start (which features are used, which duels are pending, whether
  batches are handled together, how many handlers start, how many crashes): the
  state spaces add up instead of multiplying.

### Roles, Discipline

`users` is the table `users` (role, lists, `warning_count`, `muted_until`), `tg`
what Telegram enforces, `rules` the two tables of restrictions, `violations`
both tables of violations. Every duration is the time that is left; `TimePasses`
shortens all of them, also in the variables of handlers that wait.

* `Message`, `MessageDeleted`, `CreateViolation`, `HandleViolation`,
  `MuteAnswered` are the message filter: which rule is violated, the message
  deleted, fine and price read, the violation recorded and the penalty applied. `Threshold` is the 5
  the code falls back to; what `/addrestriction` stores is never read.
* `JailCommand`, `ApplyJail`, `CustomJail`, `Unjail`, `Warn`, `ClearViolations`,
  `SetFine`, `AddRestriction`, `AddAction`, `RemoveRules`: commands of admins.
* `PayBail` (with the payment somebody makes then), `VerifyBail`,
  `BailVerified`: bail. `PayAllFines` ... `FineRefused`: fines, one action per
  await, as they share the drain of a batch.
* `StartSweep`, `Release`, `Lifted`, `NextRelease`: `cleanExpiredJails` with its
  list. `CleanExpiredRestrictions`: the other sweep. `TelegramAnswers`: what a
  handler asks of Telegram happens when the answer comes, or was refused.
* `Crash` may come at any moment of a drain. `Cut` is what it leaves of
  statements that a step of the model has together: a violation without its
  count, rows that are cleared and still counted (`FirstOfTwo`; `torn` is
  history, whose they are), or some of the rows that `/payallfines` marks.
* `Roles` has the checks (`ownerOnly`, `adminOrHigher`, `isImmuneToModeration`)
  and the commands, each one step. `/setowner` replaces the row of `users` and
  takes the balance with it.

## Runs

Run from this directory: `tlc -workers 2 -config <name>.cfg <module>`. All runs
switch deadlock checking off: the bounds on requests, crashes and errors let
every instance stop, which the bot does not.

| run | module | checks | shows |
|---|---|---|---|
| `wallet_locks` | `MCWallet` | `TypeOK`, `NonNegative`, `LocksHeld`, `NoLeakedLock`, `UsersMatchAudit` | 3 requests (send, roll, withdraw), batches, late answers, 1 crash: no balance below zero, the reserve's included; lock rows of a running `/send` or `/roll` stay its own, none outlives it without a crash; users' balances equal the log |
| `wallet_solvent` | `MCWallet` | `Solvent` | 3 requests, 1 crash anywhere: the ledger never promises more than the chain holds |
| `wallet_atomic` | `MCWallet` | `BalancesMatchAudit`, `ImplementsIdealLedger` | 3 requests, no faults, no batches: `Wallet` refines `IdealLedger`; balances equal the log, the reserve's to half a micro-unit for each fee |
| `wallet_liveness` | `MCWallet` | `NonNegative`, `EveryRequestEnds`, `LocksReclaimed` | one user, 2 requests of any kind, batches, late answers, 1 crash, 1 failing statement, under `FairSpec` |
| `deposits_commands` | `MCDeposits` | `TypeOK`, `MonitorCreditsOnce`, `DoneMeansCredited`, `ClaimedOnce`, `Settled` | 3 deposits in 2 blocks, each hash written in 2 ways, monitor, 3 commands, 2 crashes, 2 failing statements |
| `deposits_found` | `MCDeposits` | `EveryDepositFound` | 3 deposits, 1 command, 2 crashes, under `FairSpec` |
| `community` | `MCCommunity` | `TypeOK`, `PaidOnce`, `NoDuelLockLeft`, `BalancesMatchAudit`, `MenusAgree`, `EscrowFollowsSlots`, `CreatorKeepsAdmin`, `AccessIsToThisAccount` | duels, withdrawals, giveaways, shared accounts and menus in nine modes |
| `discipline` | `MCDiscipline` | `TypeOK`, `WarningsMatchViolations`, `FinesSettled`, `ExpiredJailsEnd` | filter, jails, fines and roles in seven modes, under `FairSpec` |
| `wallet_lost_update` | `MCWallet` | `DoubleEntry` | violated, see below |
| `deposits_crash` | `MCDeposits` | `CreditedOnce` | violated |
| `duel_refused` | `MCCommunity` | `NoFundsAfterRefusal` | violated |
| `bail_quoted` | `MCDiscipline` | `QuotedBailReleases` | violated |

**Bounds of the money runs.** Two users, two concurrent handlers and the
cleaner: every pair of code paths meets, on the same user or on two, and a third
request (`MaxRequests = 3`) meets what the first two left. A transfer touches
two accounts and a lock row belongs to one user, so a third user adds no new
kind of conflict; the proofs cover every number of users and requests for the
properties they state. Amounts are 1 and 2 units, prizes twice the bet, the
treasury 4 (two prizes) or, with failing statements, 2 (one); a transaction uses 14
units of gas, which is 1.05 micro-units and rounded to 1, and the reserve can
pay it once (with failing statements: never), so that both branches of
`processAdjustment` occur. One crash, because the state a crash leaves is the state a second one
finds; two in the deposit model, where the startup itself may be interrupted.
`MaxErrors` bounds statements that throw. Three deposits in two blocks have a
block of one, a block of two, a deposit with a user and deposits without; two
spellings are the node's and another one.
`Users` and `Requests` are symmetric in the runs without temporal properties
or action properties; in `community` the requests, messages and names are.

**Bounds of the other runs.** Two handlers at a time, and `maxStarts` handlers
in all, which a mode fixes. `community`: three users, so that two duels share
one player in either role and a stranger presses buttons. Creation of duels: 4
starts (a menu, its button, and the same for a rival). Acceptance: 3 starts with
a crash, or 2 in a batch, on two pending duels; u2 and u3 can afford to lose
once, so that the checks of balances fail in the second. With withdrawals:
one pending duel, 4 starts and a crash, which are an accept, a withdrawal of
each player and another accept; two duels of the same players, 3 starts and a
crash. Giveaways: one, of 1, 3 or 15 micro-units in 3 or 4 slots: a quotient
that is refused, one that is exact, one that is rounded down to 0 and one
that is rounded up (3 in 4 slots is 7.5e-7), and one whose refund of 3
slots of 5 overshoots; 5 starts are the menu, the button and three
presses; 4 with a crash. Shared accounts: 4 starts of a batch (3 with a crash)
over two ids and two names: create, grant, delete, and create again with the id.
`discipline`: an owner, an admin (in two modes a second user without role, so
that two of them are in jail, or pay fines in one batch) and a user without role;
`Threshold` 2 of 2 violations within a window of 1; sentences of 1 and 2, and
one that is not valid; a bail above its minimum and one at it; 2 to 4 starts, none or
one crash. The clock itself needs no bound,
since every time left ends at 0.

**Preconditions of the runs.** `NoLeakedLock`, `UsersMatchAudit` and both
`BalancesMatchAudit` speak of executions without crash (and failing statement):
with one, the code leaves half a transfer behind. `LocksHeld` speaks of
executions without failing statement (the catch of `acquireTransferLocks`
deletes rows it may not own), crashes included. `Solvent` and
`ImplementsIdealLedger` are checked without batches (they lose updates of the
treasury), without late answers and without failing statements (the outer
catch refunds a landed withdrawal). `wallet_locks` leaves `/payallfines`
and the treasury commands out: they take no lock, so two in one batch lose an
update of the user.
`ClaimedOnce` is checked without batches, `EveryDepositFound` without
failing statements, with a node that answers at startup and pages that hold
every deposit. `PaidOnce`, `NoDuelLockLeft` and `EscrowFollowsSlots` speak of
handlers that are not batched, the last two of executions without crash, and
`PaidOnce` excepts duels whose two lock rows withdrawals deleted after a crash;
`CreatorKeepsAdmin` of executions without crash (one between account and
permission leaves an account without admin). `FinesSettled` says
with batches and crashes that no fine is marked paid without its payment in the
log; only without batches that the balance of the treasury has grown by it (an
update may be lost), and only without batches and crashes that it has grown by
no more.
`WarningsMatchViolations` leaves the configured owners out, whose counter
`/setowner` resets, and the users of whom a crash came between the row and the
counter. `MonitorCreditsOnce`, `DoneMeansCredited` and `Settled` speak of a
deposit under one spelling of its hash: with two, the code may credit it twice,
without any fault. `BalancesMatchAudit` of `Wallet` allows the reserve half a
micro-unit for each fee. Each of these limits is a behaviour of the code; the reason
is in the hazards of `PROJECT.json` and [below](#disagreements).

**Fairness.** `FairSpec` of `Wallet` has strong fairness for what a request
does by itself (`Proceed`), for the cleanup and for the passing of time. Strong,
because each is enabled only between the drains of others: the event loop
serves each completion and each timer in turn, and every drain ends. It
includes that `sendTokens` and Telegram answer or time out (CosmJS and Telegraf
do). Nothing is assumed of users, of the chain (`Land`) or of failures.
`FairSpec` of `Deposits` has strong fairness for the monitor (its interval
timer, and a node that answers again) and weak fairness for the steps of a
command. `FairSpec` of `Discipline` has weak fairness for what each handler does
by itself (an answer of Telegram or of the chain, or the error that replaces it)
and for the timer of the sweep; none for users, admins, the clock or crashes.
Weak is enough there: handlers that start are bounded, so the others cannot keep
the thread for ever.

**Abstract specification.** `IdealLedger` is what the wallet promises: atomic
movements, no overdraft, and for a withdrawal a counter that holds the money,
hands it over exactly when the chain has the transaction, and gives it back
once when not. The mapping (`Ideal` in `Wallet`): an account is what the log
says (`audit`), a counter holds from the pending row of the log to its
completion or its refund, and is delivered when the transaction has landed.
The log, not the balances, because a balance moves in several statements and
the log entry is the last one of each movement; that balances follow the log is
`BalancesMatchAudit`.

## Disagreements

Four runs state what a document or a message of the repository says, and TLC
finds that the code does otherwise. `PROJECT.json` has line and quotation.

* `wallet_lost_update`: two `/roll` of different users in one batch both read
  the treasury before either writes it; one movement of the treasury is lost.
* `deposits_crash`: `/verifydeposit` credits, the process dies before log entry
  and row are written, and the reconciliation at the next start, which finds the
  deposit in neither table, credits it again.
* `duel_refused`: a duel is accepted and, in the same batch, rejected; the
  players read "No funds were exchanged.", and the wager moves.
* `bail_quoted`: the bail is computed again when the payment is verified, and is
  lower by then; the exact amount `/paybail` named does not release.

Reading the code for the models showed more, which the models have in their
steps and no run states as a property:

* whether `SYSTEM_RESERVE` may be negative: `LEDGER.md:181-182` ("may
  temporarily go negative during reconciliation"), the comments at
  `src/services/ledgerService.ts:720` and `src/handlers/wallet.ts:1058`
  ("will go negative") say so, `LEDGER.md:177` ("No negative balances ever")
  does not, and neither does the code: `processAdjustment` calls
  `AmountPrecision.subtract`, which throws below zero, and a fee that the
  reserve cannot pay is not booked. `NonNegative` states what the code does,
  the reserve included;
* a fee for gas is rounded in the balance of the reserve and not in its row of
  the log, so a sum of the log differs from the balance by up to half a
  micro-unit for each withdrawal; the row of a giveaway's refund has the
  product of doubles as it was computed;
* tables are looked up by the hash as it was written, and one deposit may have
  several spellings that the node takes: a deposit that the monitor has credited
  and whose hash is then given to `/verifydeposit` in small letters has two rows
  and two credits;
* the lock of a withdrawal refuses nothing (`locked_at` against `lockedAt`), so
  two withdrawals of one user may run at once, and one may delete the lock of a
  duel. After a crash between the payment of a duel and its row, in which the
  duel is still pending, withdrawals of both players delete the two rows that
  keep it from being accepted and paid again; `sendTokens` may give up waiting, the user is refunded, and the
  transaction is on chain; the outer catch of `processWithdrawal` refunds after
  a landing when a later statement throws;
* the pages of `tx_search` (20, at startup 100) fill with the oldest deposits;
  in a chain with more, new ones are never fetched;
* the INSERT of a duel's lock throws when a row came in between, and the lock of
  the challenger stays; nobody checks on acceptance that a duel has expired;
* a giveaway whose total cannot be divided exactly ends in an exception behind
  the button, after its menu is gone; the refund of one that can may be refused,
  as `3 * 0.1` is more than the `0.3` its escrow holds; a crash after a claim's transfer lets the user claim again; one
  between a giveaway's row and its funding leaves an active one without money;
* `/createshared` always answers with an error, and the account exists; shared
  accounts can never hold or move money; a spend limit of 0 is stored as none;
  of two grants of one batch to one user the later overwrites the earlier,
  although the service refuses a grant to who has a permission;
* the thresholds and jail durations of `/addrestriction` are stored and never
  read; the immunity of a user is looked at before an I/O and not after it; a
  mute overwrites a longer jail; a sweep releases a user who was jailed again
  while he waited on its list;
* a crash between the row of a violation and the counter leaves them apart, and
  `/warn` and `/clearviolations` have the same two statements;
* `/payallfines` lifts the jail in the table and not in Telegram; two of them in
  a batch, of one user, pay twice, and of two users may lose one payment of the
  treasury's balance, with the fines of both marked as paid; `/payfines` and `/payfine` throw before they pay; a bail
  payment is not marked as used;
* `/setowner` deletes the owner's balance with his row; `/elevate` and
  `/makeadmin` may demote an owner, and an owner may revoke another; with
  `ADMIN_ID` set the bot does not start.

## Proofs

Checked with `tlapm <module>.tla` for each module whose name ends in `Proofs`.
Every invariant that a passing run checks is a theorem about the specification
itself, for every number of users, requests, amounts, crashes and errors that
the assumptions admit, and so is the refinement of `IdealLedger`. Nothing is
left without a proof.

### What is assumed

The assumptions are those of the modules that are extended; TLC evaluates them
in the runs.

| assumption | why the code justifies it |
|---|---|
| `GasAssumption` | `GasFee` is the fee rounded to a micro-unit (`precision.ts:7`) |
| `WalletAssumption`, `NamesAssumption` | amounts are positive (parsers refuse others), balances and fees natural numbers of micro-units; system accounts have reserved negative ids |
| `NoRequestAssumption`, `DuelAssumption`, `SharedAssumption` | "nobody" is no request; a wager is positive, consequences are those of the menu; who is elevated is a user |
| `DepositsAssumption` | heights in a chain do not fall; the chain has at least one deposit (otherwise there is nothing to say); the node's spelling is one of finitely many; one address for what has no user |
| `GiveawayAssumption` | ids of `unifiedWalletService.ts:14,19,24`: treasury -1, escrow accounts -1000 - id, users positive, so no account is two of them; a quotient of whole micro-units is printed with 6 decimals only if it is whole or below one |
| `CommunityAssumption` | duels an earlier run left are between two players, pending and unpaid; an escrow account that no giveaway has used is empty, as `giveaways.id` is AUTOINCREMENT (`database.ts:372`) |
| `DisciplineAssumption` | durations and prices are positive; the rules at the start are rows of the table; users are no system accounts |

Some theorems have a hypothesis of their own. Each names a behaviour the code
does not survive, and a run or a hazard shows that the theorem is false without:

| hypothesis | of | without it |
|---|---|---|
| `~Batching` | `BooksBalance`, `WalletImplementsIdealLedger`, `WalletIsSolvent`, `NoDepositIsClaimedTwice`, `BooksBalanceBetweenDrains` | `wallet_lost_update`; two `/claimdeposit` of one batch both see no claim |
| no `"fine"`, `"treasury"` in `Kinds` | `UserBooksBalance` (batches allowed) | they take no lock: two of one user in a batch lose an update |
| `NoBatchedGiveaways` | `BalancesAreLogged` (batches of duels allowed) | `/cancelgiveaway` joins the drain of its batch without a lock |
| `MaxErrors = 0` | `WalletImplementsIdealLedger`, `WalletIsSolvent` | the outer catch refunds what has landed |
| `MaxCrashes = 0` | `WalletImplementsIdealLedger` | half a transfer stays |
| `~LateThrow` | `WalletImplementsIdealLedger`, `WalletIsSolvent` | a refund for money that left |
| `Total(InitialBalance) <= InitialChain`, finite `Users`, `Requests` | `WalletIsSolvent` | the bot starts solvent; the sums are over finite sets |

Where a property itself is conditional (`NoFaults`, `crashes = 0`,
`~mode.batching`), the theorem is about the property as the run checks it.

### Wallet

* `TypeCorrect == Spec => []TypeOK`. `TypeOK` is inductive; one lemma per group
  of actions, `ContinueType` for the ways a handler goes on, `LockStatements`
  for the statements on the lock table.
* `NeverNegative == Spec => []NonNegative`. `NonNegative` alone is not inductive: `TransferWriteFrom`
  writes a value computed from an old reading. The invariant is `Funds ==
  TypeOK /\ NonNegative /\ ReadingsCover`: a reading was tested against the
  amount when it was taken, and neither the reading nor the amount changes until
  it is used. No lock, no atomicity and no absence of faults is needed: this is
  why lost updates never show as a negative balance.
* `LocksStayHeld == Spec => []LocksHeld`. Nothing in the lock table protects a
  row (withdrawals, `/roll` and the cleanup delete by user). The event loop
  does. The invariant `LocksInv` adds `Isolation` (a drain not started by a
  batch runs one handler; a batch runs rolls, fines and treasury commands only)
  and `Shape` (which steps belong to which request, and that only requests that
  wait for the outside are not runnable). A request that is inside its locks is
  runnable, hence the withdrawal or the cleanup is not; rolls that share its
  batch cannot insert a second row for its user (primary key), so their releases
  concern other users. The proof holds while no statement has failed.
* `NoLockIsLeaked == Spec => []NoLeakedLock`, from `LeakInv`: `LocksInv` and
  `Owned`, every row of a transfer or roll has a running request that is inside
  and guards that user. `OwnedStep` follows a row through each action that may
  take it over, release it or hand it on.
* `BooksBalance` (all accounts, without batches) and `UserBooksBalance` (users,
  with batches of rolls). The invariant is `Books(A)`: an account nobody touches
  equals its log; one that request `p` touches differs from it by `Pending(p, a)`,
  what `p` has written and not yet recorded, and what `p` has read of it is what
  the table says. It is inductive as soon as no account of `A` is touched by
  two (`Sole(A)`). The fees for gas are counted rounded in it, and `gas` of them
  are rounded by `FeeRounding` each, at most half a micro-unit (`GasAssumption`).
  That no account is touched by two has two reasons: one handler is runnable at a time
  (`Single`), or the accounts are users' and the requests that touch them hold
  their locks (`Locked`). `Apart`, no transfer has the same account on both
  sides, holds because the second INSERT of a `/send` to oneself throws.
* `WalletImplementsIdealLedger == Spec => ImplementsIdealLedger`. `Init` maps
  to `Ideal!Init`; of the steps, `TransferRecord` is `Move`, `RecordDebitUser`
  is `Hold`, `Land` is `Deliver`, `Settle` is `Close`, `RecordRefund` is
  `GiveBack`, `RecordGas` is `Fee`, and all others stutter. That an account can
  afford what the abstract step takes follows from `Books` and `NonNegative`
  (the balance was already debited and is not below zero); that no money is
  given back that left, from `Fates`: which outcome of the transaction a
  withdrawal can know at which step.
* `WalletIsSolvent == Spec => []Solvent`. `Solvent` is not inductive: between
  the two writes of a transfer, and from the debit of a withdrawal until its
  transaction lands, an amount is in no balance but may come back. `Covered`
  counts it as promised (`Flight(p)`), `Fresh` says that a reading is what the
  table still says. Each step moves one balance by `d` and the flight of its
  request by at most what `d` and the chain leave (`CoveredStep`, with
  `SumChanges` of `SumProofs`); a crash makes flights vanish, which can only
  help the bot, so any number of them is allowed.

### Deposits

`DepositInv == TypeOK /\ Schedule /\ History` is inductive with batches,
crashes and failing statements. `Schedule` relates the height the monitor has
reached, its queue and the chain; `History` relates rows, log and credits: a row
precedes the credit of the monitor, a command credits a deposit only before it
is done. From it `DepositsTypeCorrect`, `MonitorCreditsEachDepositOnce`,
`ProcessedMeansCredited`. `NoDepositIsClaimedTwice` adds `Claims` (what a claim
looked at is so until its log entry), `BooksBalanceBetweenDrains` adds
`CleanInv`: without faults, each balance is the number of keys whose row
names the account, except for the one a handler is working on. All of them are
about keys, a deposit under one spelling of its hash; that the monitor credits a
deposit once is about deposits, because it has one spelling only.

### Duels, giveaways, shared accounts, menus

* `MenusStayTogether == Spec => []MenusAgree` (`Spec` of `Community`). Two maps
  hold the same sessions, and every function of `menuSession.ts` is safe only if
  they agree before it: removing a session found in one map deletes whatever
  the other has at its keys. The invariant `MenuInv` adds that sessions have
  the form `createMenuSession` gives them, and that a handler that waits for
  its menu to be posted, or has been pressed, knows a chat or a message
  (`Knows`). One lemma for each function (`CleanupKeeps`, `CreateKeeps`,
  `ExpiryKeeps`, `ForgetKeeps`), then one for each group of actions; most are
  `Quiet`: they leave the maps alone and come to no step that needs them.
* `CommunityInv` collects what each feature's tables and handlers know
  (`DuelInv`, `GiveawayInv`, `SharedInv`); a step of one feature leaves the
  tables of the others alone. From it `CommunityTypeCorrect`,
  `NobodyInheritsAccess` (a grant looks its account up in the drain of its
  statement, so the id is still that account's) and `CreatorStaysAdmin`: nobody
  but the creator's own creation writes the creator's permission. A grant reads
  the present one an await before it inserts, so this rests on what it read
  (`GrantsToOthers`): with a row that is never taken from the creator, a grant
  that names him is refused.
* `LocksInv` is about the rows of duels. A handler of an accept is runnable from
  its press until it waits for Telegram (`Awake`), and until then it has the
  rows its step says (`Owned`): a withdrawal cannot run. Only behind that wait
  (`Late`) may a row be missing, and then a withdrawal has taken it (`seized`).
* `DuelsArePaidOnce`, `DuelsLeaveNoLock`, from `FightInv`: a paid duel that is
  still pending is being completed by the handler that runs, or a crash has left
  it `Frozen`: each of its players has a row that nobody owns (`Stuck`), or had
  one that a withdrawal deleted. Who accepts it again must insert both rows, so
  both were deleted (`BothSeized`), which is the case `PaidOnce` excepts: that a
  duel is not paid twice rests on locks that the crash leaked.
* `BalancesAreLogged`, from `BooksInv`: the balance of an account equals the log
  and what the one transfer that has it has written (`Halfway`), or the one
  withdrawal between its UPDATE and its row (`Unlogged`). No account is in two:
  players of a batch are locked until the transfer is logged, also when another
  handler of the batch fails at its locks, and a withdrawal is alone in its
  drain.
* `EscrowIsAccountedFor`, from `EscrowInv`: an escrow account, the count of a
  giveaway and its claims at each of the statements of a claim and a refund. It
  holds for any `Printable` and `Overshoots`: a refused refund moves nothing.

### Fines, jails, roles

* `DisciplineTypeCorrect`, `WarningsAreViolations`, from `DisciplineInv`: the
  tables, what each waiting handler will write, and the counter. That a time
  left is never longer than a sentence some command or rule can pass is a bound
  of the model: `/jail` has no maximum (`moderation.ts:124`), so `MinutesTyped`
  is any set.
* A crash is a step of its own in each of these proofs, with the three things
  `Cut` may leave: rows appear or go whose user is then in `torn` (`CutRows`),
  or some of the rows a handler was about to mark are marked (`CutPays`).
* `FinesAreSettled`, from `FinesInv` and `BackedInv`: what a `/payallfines`
  transfers is the worth of the rows it listed (`Payers`), and the log has
  at least the worth of the rows that are marked or about to be (`Received`),
  also when two handlers of a batch list the same rows; no more (`NoMore`),
  where one handler is alone from its list to its UPDATE (`Alone`). `Backed` is
  about the balance: where nothing is batched the treasury is ahead of the log
  by the payment whose entry comes next, and by those whose entry a crash cut.

`SumProofs` has what is needed of `SumFunctionOnSet`. The fold is a recursive
function over the subsets of its set; that it exists, is unique and does not
depend on the order is proved with the well-founded order of strict inclusion:
a smallest subset for which it failed would be one larger than one for which it
does not (`SubsetInduction`).

### What TLC says of the invariants

Each inductive invariant was checked by TLC on an instance before it was proved:
`LeakInv`, `AllBooksInv`, `Fates`, `Single` on that of `wallet_atomic`
(1.5 million states), `Funds`, `LocksInv` on that of `wallet_locks` (2.9
million), `LeakInv`, `UserBooksInv`, `Locked` on the same without crashes,
`SolventInv` on that of `wallet_solvent` (2.9 million), `DepositInv`, `Claims`,
`CleanInv` on that of `deposits_commands` (1.2 million), `CommunityInv`,
`MenuInv`, `LocksInv`, `FightInv`, `BooksInv`, `EscrowInv` on that of
`community`, `DisciplineInv`, `FinesInv`, `BackedInv` on that of `discipline`.

Only model-checked: the liveness properties `EveryRequestEnds`,
`LocksReclaimed`, `EveryDepositFound` and `ExpiredJailsEnd`; liveness under
fairness and ENABLED are out of the prover's reach.

## Abstractions

* Amounts are integers of the smallest unit, as `AmountPrecision` makes them:
  it multiplies by 10^6 and rounds, and the bounds of the bot keep the products
  far below 2^53, so there is no overflow to model. Where the code computes
  without it, the models say so: the fee for gas, the slots of a giveaway and
  their refund. Bails and fines are doubles too, and compared or summed here as
  integers: the comparison of a bail has a tolerance of 0.01 JUNO.
* A missing row of `user_balances` is a balance of 0 (`ensureUserBalance`
  inserts it before every use that matters; for shared accounts it cannot, and
  that is modelled).
* `processWithdrawal`, `processGiveaway` and `processAdjustment` of the ledger
  read and write in one step: their callers here run alone in their drain, and
  a crash between a read and its write equals one before the read.
* A landing after `sendTokens` has thrown, or after a crash, is the same as one
  just before it for everything that is stated, and is not a step of its own.
  The connection to the node and the missing wallet are cases of `SendThrows`.
* A second sweep of locks that starts while one waits for the chain is left
  out. Every transaction uses the same gas.
* The draws of `/roll` and of duels (HMAC of seeds) are free choices; the kind
  of a log row is not kept, so relabelling it changes nothing here.
* Every deposit is one unit. A block's deposits appear at once. Transactions
  that failed or pay somebody else are skipped by every reader and left out.
* `userFundsAddress` and the treasury's address are taken to be one, as
  installed.
* The 30 seconds of a menu and the five minutes of a duel are a flag that may
  change at any time. A message of Telegram stands for the pair of chat and
  message id.
* In `Duel`, `Giveaway`, `SharedAccounts` and `Discipline` no single statement
  fails, except where the schema makes it fail; crashes come between any two
  statements.
* `Withdrawal` has no hash, gas, status or failing statement, and nothing of the
  bot's funds on chain: `Wallet` has them. A command that is refused before it
  has written is no step, and the reply it waits for before is not one either:
  what it has read by then it reads again. The cleanup deletes in one step what
  it lists, without asking the chain about hashes.
* Duels have one wager. The mute or jail of a duel is recorded (`penalties`) and
  not followed to its end. There is one group, the configured one; the price of
  JUNO does not change, a fine is one number, and which text breaks which rule
  is a free choice. Telegram's rule that a restriction of less than 30 seconds
  is for ever is left out.

## Not modelled

`components` in `PROJECT.json` has every part with the reason. In short:

* `/adjustbalance`, with which an owner changes the reserve: one adjustment, as
  `Ledger` has it for the gas (see [above](#disagreements) for what its
  comments say of the reserve);
* what nothing starts or installs: `depositMonitor.ts`, `commandFilter.ts`,
  `lockCheckMiddleware`, `userManagementMiddleware`, `forceUnlock`, the older
  giveaway of `handlers/wallet.ts`, `processFine` and `processBail` of the ledger;
* diagnostics (`walletTest.ts`), lists, statistics, help, stickers;
* the seeds of `/roll`, prices, the chain client, parsing, formatting, logging,
  configuration, DDL.

## Plan

The money paths came first, because every other feature calls them.

1. `EventLoop`, `TransactionLock`, `Ledger`, `Wallet`, `Deposits`,
   `IdealLedger`, with `WalletProofs`: done.
2. `Transfer`, `MenuSession`, `Duel`, `Withdrawal`, `Giveaway`,
   `SharedAccounts`, `Community`: done.
3. `Roles`, `Discipline`: done.
4. Proofs of every invariant of the runs and of the refinement
   (`WalletLedgerProofs`, `WalletRefinementProofs`, `DepositProofs`,
   `MenuProofs`, `CommunityProofs`, `DisciplineProofs`, `SumProofs`): done.
5. Proofs to come: the abstract account book itself (`IdealLedger` keeps what
   its accounts and counters hold together), and through the refinement what
   that says of the log.
6. Models to come: `/adjustbalance`, failing statements of duels and giveaways,
   `/roll` beside duels (both insert and delete rows of `transaction_locks`).
