-------------------------------- MODULE Wallet --------------------------------
(***************************************************************************)
(* The requests that move money between accounts of the bot, or out of it: *)
(*   "send"      /send to a user      unifiedWalletService.transferToUser  *)
(*   "roll"      /roll                commands/gambling.ts                 *)
(*   "fine"      /payallfines         unifiedWalletService.payFine         *)
(*   "treasury"  /fundtreasury, /contributetreasury, /withdrawtreasury     *)
(*   "withdraw"  /withdraw            unifiedWalletService.processWithdrawal *)
(* and the periodic cleanup of locks.  They share the ledger (Ledger), the *)
(* lock table (TransactionLock) and the event loop (EventLoop).            *)
(*                                                                         *)
(* A request is a program counter and its local variables.  One action is  *)
(* one SQL statement, or the code between two awaits when nothing can come *)
(* between them.  A crash may fall between any two statements.             *)
(***************************************************************************)
EXTENDS TransactionLock, Integers, Functions

CONSTANTS
  Treasury, Reserve,       \* BOT_TREASURY and SYSTEM_RESERVE
  Cleaner,                 \* the timer that runs cleanExpiredLocks
  InitialBalance,          \* account -> balance at the start
  InitialChain,            \* what the bot's address holds on chain at the start
  Amounts,                 \* the amounts users ask for
  WinMultiplier,           \* WIN_MULTIPLIER of gambling.ts
  GasUsed,                 \* the gas a transaction uses
  GasFee,                  \* its price, rounded to a micro-unit
  Kinds,                   \* the requests of this instance
  Mentions,                \* commands are also spelled /withdraw@banBabyBot
  Batching,                \* FALSE: no batch holds two requests that await no I/O
  LateThrow,               \* sendTokens may throw after the tx is on chain
  MaxRequests,             \* bound on the requests started
  MaxCrashes,              \* bound on the crashes
  MaxErrors                \* bound on the SQL statements that throw

Accounts == Users \cup {Treasury, Reserve}

(* The price of gas, 0.075 ujuno, is 3 parts of which a micro-unit has 40.  *)
PartsOfUnit == 40
FeeInParts == 3 * GasUsed

(* What rounding to a micro-unit moves a fee by.                            *)
FeeRounding == PartsOfUnit * GasFee - FeeInParts

ASSUME WalletAssumption ==
  /\ InitialBalance \in [Accounts -> Nat]
  /\ Amounts \subseteq Nat \ {0}
  /\ WinMultiplier \in Nat
  /\ {GasUsed, GasFee} \subseteq Nat
  /\ InitialChain \in Nat
  /\ Kinds \subseteq {"send", "roll", "fine", "treasury", "withdraw"}
  /\ Mentions \in BOOLEAN
  /\ Batching \in BOOLEAN
  /\ LateThrow \in BOOLEAN
  /\ {MaxRequests, MaxCrashes, MaxErrors} \subseteq Nat

(* Math.round of a double: the nearest micro-unit, either one of a half.    *)
ASSUME GasAssumption ==
  /\ -PartsOfUnit <= 2 * FeeRounding
  /\ 2 * FeeRounding <= PartsOfUnit

ASSUME NamesAssumption ==
  /\ Treasury # Reserve
  /\ {Treasury, Reserve} \cap Users = {}
  /\ Cleaner \notin Requests

VARIABLES
  ready, batch,            \* the event loop
  bal, audit, snap,        \* the ledger
  pc,                      \* where each request is
  job,                     \* the local variables of each request
  chain,                   \* the bot's funds on chain, gas left aside
  gas,                     \* the rows of the log that are fees for gas
  sweep,                   \* the local variables of cleanExpiredLocks
  used                     \* what has been used up of the bounds

INSTANCE EventLoop WITH Handlers <- Requests \cup {Cleaner}
INSTANCE Ledger WITH Callers <- Requests

loopVars == << ready, batch >>

ledgerVars == << bal, audit, snap >>

vars == << ready, batch, locks, bal, audit, snap, pc, job, chain, gas, sweep,
           used >>

------------------------------------------------------------------------------
(* Local state of the handlers.                                             *)

AskSteps == {"idle", "asked"}
SendSteps == {"lockReceiver", "unlock", "unlockRetry"}
RollSteps == {"checkUser", "checkTreasury", "release", "relabel", "reply",
              "releaseEnd", "releaseRetry"}
TransferSteps == {"readFrom", "readTo", "writeFrom", "writeTo", "record"}
WithdrawSteps == {"steal", "lock", "debit", "recordDebit", "sending",
                  "storeHash", "settle", "gas", "recordGas", "refund",
                  "recordRefund", "unlockWithdrawal"}
Steps == AskSteps \cup SendSteps \cup RollSteps \cup TransferSteps
                  \cup WithdrawSteps

(* user: who asks.  from, to, amt: the transfer.  fate: what became of the  *)
(* transaction on chain.  caught: the outer catch of processWithdrawal runs. *)
Jobs == [kind: {"send", "roll", "fine", "treasury", "withdraw", "none"},
         user: Accounts, from: Accounts, to: Accounts, amt: Nat,
         fate: {"none", "landed", "rejected"}, caught: BOOLEAN]

NewJob(kind, u, to, amt) ==
  [kind |-> kind, user |-> u, from |-> u, to |-> to, amt |-> amt,
   fate |-> "none", caught |-> FALSE]

IdleJob == NewJob("none", Reserve, Reserve, 0)

Running(p) == pc[p] # "idle"

NoSweep == [todo |-> {}, hashed |-> {}, verifying |-> {}]

Init ==
  /\ LoopInit
  /\ LockInit
  /\ bal = InitialBalance
  /\ audit = InitialBalance
  /\ snap = [p \in Requests |-> NoSnap]
  /\ pc = [p \in Requests |-> "idle"]
  /\ job = [p \in Requests |-> IdleJob]
  /\ chain = InitialChain
  /\ gas = 0
  /\ sweep = NoSweep
  /\ used = [requests |-> 0, crashes |-> 0, errors |-> 0]

(* p stays in its drain; p returns; p does one or the other.                *)
Goto(p, step) ==
  /\ Tick(p)
  /\ pc' = [pc EXCEPT ![p] = step]

Finish(p) ==
  /\ Suspend(p)
  /\ pc' = [pc EXCEPT ![p] = "idle"]
  /\ job' = [job EXCEPT ![p] = IdleJob]

Continue(p, step) ==
  \/ step # "idle" /\ Goto(p, step) /\ UNCHANGED job
  \/ step = "idle" /\ Finish(p)

At(p, step) == pc[p] = step /\ p \in ready

Environment == << chain, gas, sweep, used >>

------------------------------------------------------------------------------
(* The beginning of a request.  A command that is refused before it has     *)
(* changed anything is not a step.                                          *)

Start(p, j, step) ==
  /\ ~Running(p)
  /\ j.kind \in Kinds
  /\ used.requests < MaxRequests
  /\ used' = [used EXCEPT !.requests = @ + 1]
  /\ job' = [job EXCEPT ![p] = j]
  /\ pc' = [pc EXCEPT ![p] = step]
  /\ UNCHANGED << ledgerVars, chain, gas, sweep >>

(* /send and /withdraw: financialLockCheck looks for a lock, but compares   *)
(* the whole word with the names of the commands and so lets /send@banBabyBot *)
(* pass.  The handler looks at the balance and awaits its reply to the user. *)
Ask(p, kind, u, to, amt) ==
  /\ Pass
  /\ Mentions \/ ~HasLock(u)
  /\ Sufficient(bal[u], amt)
  /\ Start(p, NewJob(kind, u, to, amt), "asked")
  /\ UNCHANGED locks

(* Nothing is awaited from outside before /roll takes its lock.             *)
BeginRoll(p, u, amt) ==
  /\ Arrive(p)
  /\ Batching \/ ready = {}
  /\ InsertLock(u, "gambling_roll", p)
  /\ Start(p, NewJob("roll", u, Treasury, amt), "checkUser")

(* A balance is looked at, and the transfer begins: no lock is taken.       *)
Unlocked(p, j) ==
  /\ Arrive(p)
  /\ Batching \/ ready = {}
  /\ Sufficient(bal[j.from], j.amt)
  /\ Start(p, j, "readFrom")
  /\ UNCHANGED locks

BeginFine(p, u, amt) == Unlocked(p, NewJob("fine", u, Treasury, amt))

(* /fundtreasury of anybody and /contributetreasury of an admin; and        *)
(* /withdrawtreasury of an owner.                                           *)
FundTreasury(p, u, amt) == Unlocked(p, NewJob("treasury", u, Treasury, amt))

WithdrawTreasury(p, u, amt) ==
  Unlocked(p, [NewJob("treasury", u, u, amt) EXCEPT !.from = Treasury])

Begin(p) ==
  \E u \in Users, amt \in Amounts :
    \/ \E v \in Users : Ask(p, "send", u, v, amt)
    \/ Ask(p, "withdraw", u, u, amt)
    \/ BeginRoll(p, u, amt)
    \/ BeginFine(p, u, amt)
    \/ FundTreasury(p, u, amt) \/ WithdrawTreasury(p, u, amt)

(* The reply is out: the wallet is called, and looks at everything again.   *)
BeginSend(p) ==
  /\ pc[p] = "asked" /\ job[p].kind = "send"
  /\ Wake(p)
  /\ ~HasLock(job[p].to)
  /\ InsertLock(job[p].from, "transfer", p)
  /\ pc' = [pc EXCEPT ![p] = "lockReceiver"]
  /\ UNCHANGED << job, ledgerVars, Environment >>

BeginWithdraw(p) ==
  /\ pc[p] = "asked" /\ job[p].kind = "withdraw"
  /\ Wake(p)
  /\ Sufficient(bal[job[p].user], job[p].amt)
  /\ HasLock(job[p].user) => ~WithdrawalRefused(job[p].user)
  /\ pc' = [pc EXCEPT ![p] = IF HasLock(job[p].user) THEN "steal" ELSE "lock"]
  /\ UNCHANGED << job, locks, ledgerVars, Environment >>

(* Telegram refuses the reply, or the wallet the request.                   *)
Refuse(p) ==
  /\ pc[p] = "asked"
  /\ ready = {}
  /\ pc' = [pc EXCEPT ![p] = "idle"]
  /\ job' = [job EXCEPT ![p] = IdleJob]
  /\ UNCHANGED << loopVars, locks, ledgerVars, Environment >>

Answered(p) == BeginSend(p) \/ BeginWithdraw(p) \/ Refuse(p)

------------------------------------------------------------------------------
(* transferBetweenUsers, for every kind of request that calls it.           *)

AfterTransfer(p) == CASE job[p].kind = "send" -> "unlock"
                      [] job[p].kind = "roll" -> "release"
                      [] OTHER -> "idle"

AfterFailedTransfer(p) == CASE job[p].kind = "send" -> "unlock"
                            [] job[p].kind = "roll" -> "releaseEnd"
                            [] OTHER -> "idle"

(* Mutant: the balance that was read is not compared with the amount again. *)
TransferReadFromTrusts(p) ==
  /\ At(p, "readFrom")
  /\ ReadFrom(p, job[p].from)
  /\ Continue(p, "readTo")
  /\ UNCHANGED << locks, Environment >>

TransferReadFrom(p) ==
  /\ At(p, "readFrom")
  /\ \/ /\ Sufficient(bal[job[p].from], job[p].amt)
        /\ ReadFrom(p, job[p].from)
        /\ Continue(p, "readTo")
     \/ /\ ~Sufficient(bal[job[p].from], job[p].amt)
        /\ Forget(p)
        /\ Continue(p, AfterFailedTransfer(p))
  /\ UNCHANGED << locks, Environment >>

TransferReadTo(p) ==
  /\ At(p, "readTo")
  /\ ReadTo(p, job[p].to)
  /\ Continue(p, "writeFrom")
  /\ UNCHANGED << locks, Environment >>

TransferWriteFrom(p) ==
  /\ At(p, "writeFrom")
  /\ WriteFrom(p, job[p].from, job[p].amt)
  /\ Continue(p, "writeTo")
  /\ UNCHANGED << locks, Environment >>

TransferWriteTo(p) ==
  /\ At(p, "writeTo")
  /\ WriteTo(p, job[p].to, job[p].amt)
  /\ Continue(p, "record")
  /\ UNCHANGED << locks, Environment >>

TransferRecord(p) ==
  /\ At(p, "record")
  /\ RecordTransfer(p, job[p].from, job[p].to, job[p].amt)
  /\ Continue(p, AfterTransfer(p))
  /\ UNCHANGED << locks, Environment >>

Transfer(p) ==
  \/ TransferReadFrom(p)
  \/ TransferReadTo(p)
  \/ TransferWriteFrom(p)
  \/ TransferWriteTo(p)
  \/ TransferRecord(p)

------------------------------------------------------------------------------
(* transferToUser: a lock on each user around the transfer.                 *)

LockReceiver(p) ==
  /\ At(p, "lockReceiver")
  /\ InsertLock(job[p].to, "transfer", p)
  /\ Continue(p, "readFrom")
  /\ UNCHANGED << ledgerVars, Environment >>

(* The second INSERT throws (a user who sends to his own name), or any      *)
(* other error: the catch deletes the locks of both users.                  *)
LockReceiverFails(p) ==
  /\ At(p, "lockReceiver")
  /\ HasLock(job[p].to)
  /\ DeleteLocks({job[p].from, job[p].to})
  /\ Finish(p)
  /\ UNCHANGED << ledgerVars, Environment >>

(* Mutant: only the sender is released.                                     *)
UnlockSender(p) ==
  /\ At(p, "unlock") \/ At(p, "unlockRetry")
  /\ ReleaseTransferLocks({job[p].from})
  /\ Finish(p)
  /\ UNCHANGED << ledgerVars, Environment >>

Unlock(p) ==
  /\ At(p, "unlock") \/ At(p, "unlockRetry")
  /\ ReleaseTransferLocks({job[p].from, job[p].to})
  /\ Finish(p)
  /\ UNCHANGED << ledgerVars, Environment >>

Send(p) == LockReceiver(p) \/ LockReceiverFails(p) \/ Unlock(p)

------------------------------------------------------------------------------
(* /roll, once it has its lock.                                             *)

Prize(p) == job[p].amt * WinMultiplier

RollCheckUser(p) ==
  /\ At(p, "checkUser")
  /\ Continue(p, IF Sufficient(bal[job[p].user], job[p].amt)
                 THEN "checkTreasury" ELSE "releaseEnd")
  /\ UNCHANGED << locks, ledgerVars, Environment >>

RollRefused(p) ==
  /\ At(p, "checkTreasury")
  /\ ~Sufficient(bal[Treasury], Prize(p))
  /\ Continue(p, "releaseEnd")
  /\ UNCHANGED << locks, ledgerVars, Environment >>

RollWon(p) ==
  /\ At(p, "checkTreasury")
  /\ Sufficient(bal[Treasury], Prize(p))
  /\ job' = [job EXCEPT ![p] = [@ EXCEPT !.from = Treasury, !.to = job[p].user,
                                         !.amt = Prize(p)]]
  /\ Goto(p, "readFrom")
  /\ UNCHANGED << locks, ledgerVars, Environment >>

RollLost(p) ==
  /\ At(p, "checkTreasury")
  /\ Sufficient(bal[Treasury], Prize(p))
  /\ Continue(p, "readFrom")
  /\ UNCHANGED << locks, ledgerVars, Environment >>

(* releaseLock deletes the row of the user, whoever made it.                *)
RollRelease(p) ==
  /\ \/ At(p, "release") /\ Continue(p, "relabel")
     \/ At(p, "releaseEnd") /\ Finish(p)
     \/ At(p, "releaseRetry") /\ Finish(p)
  /\ DeleteLocks({job[p].user})
  /\ UNCHANGED << ledgerVars, Environment >>

(* The row becomes a GAMBLING row, and the result goes to Telegram.         *)
RollRelabel(p) ==
  /\ At(p, "relabel")
  /\ Suspend(p)
  /\ pc' = [pc EXCEPT ![p] = "reply"]
  /\ UNCHANGED << job, locks, ledgerVars, Environment >>

RollReplied(p) ==
  /\ pc[p] = "reply"
  /\ ready = {}
  /\ pc' = [pc EXCEPT ![p] = "idle"]
  /\ job' = [job EXCEPT ![p] = IdleJob]
  /\ UNCHANGED << loopVars, locks, ledgerVars, Environment >>

(* Telegram refuses the message: the catch releases the lock once more.     *)
RollReplyFails(p) ==
  /\ pc[p] = "reply"
  /\ Wake(p)
  /\ pc' = [pc EXCEPT ![p] = "releaseRetry"]
  /\ UNCHANGED << job, locks, ledgerVars, Environment >>

Roll(p) ==
  \/ RollCheckUser(p)
  \/ RollRefused(p)
  \/ RollWon(p)
  \/ RollLost(p)
  \/ RollRelease(p)
  \/ RollRelabel(p)
  \/ RollReplied(p)
  \/ RollReplyFails(p)

------------------------------------------------------------------------------
(* processWithdrawal.                                                       *)

(* Mutant: the withdrawal waits until the row has gone.                     *)
StealLockWaits(p) ==
  /\ At(p, "steal")
  /\ ~HasLock(job[p].user)
  /\ Continue(p, "lock")
  /\ UNCHANGED << locks, ledgerVars, Environment >>

(* An existing row is deleted: WithdrawalRefused never holds.               *)
StealLock(p) ==
  /\ At(p, "steal")
  /\ DeleteLocks({job[p].user})
  /\ Continue(p, "lock")
  /\ UNCHANGED << ledgerVars, Environment >>

LockWithdrawal(p) ==
  /\ At(p, "lock")
  /\ InsertLock(job[p].user, "withdrawal", p)
  /\ Continue(p, "debit")
  /\ UNCHANGED << ledgerVars, Environment >>

DebitUser(p) ==
  /\ At(p, "debit")
  /\ Sufficient(bal[job[p].user], job[p].amt)
  /\ Debit(job[p].user, job[p].amt)
  /\ Continue(p, "recordDebit")
  /\ UNCHANGED << locks, Environment >>

(* The pending row; then the wallet connects and sends.                     *)
RecordDebitUser(p) ==
  /\ At(p, "recordDebit")
  /\ RecordDebit(job[p].user, job[p].amt)
  /\ Suspend(p)
  /\ pc' = [pc EXCEPT ![p] = "sending"]
  /\ UNCHANGED << job, locks, Environment >>

(* The chain includes the transaction, which succeeds or fails.             *)
Land(p) ==
  /\ pc[p] = "sending"
  /\ job[p].fate = "none"
  /\ \/ /\ job' = [job EXCEPT ![p] = [@ EXCEPT !.fate = "landed"]]
        /\ chain' = chain - job[p].amt
     \/ /\ job' = [job EXCEPT ![p] = [@ EXCEPT !.fate = "rejected"]]
        /\ UNCHANGED chain
  /\ UNCHANGED << pc, loopVars, locks, ledgerVars, gas, sweep, used >>

SendReturns(p) ==
  /\ pc[p] = "sending"
  /\ job[p].fate # "none"
  /\ Wake(p)
  /\ pc' = [pc EXCEPT ![p] = "storeHash"]
  /\ UNCHANGED << job, locks, ledgerVars, Environment >>

(* No connection, a rejected broadcast, or no answer in time.               *)
SendThrows(p) ==
  /\ pc[p] = "sending"
  /\ job[p].fate = "none" \/ LateThrow
  /\ Wake(p)
  /\ pc' = [pc EXCEPT ![p] = "refund"]
  /\ UNCHANGED << job, locks, ledgerVars, Environment >>

(* Mutant: the code of the transaction is not looked at.                    *)
StoreHashIgnoresCode(p) ==
  /\ At(p, "storeHash")
  /\ StoreTxHash(job[p].user)
  /\ Continue(p, "settle")
  /\ UNCHANGED << ledgerVars, Environment >>

(* Mutant: the test of the code is inverted.                                *)
StoreHashInverted(p) ==
  /\ At(p, "storeHash")
  /\ StoreTxHash(job[p].user)
  /\ Continue(p, IF job[p].fate = "landed" THEN "refund" ELSE "settle")
  /\ UNCHANGED << ledgerVars, Environment >>

StoreHash(p) ==
  /\ At(p, "storeHash")
  /\ StoreTxHash(job[p].user)
  /\ Continue(p, IF job[p].fate = "rejected" THEN "refund" ELSE "settle")
  /\ UNCHANGED << ledgerVars, Environment >>

(* updateTransactionStatus: the row is completed.                           *)
Settle(p) ==
  /\ At(p, "settle")
  /\ Continue(p, "gas")
  /\ UNCHANGED << locks, ledgerVars, Environment >>

(* Mutant: the reserve is debited and no row is written.                    *)
PayGasUnrecorded(p) ==
  /\ At(p, "gas")
  /\ IF Sufficient(bal[Reserve], GasFee) THEN Debit(Reserve, GasFee)
                                         ELSE Forget(p)
  /\ Continue(p, "unlockWithdrawal")
  /\ UNCHANGED << locks, Environment >>

(* A fee of at most a micro-unit is not booked.  processAdjustment rounds   *)
(* the new balance; subtract throws on a deficit, and the catch inside      *)
(* swallows it.                                                             *)
PayGas(p) ==
  /\ At(p, "gas")
  /\ \/ /\ FeeInParts > PartsOfUnit
        /\ Sufficient(bal[Reserve], GasFee)
        /\ Debit(Reserve, GasFee)
        /\ Continue(p, "recordGas")
     \/ /\ FeeInParts <= PartsOfUnit \/ ~Sufficient(bal[Reserve], GasFee)
        /\ Forget(p)
        /\ Continue(p, "unlockWithdrawal")
  /\ UNCHANGED << locks, Environment >>

(* The row holds the fee as it was computed, FeeInParts.  audit counts it   *)
(* as GasFee and gas counts the row: LoggedInParts puts them together.      *)
RecordGas(p) ==
  /\ At(p, "recordGas")
  /\ RecordDebit(Reserve, GasFee)
  /\ gas' = gas + 1
  /\ Continue(p, "unlockWithdrawal")
  /\ UNCHANGED << locks, chain, sweep, used >>

Refund(p) ==
  /\ At(p, "refund")
  /\ Credit(job[p].user, job[p].amt)
  /\ Continue(p, "recordRefund")
  /\ UNCHANGED << locks, Environment >>

RecordRefund(p) ==
  /\ At(p, "recordRefund")
  /\ RecordCredit(job[p].user, job[p].amt)
  /\ Continue(p, "unlockWithdrawal")
  /\ UNCHANGED << locks, Environment >>

UnlockWithdrawal(p) ==
  /\ At(p, "unlockWithdrawal")
  /\ ReleaseWithdrawalLock(job[p].user)
  /\ Finish(p)
  /\ UNCHANGED << ledgerVars, Environment >>

SendTokens(p) == SendReturns(p) \/ SendThrows(p)

Withdraw(p) ==
  \/ StealLock(p)
  \/ LockWithdrawal(p)
  \/ DebitUser(p)
  \/ RecordDebitUser(p)
  \/ StoreHash(p)
  \/ Settle(p)
  \/ PayGas(p)
  \/ RecordGas(p)
  \/ Refund(p)
  \/ RecordRefund(p)
  \/ UnlockWithdrawal(p)

------------------------------------------------------------------------------
(* An SQL statement throws (SQLITE_BUSY, a full disk): it has no effect and *)
(* control passes to the enclosing catch.                                   *)

CatchStep(p) ==
  CASE pc[p] \in TransferSteps -> AfterFailedTransfer(p)
    [] pc[p] \in {"checkUser", "checkTreasury", "release", "relabel",
                  "releaseEnd"} -> "releaseRetry"
    [] pc[p] = "unlock" -> "unlockRetry"
    [] pc[p] \in {"debit", "recordDebit", "gas", "recordGas", "refund",
                  "recordRefund"} -> "unlockWithdrawal"
    [] OTHER -> "idle"

(* The steps of processWithdrawal whose error reaches its outer catch.      *)
ReachesOuterCatch(p) ==
  /\ pc[p] \in {"storeHash", "settle", "unlockWithdrawal"}
  /\ ~job[p].caught

StatementFails(p) ==
  /\ p \in ready
  /\ used.errors < MaxErrors
  /\ used' = [used EXCEPT !.errors = @ + 1]
  /\ Forget(p)
  /\ \/ /\ ReachesOuterCatch(p)
        /\ job' = [job EXCEPT ![p] = [@ EXCEPT !.caught = TRUE]]
        /\ Goto(p, "refund")
     \/ /\ ~ReachesOuterCatch(p)
        /\ Continue(p, CatchStep(p))
  /\ IF pc[p] = "lockReceiver" THEN DeleteLocks({job[p].from, job[p].to})
                               ELSE UNCHANGED locks
  /\ UNCHANGED << chain, gas, sweep >>

------------------------------------------------------------------------------
(* cleanExpiredLocks: every minute, and once when the bot starts.           *)

SweepStart ==
  /\ sweep = NoSweep
  /\ ExpiredLocks # {}
  /\ Wake(Cleaner)
  /\ sweep' = [NoSweep EXCEPT !.todo = ExpiredLocks,
                              !.hashed = {u \in ExpiredLocks : locks[u].hash}]
  /\ UNCHANGED << locks, ledgerVars, pc, job, chain, gas, used >>

(* The row of u is deleted, then the next row is looked at.                 *)
SweepDelete(u) ==
  /\ DeleteLocks({u})
  /\ sweep' = [sweep EXCEPT !.todo = @ \ {u}, !.hashed = @ \ {u},
                            !.verifying = {}]
  /\ UNCHANGED << ledgerVars, pc, job, chain, gas, used >>

SweepRow(u) ==
  /\ Cleaner \in ready
  /\ u \in (sweep.todo \ sweep.hashed) \cup sweep.verifying
  /\ sweep.verifying \subseteq {u}
  /\ SweepDelete(u)
  /\ IF sweep.todo = {u} THEN Suspend(Cleaner) ELSE Tick(Cleaner)

(* A withdrawal that has a hash is looked up on chain first.                *)
SweepVerify(u) ==
  /\ Cleaner \in ready
  /\ sweep.verifying = {}
  /\ u \in sweep.hashed
  /\ Suspend(Cleaner)
  /\ sweep' = [sweep EXCEPT !.verifying = {u}]
  /\ UNCHANGED << locks, ledgerVars, pc, job, chain, gas, used >>

SweepVerified ==
  /\ sweep.verifying # {}
  /\ Wake(Cleaner)
  /\ UNCHANGED << sweep, locks, ledgerVars, pc, job, chain, gas, used >>

Sweep ==
  \/ SweepStart
  \/ \E u \in Users : SweepRow(u) \/ SweepVerify(u)
  \/ SweepVerified

------------------------------------------------------------------------------
(* The timeout of a lock elapses.                                           *)
Timeout(u) ==
  /\ ready = {}
  /\ Elapse(u)
  /\ UNCHANGED << loopVars, ledgerVars, pc, job, Environment >>

(* The process dies and is started again: the database and the chain stay.  *)
Crash ==
  /\ used.crashes < MaxCrashes
  /\ used' = [used EXCEPT !.crashes = @ + 1]
  /\ Halt
  /\ pc' = [p \in Requests |-> "idle"]
  /\ job' = [p \in Requests |-> IdleJob]
  /\ snap' = [p \in Requests |-> NoSnap]
  /\ sweep' = NoSweep
  /\ UNCHANGED << bal, audit, locks, chain, gas >>

(* What a request does by itself once it has begun.                         *)
Proceed(p) ==
  \/ Answered(p)
  \/ Transfer(p)
  \/ Send(p)
  \/ Roll(p)
  \/ Withdraw(p)
  \/ SendTokens(p)

Next ==
  \/ \E p \in Requests : \/ Begin(p)
                         \/ Proceed(p)
                         \/ Land(p)
                         \/ StatementFails(p)
  \/ Sweep
  \/ \E u \in Users : Timeout(u)
  \/ Crash

Spec == Init /\ [][Next]_vars

(* Every drain ends, the event loop serves every completion and timer in    *)
(* turn, sendTokens and Telegram answer or time out, and time passes.       *)
Fairness ==
  /\ \A p \in Requests : SF_vars(Proceed(p))
  /\ SF_vars(Sweep)
  /\ \A u \in Users : SF_vars(Timeout(u))

FairSpec == Spec /\ Fairness

------------------------------------------------------------------------------
(* Invariants that hold whatever fails.                                     *)

(* Every variable keeps its type: the one type invariant of the module.     *)
TypeOK ==
  /\ LoopTypeOK
  /\ LockTypeOK
  /\ LedgerTypeOK
  /\ pc \in [Requests -> Steps]
  /\ job \in [Requests -> Jobs]
  /\ chain \in Int
  /\ gas \in Nat
  /\ sweep \in [todo: SUBSET Users, hashed: SUBSET Users,
                verifying: SUBSET Users]
  /\ used \in [requests: Nat, crashes: Nat, errors: Nat]

(* "No negative balances ever" (LEDGER.md), the reserve's included, although *)
(* the balance that is written was computed from one read several awaits    *)
(* earlier, and other requests, crashes and failing statements may come in  *)
(* between.                                                                 *)
NonNegative == \A a \in Accounts : bal[a] >= 0

------------------------------------------------------------------------------
(* Mutual exclusion.                                                        *)

NoFaults == used.crashes = 0 /\ used.errors = 0

(* From its first lock to its release.                                      *)
SendInside(p) == job[p].kind = "send" /\ pc[p] \notin AskSteps
RollInside(p) == /\ job[p].kind = "roll"
                 /\ pc[p] \notin {"idle", "relabel", "reply", "releaseRetry"}
Guarded(p) == {job[p].from} \cup
              (IF pc[p] = "lockReceiver" THEN {} ELSE {job[p].to})

(* While a /send or a /roll is between its lock and its release, the lock   *)
(* rows of the users it concerns are its own: nobody else (withdrawals take *)
(* rows over, /roll and the cleanup delete them whoever made them) has      *)
(* removed or replaced them, crash or not.                                  *)
LocksHeld ==
  used.errors = 0 =>
    \A p \in Requests : SendInside(p) \/ RollInside(p) =>
      \A u \in Guarded(p) \cap Users : locks[u].holder = p

(* Without a crash or a failing statement, no transfer or roll lock         *)
(* outlives its request: a user is never locked out of the bot by it.       *)
NoLeakedLock ==
  NoFaults =>
    \A u \in Users : locks[u].type \in {"transfer", "gambling_roll"} =>
      LET p == locks[u].holder
      IN  (SendInside(p) \/ RollInside(p)) /\ u \in Guarded(p)

------------------------------------------------------------------------------
(* The balances and the log of transactions.                                *)

(* What the rows of the log add up to for account a, in parts of a          *)
(* micro-unit.                                                              *)
LoggedInParts(a) ==
  PartsOfUnit * audit[a] + (IF a = Reserve THEN gas * FeeRounding ELSE 0)

(* Between two drains the balance of every account is the sum of its rows:  *)
(* a handler or a reconciliation that looks at the database never sees half *)
(* a transfer, and no update is lost.  The reserve is off by no more than   *)
(* half a micro-unit for each fee that was paid for gas, which its balance  *)
(* rounds and its row does not.  Without faults and batched requests.       *)
BalancesMatchAudit ==
  NoFaults /\ ready = {} =>
    /\ \A a \in Accounts \ {Reserve} :
         PartsOfUnit * bal[a] = LoggedInParts(a)
    /\ LET error == PartsOfUnit * bal[Reserve] - LoggedInParts(Reserve)
       IN  /\ -(gas * PartsOfUnit) <= 2 * error
           /\ 2 * error <= gas * PartsOfUnit

(* The same for users' accounts only.  It survives batches of rolls: the    *)
(* lock of /roll protects the user, not the treasury.                       *)
UsersMatchAudit ==
  NoFaults /\ ready = {} => \A u \in Users : bal[u] = audit[u]

------------------------------------------------------------------------------
(* What the accounts hold together.                                         *)

Total(f) == SumFunctionOnSet(f, Accounts)

(* The database promises users no more than the bot holds on chain (gas     *)
(* left aside), at every step and after crashes between any two statements. *)
Solvent == Total(bal) <= chain

(* "Every transaction creates balanced ledger entries": between drains no   *)
(* internal movement has changed the total, only withdrawals have (a fee    *)
(* for gas counts as the micro-units it is rounded to).                     *)
DoubleEntry == ready = {} => Total(bal) = Total(audit)

------------------------------------------------------------------------------
(* The wallet implements IdealLedger: an account is what the log says (a    *)
(* fee for gas rounded to micro-units, as the balance has it), a            *)
(* withdrawal holds money from its pending row to its completion or refund. *)

Holding(p) ==
  pc[p] \in {"sending", "storeHash", "settle", "refund", "recordRefund"}

Ideal ==
  INSTANCE IdealLedger WITH
    Fees <- Reserve,
    Counters <- Requests,
    Opening <- InitialBalance,
    account <- audit,
    held <- [p \in Requests |->
               IF Holding(p) THEN [owner |-> job[p].user, amt |-> job[p].amt]
                             ELSE [owner |-> Reserve, amt |-> 0]],
    delivered <- {p \in Requests : Holding(p) /\ job[p].fate = "landed"}

(* Without crashes, failing statements, batched requests and late answers   *)
(* of the chain, the statements of every request add up to one atomic       *)
(* movement, no account is overdrawn, and money that left is never refunded. *)
ImplementsIdealLedger == Ideal!Spec

------------------------------------------------------------------------------
(* Liveness.                                                                *)

(* Every request that has begun ends.                                       *)
EveryRequestEnds == \A p \in Requests : Running(p) ~> ~Running(p)

(* Withdrawal and transfer locks, also the ones that a crash left behind,   *)
(* are removed in the end.                                                  *)
LocksReclaimed == \A u \in Users : Expirable(u) ~> ~Expirable(u)

=============================================================================
