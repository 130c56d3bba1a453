------------------------------ MODULE Withdrawal ------------------------------
(***************************************************************************)
(* What /withdraw does to the lock rows and balances that duels rely on:   *)
(* processWithdrawal of unifiedWalletService.ts with lockWithdrawal, and   *)
(* the periodic cleanup of transaction_locks.                              *)
(*                                                                         *)
(* financialLockCheck lets /withdraw@banBabyBot pass, and lockWithdrawal   *)
(* deletes whatever row its user has.  After the reply to the user, and    *)
(* again after the answer of the chain, the handler wakes from I/O and     *)
(* drains alone; the process may be killed between any two statements.     *)
(*                                                                         *)
(* The rest is in Wallet: the hash of the transaction, the status of its   *)
(* row, the fee for gas, statements that throw, and the bot's funds on     *)
(* chain.  A withdrawal is always of Wager.                                *)
(***************************************************************************)
EXTENDS Duel

VARIABLE seized            \* history: users of whose rows one was deleted
                           \* by lockWithdrawal

WithdrawSteps ==
  {"idle", "seize", "lock", "debit", "logDebit", "sending", "refund",
   "logRefund"}

WithdrawInit == seized = {}

(* The command has replied to the user and wakes from that: a command that  *)
(* is refused has changed nothing and is not a step.  processWithdrawal     *)
(* looks at the balance, and for a row to delete.                           *)
BeginWithdrawal(r, u) ==
  /\ Wake(r)
  /\ Sufficient(bal[u], Wager)
  /\ HasLock(u) => ~WithdrawalRefused(u)
  /\ Start(r, IF HasLock(u) THEN "seize" ELSE "lock",
           [kind |-> "withdraw", user |-> u])
  /\ UNCHANGED << ledgerVars, locks, seized >>

(* The row is deleted, and the next statement inserts the withdrawal's.     *)
LockWithdrawal(r) ==
  /\ Tick(r)
  /\ \/ /\ pc[r] = "seize"
        /\ DeleteLocks({job[r].user})
        /\ seized' = seized \cup {job[r].user}
        /\ Continue(r, "lock")
     \/ /\ pc[r] = "lock"
        /\ InsertLock(job[r].user, "withdrawal", r)
        /\ Continue(r, "debit")
        /\ UNCHANGED seized
  /\ UNCHANGED << job, ledgerVars >>

(* The debit and its row; then the wallet connects and sends.               *)
DebitWithdrawal(r) ==
  /\ \/ /\ pc[r] = "debit"
        /\ Tick(r)
        /\ Sufficient(bal[job[r].user], Wager)
        /\ Debit(job[r].user, Wager)
        /\ Continue(r, "logDebit")
     \/ /\ pc[r] = "logDebit"
        /\ Suspend(r)
        /\ RecordDebit(job[r].user, Wager)
        /\ Continue(r, "sending")
  /\ UNCHANGED << job, locks, seized >>

(* The coins are sent: releaseWithdrawalLock, which does not delete.  Or    *)
(* they are not.                                                            *)
WithdrawalSent(r) ==
  /\ pc[r] = "sending"
  /\ \/ /\ Drain
        /\ ReleaseWithdrawalLock(job[r].user)
        /\ Finish(r)
     \/ /\ Wake(r)
        /\ Continue(r, "refund")
        /\ UNCHANGED << job, locks >>
  /\ UNCHANGED << ledgerVars, seized >>

RefundWithdrawal(r) ==
  /\ \/ /\ pc[r] = "refund"
        /\ Tick(r)
        /\ Credit(job[r].user, Wager)
        /\ Continue(r, "logRefund")
        /\ UNCHANGED << job, locks >>
     \/ /\ pc[r] = "logRefund"
        /\ Suspend(r)
        /\ RecordCredit(job[r].user, Wager)
        /\ ReleaseWithdrawalLock(job[r].user)
        /\ Finish(r)
  /\ UNCHANGED seized

WithdrawRequest(r) ==
  /\ \/ \E u \in Users : BeginWithdrawal(r, u)
     \/ LockWithdrawal(r) \/ DebitWithdrawal(r)
     \/ WithdrawalSent(r) \/ RefundWithdrawal(r)
  /\ UNCHANGED << duels, penalties, menuVars >>

------------------------------------------------------------------------------
(* A row's timeout elapses; cleanExpiredLocks, every minute.                *)

LockElapses(u) ==
  /\ ready = {}
  /\ Elapse(u)
  /\ UNCHANGED loopVars

CleanExpiredLocks ==
  /\ Drain
  /\ ExpiredLocks # {}
  /\ DeleteLocks(ExpiredLocks)

LockStep ==
  /\ CleanExpiredLocks \/ \E u \in Users : LockElapses(u)
  /\ UNCHANGED << pc, job, ledgerVars, duels, penalties, menuVars, seized >>

=============================================================================
