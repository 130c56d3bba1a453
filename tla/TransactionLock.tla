--------------------------- MODULE TransactionLock ---------------------------
(***************************************************************************)
(* services/transactionLock.ts: the table transaction_locks, one row per   *)
(* user (user_id is its primary key), and the statements the service runs  *)
(* on it.                                                                  *)
(*                                                                         *)
(* getActiveLock returns the row with the column names of SQLite           *)
(* (locked_at, lock_type, tx_hash), while its callers read lockedAt,       *)
(* lockType and txHash, which are therefore undefined.  The two branches   *)
(* this decides are the definitions WithdrawalRefused and Releasable.      *)
(***************************************************************************)
EXTENDS FiniteSets

CONSTANTS
  Users,                   \* the users that hold accounts
  Requests,                \* what can hold a lock: the handlers
  NoRequest                \* the holder of no lock

ASSUME NoRequestAssumption == NoRequest \notin Requests

VARIABLE locks             \* transaction_locks

LockTypes == {"withdrawal", "transfer", "gambling_roll", "duel"}

(* The columns that decide something.  "holder" is a history variable: the  *)
(* request whose INSERT made the row.  "expired" abstracts locked_at: the   *)
(* timeout of the row's type has elapsed.                                   *)
NoLock == [type |-> "none", holder |-> NoRequest, hash |-> FALSE,
           expired |-> FALSE]

NewLock(type, h) == [type |-> type, holder |-> h, hash |-> FALSE,
                     expired |-> FALSE]

Locks == [type: LockTypes \cup {"none"}, holder: Requests \cup {NoRequest},
          hash: BOOLEAN, expired: BOOLEAN]

LockInit == locks = [u \in Users |-> NoLock]

LockTypeOK == locks \in [Users -> Locks]

HasLock(u) == locks[u] # NoLock

(* Mutant: INSERT OR REPLACE.                                               *)
InsertOrReplaceLock(u, type, h) ==
  locks' = [locks EXCEPT ![u] = NewLock(type, h)]

(* INSERT: the primary key rejects a second row for the same user.          *)
InsertLock(u, type, h) ==
  /\ ~HasLock(u)
  /\ locks' = [locks EXCEPT ![u] = NewLock(type, h)]

(* DELETE ... WHERE user_id IN (S): whatever the type, whoever the holder.  *)
DeleteLocks(S) ==
  locks' = [u \in Users |-> IF u \in S THEN NoLock ELSE locks[u]]

(* lockWithdrawal: age = now - undefined = NaN, and NaN < 120 is false, so  *)
(* an existing lock never refuses a withdrawal; txHash is undefined too, so *)
(* no verification of the old transaction is attempted either.              *)
WithdrawalRefused(u) == FALSE

(* releaseWithdrawalLock: lockType is undefined, hence different from       *)
(* "withdrawal": the method returns before its DELETE, forced or not.       *)
Releasable(u) == FALSE

ReleaseWithdrawalLock(u) ==
  locks' = IF Releasable(u) THEN [locks EXCEPT ![u] = NoLock] ELSE locks

(* releaseTransferLocks: only rows of type transfer.                        *)
ReleaseTransferLocks(S) ==
  locks' = [u \in Users |-> IF u \in S /\ locks[u].type = "transfer"
                            THEN NoLock ELSE locks[u]]

(* Mutant: the new status is written into the column lock_type.             *)
StoreTxHashInType(u) ==
  locks' = IF locks[u].type = "withdrawal"
           THEN [locks EXCEPT ![u] = [@ EXCEPT !.type = "processing"]]
           ELSE locks

(* updateLockWithTxHash: only a withdrawal row that is still pending.       *)
StoreTxHash(u) ==
  locks' = IF locks[u].type = "withdrawal"
           THEN [locks EXCEPT ![u] = [@ EXCEPT !.hash = TRUE]] ELSE locks

(* Time passes the timeout of the row.  Only the types that the cleanup     *)
(* query names have one.                                                    *)
Expirable(u) == locks[u].type \in {"withdrawal", "transfer"}

Elapse(u) ==
  /\ Expirable(u)
  /\ ~locks[u].expired
  /\ locks' = [locks EXCEPT ![u] = [@ EXCEPT !.expired = TRUE]]

(* Mutant: the query misses the withdrawals that have a hash.               *)
ExpiredPendingLocks ==
  {u \in Users : Expirable(u) /\ locks[u].expired /\ ~locks[u].hash}

(* cleanExpiredLocks: the rows its query returns.                           *)
ExpiredLocks == {u \in Users : Expirable(u) /\ locks[u].expired}

=============================================================================
