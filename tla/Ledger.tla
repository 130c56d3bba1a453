-------------------------------- MODULE Ledger --------------------------------
(***************************************************************************)
(* services/ledgerService.ts: user_balances and the log of transactions.   *)
(*                                                                         *)
(* No method opens an SQL transaction: each statement commits on its own,  *)
(* and the new balance is computed in the handler from a value read at an  *)
(* earlier await.  One definition below is one statement, or the reads     *)
(* between two awaits.  Amounts are micro-units of JUNO (precision.ts).    *)
(*                                                                         *)
(* A missing row of user_balances reads as 0 and every credit inserts it   *)
(* first (ensureUserBalance), so a missing row is a balance of 0 here.     *)
(***************************************************************************)
EXTENDS Integers

CONSTANTS
  Accounts,                \* user_id of every balance, system accounts too
  Callers                  \* the handlers that call the service

VARIABLES
  bal,                     \* user_balances: account -> balance
  audit,                   \* transactions: account -> net effect of its rows
  snap                     \* the balances a caller has read: [from, to]

NoSnap == [from |-> 0, to |-> 0]

LedgerTypeOK ==
  /\ bal \in [Accounts -> Int]
  /\ audit \in [Accounts -> Int]
  /\ snap \in [Callers -> [from: Int, to: Int]]

(* Mutant: the comparison is off by one micro-unit.                         *)
SufficientOffByOne(balance, amt) == balance + 1 >= amt

(* AmountPrecision.isGreaterOrEqual, and the "currentBalance < amount"      *)
(* tests of the service: both compare exact micro-units.                    *)
Sufficient(balance, amt) == balance >= amt

(* AmountPrecision.subtract throws instead of returning a negative amount;  *)
(* the callers below have tested Sufficient on the same value before.       *)
Subtract(balance, amt) == balance - amt

Add(balance, amt) == balance + amt

------------------------------------------------------------------------------
(* transferBetweenUsers: four awaits separate the sender's read from the    *)
(* log entry.                                                               *)

ReadFrom(h, from) ==
  /\ snap' = [snap EXCEPT ![h].from = bal[from]]
  /\ UNCHANGED << bal, audit >>

ReadTo(h, to) ==
  /\ snap' = [snap EXCEPT ![h].to = bal[to]]
  /\ UNCHANGED << bal, audit >>

WriteFrom(h, from, amt) ==
  /\ bal' = [bal EXCEPT ![from] = Subtract(snap[h].from, amt)]
  /\ UNCHANGED << audit, snap >>

WriteTo(h, to, amt) ==
  /\ bal' = [bal EXCEPT ![to] = Add(snap[h].to, amt)]
  /\ UNCHANGED << audit, snap >>

(* recordTransaction of a TRANSFER: one row names both accounts.  It is the *)
(* last statement: the caller's readings are discarded.                     *)
RecordTransfer(h, from, to, amt) ==
  /\ audit' = [a \in Accounts |->
                 audit[a] - (IF a = from THEN amt ELSE 0)
                          + (IF a = to THEN amt ELSE 0)]
  /\ snap' = [snap EXCEPT ![h] = NoSnap]
  /\ UNCHANGED bal

(* A statement of h throws: it changed nothing, and h forgets its readings. *)
Forget(h) ==
  /\ snap' = [snap EXCEPT ![h] = NoSnap]
  /\ UNCHANGED << bal, audit >>

------------------------------------------------------------------------------
(* The methods that touch one account.  Their callers here run alone in     *)
(* their drain, so the read and the write that follows it are one step.     *)

(* processWithdrawal and processAdjustment with a negative amount, up to    *)
(* the UPDATE.                                                              *)
Debit(a, amt) ==
  /\ bal' = [bal EXCEPT ![a] = Subtract(@, amt)]
  /\ UNCHANGED << audit, snap >>

(* processGiveaway (used for refunds), up to the UPDATE.                    *)
Credit(a, amt) ==
  /\ bal' = [bal EXCEPT ![a] = Add(@, amt)]
  /\ UNCHANGED << audit, snap >>

(* recordTransaction of a row that names one account.                       *)
RecordDebit(a, amt) ==
  /\ audit' = [audit EXCEPT ![a] = @ - amt]
  /\ UNCHANGED << bal, snap >>

RecordCredit(a, amt) ==
  /\ audit' = [audit EXCEPT ![a] = @ + amt]
  /\ UNCHANGED << bal, snap >>

=============================================================================
