----------------------------- MODULE WalletProofs -----------------------------
(***************************************************************************)
(* Theorems about Wallet for every value of its constants: types, balances *)
(* that are never negative, and locks that a running request keeps.        *)
(***************************************************************************)
EXTENDS Wallet, TLAPS

USE DEF Accounts

LEMMA IdleIsJob == IdleJob \in Jobs
BY DEF IdleJob, NewJob, Jobs

LEMMA NoSnapType == NoSnap \in [from: Int, to: Int]
BY DEF NoSnap

(* Every statement on transaction_locks keeps the type of the table.        *)
LEMMA LockStatements ==
  ASSUME LockTypeOK
  PROVE  /\ \A type \in LockTypes, h \in Requests : \A u :
              InsertLock(u, type, h) => LockTypeOK'
         /\ \A S : DeleteLocks(S) => LockTypeOK'
         /\ \A S : ReleaseTransferLocks(S) => LockTypeOK'
         /\ \A u : StoreTxHash(u) => LockTypeOK'
         /\ \A u : Elapse(u) => LockTypeOK'
<1> USE DEF LockTypeOK
<1>1. NoLock \in Locks
  BY DEF NoLock, Locks
<1>2. \A type \in LockTypes, h \in Requests : NewLock(type, h) \in Locks
  BY DEF NewLock, Locks
<1>3. \A u \in Users : /\ [locks[u] EXCEPT !.hash = TRUE] \in Locks
                       /\ [locks[u] EXCEPT !.expired = TRUE] \in Locks
  BY DEF Locks
<1>4. \A type \in LockTypes, h \in Requests : \A u :
        InsertLock(u, type, h) => LockTypeOK'
  BY <1>2 DEF InsertLock
<1>5. /\ \A S : DeleteLocks(S) => LockTypeOK'
      /\ \A S : ReleaseTransferLocks(S) => LockTypeOK'
  BY <1>1 DEF DeleteLocks, ReleaseTransferLocks
<1>6. \A u : StoreTxHash(u) \/ Elapse(u) => LockTypeOK'
  BY <1>3 DEF StoreTxHash, Elapse
<1> QED
  BY <1>4, <1>5, <1>6

(* The initial state is of the right type.                                  *)
LEMMA InitType == Init => TypeOK
<1> SUFFICES ASSUME Init PROVE TypeOK
  OBVIOUS
<1>1. LoopTypeOK /\ LockTypeOK
  BY DEF Init, LoopInit, LoopTypeOK, LockInit, LockTypeOK, Locks, NoLock
<1>2. LedgerTypeOK
  BY WalletAssumption DEF Init, LedgerTypeOK, NoSnap
<1>3. pc \in [Requests -> Steps] /\ job \in [Requests -> Jobs]
  BY IdleIsJob DEF Init, Steps, AskSteps
<1>4. chain \in Int /\ gas \in Nat
  BY WalletAssumption DEF Init
<1> QED
  BY <1>1, <1>2, <1>3, <1>4 DEF Init, TypeOK, NoSweep

(* A handler goes on to a step that exists, or returns.                     *)
LEMMA ContinueType ==
  ASSUME TypeOK, NEW p \in Requests, NEW step \in Steps, Continue(p, step)
  PROVE  /\ LoopTypeOK'
         /\ pc' \in [Requests -> Steps]
         /\ job' \in [Requests -> Jobs]
<1>1. "idle" \in Steps
  BY DEF Steps, AskSteps
<1> QED
  BY <1>1, IdleIsJob
     DEF TypeOK, LoopTypeOK, Continue, Goto, Finish, Tick, Suspend

(* The statements of transferBetweenUsers keep the type.                    *)
LEMMA TransferType ==
  ASSUME TypeOK, NEW p \in Requests, Transfer(p)
  PROVE  TypeOK'
<1>j. /\ job[p].from \in Accounts /\ job[p].to \in Accounts
      /\ job[p].amt \in Nat
  BY DEF TypeOK, Jobs
<1>s. /\ AfterTransfer(p) \in Steps /\ AfterFailedTransfer(p) \in Steps
      /\ TransferSteps \subseteq Steps
  BY DEF AfterTransfer, AfterFailedTransfer, Steps, AskSteps, SendSteps,
         RollSteps, TransferSteps
<1>c. /\ LoopTypeOK' /\ pc' \in [Requests -> Steps] /\ job' \in [Requests -> Jobs]
      /\ UNCHANGED << locks, Environment >>
  <2>1. \E step \in Steps : Continue(p, step)
    BY <1>s DEF Transfer, TransferReadFrom, TransferReadTo, TransferWriteFrom,
                TransferWriteTo, TransferRecord, TransferSteps
  <2>2. UNCHANGED << locks, Environment >>
    BY DEF Transfer, TransferReadFrom, TransferReadTo, TransferWriteFrom,
           TransferWriteTo, TransferRecord
  <2> QED
    BY <2>1, <2>2, ContinueType
<1>l. LedgerTypeOK'
  <2> USE DEF TypeOK, LedgerTypeOK
  <2>1. CASE TransferReadFrom(p)
    BY <2>1, <1>j, NoSnapType DEF TransferReadFrom, ReadFrom, Forget
  <2>2. CASE TransferReadTo(p)
    BY <2>2, <1>j DEF TransferReadTo, ReadTo
  <2>3. CASE TransferWriteFrom(p)
    BY <2>3, <1>j DEF TransferWriteFrom, WriteFrom, Subtract
  <2>4. CASE TransferWriteTo(p)
    BY <2>4, <1>j DEF TransferWriteTo, WriteTo, Add
  <2>5. CASE TransferRecord(p)
    BY <2>5, <1>j, NoSnapType DEF TransferRecord, RecordTransfer
  <2> QED
    BY <2>1, <2>2, <2>3, <2>4, <2>5 DEF Transfer
<1> QED
  BY <1>c, <1>l DEF TypeOK, LockTypeOK, Environment

(* A request begins.                                                        *)
LEMMA BeginType ==
  ASSUME TypeOK, NEW p \in Requests, Begin(p)
  PROVE  TypeOK'
<1>t. ASSUME NEW j \in Jobs, NEW step \in {"asked", "checkUser", "readFrom"},
             Start(p, j, step), LoopTypeOK', LockTypeOK'
      PROVE  TypeOK'
  <2>1. step \in Steps
    BY DEF Steps, AskSteps, TransferSteps, RollSteps
  <2>2. used' \in [requests: Nat, crashes: Nat, errors: Nat]
    BY <1>t DEF Start, TypeOK
  <2>3. pc' \in [Requests -> Steps] /\ job' \in [Requests -> Jobs]
    BY <1>t, <2>1 DEF Start, TypeOK
  <2> QED
    BY <1>t, <2>2, <2>3 DEF Start, TypeOK, LedgerTypeOK, ledgerVars
<1>n. ASSUME NEW kind \in {"send", "roll", "fine", "treasury", "withdraw"},
             NEW u \in Users, NEW to \in Accounts, NEW amt \in Amounts
      PROVE  NewJob(kind, u, to, amt) \in Jobs
  BY WalletAssumption DEF NewJob, Jobs
<1> USE DEF TypeOK, LoopTypeOK
<1>a. Users \subseteq Accounts /\ Treasury \in Accounts
  BY DEF Accounts
<1>1. ASSUME NEW kind \in {"send", "withdraw"}, NEW u \in Users,
             NEW v \in Users, NEW amt \in Amounts, Ask(p, kind, u, v, amt)
      PROVE  TypeOK'
  BY <1>1, <1>a, <1>n, <1>t DEF Ask, Pass, LockTypeOK
<1>2. ASSUME NEW u \in Users, NEW amt \in Amounts, BeginRoll(p, u, amt)
      PROVE  TypeOK'
  <2>1. LockTypeOK'
    BY <1>2, LockStatements DEF BeginRoll, LockTypes
  <2> QED
    BY <1>2, <1>a, <1>n, <1>t, <2>1 DEF BeginRoll, Arrive
<1>3. ASSUME NEW j \in Jobs, Unlocked(p, j)
      PROVE  TypeOK'
  BY <1>3, <1>t DEF Unlocked, Arrive, LockTypeOK
<1>4. ASSUME NEW u \in Users, NEW amt \in Amounts,
             \/ BeginFine(p, u, amt) \/ FundTreasury(p, u, amt)
             \/ WithdrawTreasury(p, u, amt)
      PROVE  TypeOK'
  <2>1. ASSUME NEW j \in Jobs PROVE [j EXCEPT !.from = Treasury] \in Jobs
    BY <1>a DEF Jobs
  <2>2. NewJob("treasury", u, u, amt) \in Jobs
    BY <1>a, <1>n
  <2>3. [NewJob("treasury", u, u, amt) EXCEPT !.from = Treasury] \in Jobs
    BY <2>1, <2>2
  <2> QED
    BY <1>4, <1>3, <1>a, <1>n, <2>3
       DEF BeginFine, FundTreasury, WithdrawTreasury
<1> QED
  BY <1>1, <1>2, <1>4 DEF Begin

(* The first reply of /send and /withdraw is out.                           *)
LEMMA AnsweredType ==
  ASSUME TypeOK, NEW p \in Requests, Answered(p)
  PROVE  TypeOK'
<1> USE IdleIsJob
    DEF TypeOK, LoopTypeOK, LedgerTypeOK, Wake, Environment, loopVars,
        ledgerVars
<1>s. {"idle", "lockReceiver", "steal", "lock"} \subseteq Steps
  BY DEF Steps, AskSteps, SendSteps, WithdrawSteps
<1>1. CASE BeginSend(p)
  <2>1. LockTypeOK'
    BY <1>1, LockStatements DEF BeginSend, LockTypes
  <2> QED
    BY <1>1, <1>s, <2>1 DEF BeginSend
<1>2. CASE BeginWithdraw(p)
  BY <1>2, <1>s DEF BeginWithdraw, LockTypeOK
<1>3. CASE Refuse(p)
  BY <1>3, <1>s DEF Refuse, LockTypeOK
<1> QED
  BY <1>1, <1>2, <1>3 DEF Answered

(* The locks of /send.                                                      *)
LEMMA SendType ==
  ASSUME TypeOK, NEW p \in Requests, Send(p)
  PROVE  TypeOK'
<1> USE IdleIsJob
    DEF TypeOK, LoopTypeOK, LedgerTypeOK, Continue, Goto, Finish, Tick,
        Suspend, Environment, ledgerVars
<1>s. {"idle", "readFrom"} \subseteq Steps
  BY DEF Steps, AskSteps, TransferSteps
<1>1. CASE LockReceiver(p)
  <2>1. LockTypeOK'
    BY <1>1, LockStatements DEF LockReceiver, LockTypes
  <2> QED
    BY <1>1, <1>s, <2>1 DEF LockReceiver
<1>2. CASE LockReceiverFails(p)
  <2>1. LockTypeOK'
    BY <1>2, LockStatements DEF LockReceiverFails
  <2> QED
    BY <1>2, <1>s, <2>1 DEF LockReceiverFails
<1>3. CASE Unlock(p)
  <2>1. LockTypeOK'
    BY <1>3, LockStatements DEF Unlock
  <2> QED
    BY <1>3, <1>s, <2>1 DEF Unlock
<1> QED
  BY <1>1, <1>2, <1>3 DEF Send

(* The steps of /roll around its transfer.                                  *)
LEMMA RollType ==
  ASSUME TypeOK, NEW p \in Requests, Roll(p)
  PROVE  TypeOK'
<1> USE IdleIsJob
    DEF TypeOK, LoopTypeOK, LedgerTypeOK, Continue, Goto, Finish,
        Tick, Suspend, Environment, loopVars, ledgerVars
<1>s. {"idle", "readFrom", "checkTreasury", "relabel", "reply", "releaseEnd",
       "releaseRetry"} \subseteq Steps
  BY DEF Steps, AskSteps, TransferSteps, RollSteps
<1>1. CASE RollCheckUser(p)
  BY <1>1, <1>s DEF RollCheckUser, LockTypeOK
<1>2. CASE RollRefused(p)
  BY <1>2, <1>s DEF RollRefused, LockTypeOK
<1>3. CASE RollWon(p)
  <2> DEFINE won == [job[p] EXCEPT !.from = Treasury, !.to = job[p].user,
                                   !.amt = Prize(p)]
  <2>1. Prize(p) \in Nat /\ job[p].user \in Accounts
    BY WalletAssumption DEF Jobs, Prize
  <2>2. won \in Jobs
    BY <2>1 DEF Jobs
  <2>3. job' = [job EXCEPT ![p] = won]
    BY <1>3 DEF RollWon
  <2> QED
    BY <1>3, <1>s, <2>2, <2>3 DEF RollWon, LockTypeOK
<1>4. CASE RollLost(p)
  BY <1>4, <1>s DEF RollLost, LockTypeOK
<1>5. CASE RollRelease(p)
  <2>1. LockTypeOK'
    BY <1>5, LockStatements DEF RollRelease
  <2> QED
    BY <1>5, <1>s, <2>1 DEF RollRelease
<1>6. CASE RollRelabel(p)
  BY <1>6, <1>s DEF RollRelabel, LockTypeOK
<1>7. CASE RollReplied(p)
  BY <1>7, <1>s DEF RollReplied, LockTypeOK
<1>8. CASE RollReplyFails(p)
  BY <1>8, <1>s DEF RollReplyFails, Wake, LockTypeOK
<1> QED
  BY <1>1, <1>2, <1>3, <1>4, <1>5, <1>6, <1>7, <1>8 DEF Roll

(* processWithdrawal, and the chain.                                        *)
LEMMA WithdrawType ==
  ASSUME TypeOK, NEW p \in Requests, Withdraw(p) \/ SendTokens(p) \/ Land(p)
  PROVE  TypeOK'
<1> USE IdleIsJob
    DEF TypeOK, LoopTypeOK, LedgerTypeOK, Continue, Goto, Finish,
        Tick, Suspend, Environment, loopVars, ledgerVars
<1>s. {"idle"} \cup WithdrawSteps \subseteq Steps
  BY DEF Steps, AskSteps
<1>j. job[p].user \in Accounts /\ job[p].amt \in Nat
  BY DEF Jobs
<1>1. CASE StealLock(p)
  <2>1. LockTypeOK'
    BY <1>1, LockStatements DEF StealLock
  <2> QED
    BY <1>1, <1>s, <2>1 DEF StealLock, WithdrawSteps
<1>2. CASE LockWithdrawal(p)
  <2>1. LockTypeOK'
    BY <1>2, LockStatements DEF LockWithdrawal, LockTypes
  <2> QED
    BY <1>2, <1>s, <2>1 DEF LockWithdrawal, WithdrawSteps
<1>3. CASE DebitUser(p)
  BY <1>3, <1>j, <1>s
     DEF DebitUser, Debit, Subtract, LockTypeOK, WithdrawSteps
<1>4. CASE RecordDebitUser(p)
  BY <1>4, <1>j, <1>s
     DEF RecordDebitUser, RecordDebit, LockTypeOK, WithdrawSteps
<1>5. CASE StoreHash(p)
  <2>1. LockTypeOK'
    BY <1>5, LockStatements DEF StoreHash
  <2> QED
    BY <1>5, <1>s, <2>1 DEF StoreHash, WithdrawSteps
<1>6. CASE Settle(p)
  BY <1>6, <1>s DEF Settle, LockTypeOK, WithdrawSteps
<1>7. CASE PayGas(p)
  <2>1. LedgerTypeOK'
    BY <1>7, NoSnapType, WalletAssumption DEF PayGas, Debit, Subtract, Forget
  <2>2. pc' \in [Requests -> Steps] /\ job' \in [Requests -> Jobs] /\ LoopTypeOK'
    BY <1>7, <1>s DEF PayGas, WithdrawSteps
  <2> QED
    BY <1>7, <2>1, <2>2 DEF PayGas, LockTypeOK
<1>8. CASE RecordGas(p)
  BY <1>8, <1>s, WalletAssumption
     DEF RecordGas, RecordDebit, LockTypeOK, WithdrawSteps
<1>9. CASE Refund(p)
  BY <1>9, <1>j, <1>s DEF Refund, Credit, Add, LockTypeOK, WithdrawSteps
<1>10. CASE RecordRefund(p)
  BY <1>10, <1>j, <1>s
     DEF RecordRefund, RecordCredit, LockTypeOK, WithdrawSteps
<1>11. CASE UnlockWithdrawal(p)
  BY <1>11, <1>s
     DEF UnlockWithdrawal, ReleaseWithdrawalLock, Releasable, LockTypeOK
<1>12. CASE SendReturns(p)
  BY <1>12, <1>s DEF SendReturns, Wake, LockTypeOK, WithdrawSteps
<1>13. CASE SendThrows(p)
  BY <1>13, <1>s DEF SendThrows, Wake, LockTypeOK, WithdrawSteps
<1>14. CASE Land(p)
  <2>1. /\ [job[p] EXCEPT !.fate = "landed"] \in Jobs
        /\ [job[p] EXCEPT !.fate = "rejected"] \in Jobs
    BY DEF Jobs
  <2>2. job' \in [Requests -> Jobs]
    BY <1>14, <2>1 DEF Land
  <2> QED
    BY <1>14, <2>2, <1>j, WalletAssumption DEF Land, LockTypeOK
<1> QED
  BY <1>1, <1>2, <1>3, <1>4, <1>5, <1>6, <1>7, <1>8, <1>9, <1>10, <1>11,
     <1>12, <1>13, <1>14 DEF Withdraw, SendTokens

(* A statement that throws, the cleanup of locks, time, and a crash.        *)
LEMMA FaultType ==
  ASSUME TypeOK,
         \/ \E p \in Requests : StatementFails(p)
         \/ Sweep
         \/ \E u \in Users : Timeout(u)
         \/ Crash
  PROVE  TypeOK'
<1> USE DEF TypeOK, LoopTypeOK, LedgerTypeOK, loopVars, ledgerVars
<1>1. ASSUME NEW p \in Requests, StatementFails(p)
      PROVE  TypeOK'
  <2>1. CatchStep(p) \in Steps /\ "refund" \in Steps /\ "idle" \in Steps
    BY DEF CatchStep, AfterFailedTransfer, Steps, AskSteps, SendSteps,
           RollSteps, WithdrawSteps, TransferSteps
  <2>2. [job[p] EXCEPT !.caught = TRUE] \in Jobs
    BY DEF Jobs
  <2>3. job' \in [Requests -> Jobs]
    BY <1>1, <2>2, IdleIsJob DEF StatementFails, Continue, Finish
  <2>4. LockTypeOK'
    BY <1>1, LockStatements DEF StatementFails, LockTypeOK
  <2>5. LoopTypeOK' /\ pc' \in [Requests -> Steps]
    BY <1>1, <2>1
       DEF StatementFails, Continue, Finish, Goto, Tick, Suspend
  <2>6. used' \in [requests: Nat, crashes: Nat, errors: Nat]
    BY <1>1 DEF StatementFails
  <2> QED
    BY <1>1, <2>3, <2>4, <2>5, <2>6, NoSnapType DEF StatementFails, Forget
<1>2. CASE SweepStart
  BY <1>2 DEF SweepStart, Wake, ExpiredLocks, NoSweep, LockTypeOK
<1>3. ASSUME NEW u \in Users, SweepRow(u)
      PROVE  TypeOK'
  <2>1. LockTypeOK'
    BY <1>3, LockStatements DEF SweepRow, SweepDelete
  <2>2. sweep' \in [todo: SUBSET Users, hashed: SUBSET Users,
                    verifying: SUBSET Users]
    BY <1>3 DEF SweepRow, SweepDelete
  <2> QED
    BY <1>3, <2>1, <2>2 DEF SweepRow, SweepDelete, Suspend, Tick
<1>4. ASSUME NEW u \in Users, SweepVerify(u)
      PROVE  TypeOK'
  BY <1>4 DEF SweepVerify, Suspend, LockTypeOK
<1>5. CASE SweepVerified
  BY <1>5 DEF SweepVerified, Wake, LockTypeOK
<1>6. ASSUME NEW u \in Users, Timeout(u)
      PROVE  TypeOK'
  <2>1. LockTypeOK'
    BY <1>6, LockStatements DEF Timeout
  <2> QED
    BY <1>6, <2>1 DEF Timeout, Environment
<1>7. CASE Crash
  <2>1. used' \in [requests: Nat, crashes: Nat, errors: Nat]
    BY <1>7 DEF Crash
  <2> QED
    BY <1>7, <2>1, IdleIsJob, NoSnapType
       DEF Crash, Halt, NoSweep, LockTypeOK, Steps, AskSteps
<1> QED
  BY <1>1, <1>2, <1>3, <1>4, <1>5, <1>6, <1>7 DEF Sweep

LEMMA NextType == TypeOK /\ [Next]_vars => TypeOK'
<1> SUFFICES ASSUME TypeOK, [Next]_vars PROVE TypeOK'
  OBVIOUS
<1>1. CASE UNCHANGED vars
  BY <1>1 DEF vars, TypeOK, LoopTypeOK, LockTypeOK, LedgerTypeOK
<1>2. ASSUME NEW p \in Requests, Proceed(p) \/ Begin(p) \/ Land(p)
      PROVE  TypeOK'
  BY <1>2, TransferType, BeginType, AnsweredType, SendType, RollType,
     WithdrawType
     DEF Proceed
<1> QED
  BY <1>1, <1>2, FaultType DEF Next

(* The type invariant holds in every state, for every number of users and   *)
(* requests, every amount, and whatever crashes or fails.                   *)
THEOREM TypeCorrect == Spec => []TypeOK
BY InitType, NextType, PTL DEF Spec

------------------------------------------------------------------------------
(* No balance is ever negative.  NonNegative is not inductive: WriteFrom    *)
(* stores a difference of two values read earlier.  With ReadingsCover it   *)
(* is: a reading is made under the test that it suffices, and no other      *)
(* request touches it.                                                      *)
ReadingsCover ==
  \A p \in Requests :
    /\ pc[p] \in {"readTo", "writeFrom"} => snap[p].from >= job[p].amt
    /\ pc[p] \in {"writeFrom", "writeTo"} => snap[p].to >= 0

Funds == TypeOK /\ NonNegative /\ ReadingsCover

LEMMA InitFunds == Init => Funds
<1> SUFFICES ASSUME Init PROVE NonNegative /\ ReadingsCover
  BY InitType DEF Funds
<1> QED
  BY WalletAssumption DEF Init, NonNegative, ReadingsCover

(* A step that leaves balances alone, and sends no request to a statement   *)
(* that uses its readings.                                                  *)
LEMMA QuietStep ==
  ASSUME Funds, NEW p \in Requests, bal' = bal,
         snap' = snap \/ Forget(p),
         \A q \in Requests \ {p} : pc'[q] = pc[q] /\ job'[q] = job[q],
         pc'[p] \notin {"readTo", "writeFrom", "writeTo"}
  PROVE  NonNegative' /\ ReadingsCover'
BY DEF Funds, TypeOK, LedgerTypeOK, NonNegative, ReadingsCover, Forget

(* The statements of transferBetweenUsers.                                  *)
LEMMA TransferFunds ==
  ASSUME Funds, NEW p \in Requests, Transfer(p)
  PROVE  NonNegative' /\ ReadingsCover'
<1> USE DEF Funds, TypeOK, LedgerTypeOK, Continue, Goto, Finish, At
<1>j. /\ job[p].from \in Accounts /\ job[p].to \in Accounts
      /\ job[p].amt \in Nat
  BY DEF Jobs
<1>1. CASE TransferReadFrom(p)
  <2>1. CASE Sufficient(bal[job[p].from], job[p].amt)
    BY <1>1, <1>j, <2>1
       DEF TransferReadFrom, ReadFrom, Sufficient, NonNegative, ReadingsCover
  <2>2. CASE ~Sufficient(bal[job[p].from], job[p].amt)
    BY <1>1, <2>2, QuietStep
       DEF TransferReadFrom, AfterFailedTransfer, Forget
  <2> QED
    BY <2>1, <2>2
<1>2. CASE TransferReadTo(p)
  BY <1>2, <1>j DEF TransferReadTo, ReadTo, NonNegative, ReadingsCover
<1>3. CASE TransferWriteFrom(p)
  <2>1. NonNegative'
    BY <1>3, <1>j
       DEF TransferWriteFrom, WriteFrom, Subtract, NonNegative, ReadingsCover
  <2>2. ReadingsCover'
    BY <1>3, <1>j DEF TransferWriteFrom, WriteFrom, ReadingsCover
  <2> QED
    BY <2>1, <2>2
<1>4. CASE TransferWriteTo(p)
  <2>1. NonNegative'
    BY <1>4, <1>j
       DEF TransferWriteTo, WriteTo, Add, NonNegative, ReadingsCover
  <2>2. ReadingsCover'
    BY <1>4, <1>j DEF TransferWriteTo, WriteTo, ReadingsCover
  <2> QED
    BY <2>1, <2>2
<1>5. CASE TransferRecord(p)
  BY <1>5, <1>j
     DEF TransferRecord, RecordTransfer, AfterTransfer, NonNegative,
         ReadingsCover
<1> QED
  BY <1>1, <1>2, <1>3, <1>4, <1>5 DEF Transfer

(* The steps of a request that read no balance into a snapshot.             *)
LEMMA OtherFunds ==
  ASSUME Funds, NEW p \in Requests,
         \/ Begin(p) \/ Answered(p) \/ Send(p) \/ Roll(p) \/ SendTokens(p)
         \/ Land(p) \/ StatementFails(p)
  PROVE  NonNegative' /\ ReadingsCover'
<1> USE DEF Funds, TypeOK, LedgerTypeOK, Continue, Goto, Finish, ledgerVars
<1>1. CASE Begin(p)
  BY <1>1, QuietStep
     DEF Begin, Ask, BeginRoll, BeginFine, FundTreasury, WithdrawTreasury,
         Unlocked, Start
<1>7. CASE Answered(p)
  BY <1>7, QuietStep DEF Answered, BeginSend, BeginWithdraw, Refuse
<1>2. CASE Send(p)
  BY <1>2, QuietStep DEF Send, LockReceiver, LockReceiverFails, Unlock
<1>3. CASE Roll(p)
  BY <1>3, QuietStep
     DEF Roll, RollCheckUser, RollRefused, RollWon, RollLost, RollRelease,
         RollRelabel, RollReplied, RollReplyFails
<1>4. CASE SendTokens(p)
  BY <1>4, QuietStep DEF SendTokens, SendReturns, SendThrows
<1>5. CASE Land(p)
  BY <1>5, QuietStep DEF Land
<1>6. CASE StatementFails(p)
  BY <1>6, QuietStep
     DEF StatementFails, CatchStep, AfterFailedTransfer, Forget
<1> QED
  BY <1>1, <1>2, <1>3, <1>4, <1>5, <1>6, <1>7

(* processWithdrawal: what it debits, it has tested.                        *)
LEMMA WithdrawFunds ==
  ASSUME Funds, NEW p \in Requests, Withdraw(p)
  PROVE  NonNegative' /\ ReadingsCover'
<1> USE DEF Funds, TypeOK, LedgerTypeOK, Continue, Goto, Finish, At, ledgerVars
<1>j. job[p].user \in Accounts /\ job[p].amt \in Nat
  BY DEF Jobs
<1>1. CASE \/ StealLock(p) \/ LockWithdrawal(p) \/ RecordDebitUser(p)
           \/ StoreHash(p) \/ Settle(p) \/ RecordGas(p) \/ RecordRefund(p)
           \/ UnlockWithdrawal(p)
  BY <1>1, QuietStep
     DEF StealLock, LockWithdrawal, RecordDebitUser, StoreHash, Settle,
         RecordGas, RecordRefund, UnlockWithdrawal, RecordDebit, RecordCredit
<1>2. CASE DebitUser(p)
  BY <1>2, <1>j
     DEF DebitUser, Debit, Subtract, Sufficient, NonNegative, ReadingsCover
<1>3. CASE PayGas(p)
  <2>1. CASE pc'[p] = "recordGas"
    <3>1. Sufficient(bal[Reserve], GasFee) /\ Debit(Reserve, GasFee)
      BY <1>3, <2>1 DEF PayGas
    <3> QED
      BY <1>3, <2>1, <3>1, WalletAssumption
         DEF PayGas, Debit, Subtract, Sufficient, NonNegative, ReadingsCover
  <2>2. CASE pc'[p] # "recordGas"
    BY <1>3, <2>2, QuietStep DEF PayGas, Forget
  <2> QED
    BY <2>1, <2>2
<1>4. CASE Refund(p)
  BY <1>4, <1>j DEF Refund, Credit, Add, NonNegative, ReadingsCover
<1> QED
  BY <1>1, <1>2, <1>3, <1>4 DEF Withdraw

LEMMA NextFunds == Funds /\ [Next]_vars => Funds'
<1> SUFFICES ASSUME Funds, [Next]_vars PROVE NonNegative' /\ ReadingsCover'
  BY NextType DEF Funds
<1>1. ASSUME NEW p \in Requests,
             Begin(p) \/ Proceed(p) \/ Land(p) \/ StatementFails(p)
      PROVE  NonNegative' /\ ReadingsCover'
  BY <1>1, TransferFunds, OtherFunds, WithdrawFunds DEF Proceed
<1>2. CASE Sweep \/ (\E u \in Users : Timeout(u)) \/ UNCHANGED vars
  BY <1>2
     DEF Funds, NonNegative, ReadingsCover, Sweep, SweepStart, SweepRow,
         SweepDelete, SweepVerify, SweepVerified, Timeout, vars, ledgerVars
<1>3. CASE Crash
  BY <1>3 DEF Funds, NonNegative, ReadingsCover, Crash
<1> QED
  BY <1>1, <1>2, <1>3 DEF Next

LEMMA FundsInvariant == Spec => []Funds
BY InitFunds, NextFunds, PTL DEF Spec

(* No balance of user_balances is ever negative, whatever interleaves,      *)
(* crashes or fails, and even when updates are lost.                        *)
THEOREM NeverNegative == Spec => []NonNegative
<1>1. Funds => NonNegative
  BY DEF Funds
<1> QED
  BY <1>1, FundsInvariant, PTL

------------------------------------------------------------------------------
(* LocksHeld alone is not inductive.  Nothing in the lock table prevents a  *)
(* withdrawal, the cleanup or the end of a roll from deleting the row of a  *)
(* request that is still inside; the event loop does.  Isolation says what  *)
(* can be runnable at the same time, Shape which steps belong to which      *)
(* request, and together they leave only rolls and fines to interleave      *)
(* with a request that is inside.                                           *)

USE DEF AskSteps

Inside(p) == SendInside(p) \/ RollInside(p)

Holds(p) == \A u \in Guarded(p) \cap Users : locks[u].holder = p

Held == \A p \in Requests : Inside(p) => Holds(p)

(* Where a request of each kind can be, whom it concerns, and that only     *)
(* requests that wait for the chain or for Telegram are not runnable.       *)
ShapeOf(p) ==
  /\ pc[p] = "idle" <=> job[p].kind = "none"
  /\ pc[p] \in AskSteps => p \notin ready
  /\ pc[p] \in {"idle", "asked", "sending", "reply"} \/ p \in ready
  /\ job[p].kind = "send" => /\ pc[p] \in {"asked"} \cup SendSteps
                                              \cup TransferSteps
                             /\ job[p].from \in Users /\ job[p].to \in Users
  /\ job[p].kind = "roll" => /\ pc[p] \in RollSteps \cup TransferSteps
                             /\ job[p].user \in Users
                             /\ {job[p].from, job[p].to}
                                  = {job[p].user, Treasury}
  /\ job[p].kind \in {"fine", "treasury"} => pc[p] \in TransferSteps
  /\ job[p].kind = "withdraw" => pc[p] \in {"asked"} \cup WithdrawSteps

Shape == \A p \in Requests : ShapeOf(p)

(* A drain that no batch has started runs one handler; a batch runs rolls   *)
(* and fines only.                                                          *)
Isolation ==
  /\ ~batch => \A h, g \in ready : h = g
  /\ batch => /\ Cleaner \notin ready
              /\ \A p \in ready :
                   /\ job[p].kind \in {"roll", "fine", "treasury"}
                   /\ pc[p] # "releaseRetry"

Exclusion == Shape /\ Isolation /\ Held

(* The other requests keep their place.                                     *)
Others(p) ==
  \A q \in Requests \ {p} : /\ pc'[q] = pc[q]
                            /\ job'[q] = job[q]
                            /\ q \in ready' <=> q \in ready

------------------------------------------------------------------------------
(* Frames.                                                                  *)

LEMMA InsideIsReady ==
  ASSUME Shape, NEW p \in Requests, Inside(p)
  PROVE  p \in ready
BY DEF Shape, ShapeOf, Inside, SendInside, RollInside, Running, SendSteps,
       RollSteps, TransferSteps

LEMMA ShapeFrame ==
  ASSUME Shape, NEW p \in Requests, Others(p), ShapeOf(p)'
  PROVE  Shape'
<1> SUFFICES ASSUME NEW q \in Requests PROVE ShapeOf(q)'
  BY DEF Shape
<1>1. CASE q = p
  BY <1>1
<1>2. CASE q # p
  <2>1. ShapeOf(q) /\ pc'[q] = pc[q] /\ job'[q] = job[q]
        /\ (q \in ready' <=> q \in ready)
    BY <1>2 DEF Shape, Others
  <2> QED
    BY <2>1 DEF ShapeOf
<1> QED
  BY <1>1, <1>2

(* A step of p inside its drain.                                            *)
LEMMA IsolationFrame ==
  ASSUME TypeOK, Isolation, NEW p \in Requests, Others(p), p \in ready,
         batch' = batch, ready' \subseteq ready,
         p \in ready' => /\ job'[p].kind = job[p].kind
                         /\ batch => pc'[p] # "releaseRetry"
  PROVE  Isolation'
<1>1. CASE ~batch
  BY <1>1 DEF Isolation
<1>2. CASE batch
  <2>1. Cleaner \notin ready' /\ ready' \subseteq Requests
    BY <1>2 DEF Isolation, TypeOK, LoopTypeOK
  <2>2. ASSUME NEW q \in ready'
        PROVE  job'[q].kind \in {"roll", "fine", "treasury"} /\ pc'[q] # "releaseRetry"
    <3>1. CASE q = p
      BY <1>2, <3>1 DEF Isolation
    <3>2. CASE q # p
      BY <1>2, <2>1, <3>2 DEF Isolation, Others
    <3> QED
      BY <3>1, <3>2
  <2> QED
    BY <1>2, <2>1, <2>2 DEF Isolation
<1> QED
  BY <1>1, <1>2

(* A drain that one handler starts.                                         *)
LEMMA IsolationWake ==
  ASSUME NEW h, Wake(h)
  PROVE  Isolation'
BY DEF Wake, Isolation

(* The locks do not change, and p is not deeper inside than before.         *)
LEMMA HeldFrame ==
  ASSUME Held, NEW p \in Requests, Others(p), locks' = locks,
         Inside(p)' => Inside(p) /\ Guarded(p)' \subseteq Guarded(p)
  PROVE  Held'
BY DEF Held, Holds, Others, Inside, SendInside, RollInside, Running, Guarded

(* p runs alone, or nothing runs: only p can be inside afterwards.          *)
LEMMA HeldAlone ==
  ASSUME Shape, Isolation, NEW p \in Requests, Others(p),
         \/ p \in ready /\ ~batch
         \/ ready = {},
         Inside(p)' => Holds(p)'
  PROVE  Held'
<1>1. \A q \in Requests \ {p} : q \notin ready
  BY DEF Isolation
<1>2. \A q \in Requests \ {p} : ~Inside(q)
  BY <1>1, InsideIsReady
<1> QED
  BY <1>2 DEF Held, Others, Inside, SendInside, RollInside, Running

(* A send or a withdrawal that is runnable is alone.                        *)
LEMMA Alone ==
  ASSUME Isolation, NEW p \in ready, job[p].kind \notin {"roll", "fine", "treasury"}
  PROVE  ~batch
BY DEF Isolation

------------------------------------------------------------------------------
(* One lemma per group of actions.                                          *)

LEMMA TransferExclusion ==
  ASSUME TypeOK, Exclusion, NEW p \in Requests, Transfer(p)
  PROVE  Exclusion'
<1> USE DEF Exclusion
<1>1. /\ p \in ready /\ Running(p) /\ locks' = locks
      /\ pc[p] \in TransferSteps
      /\ batch' = batch /\ ready' \subseteq ready
      /\ \A q \in Requests \ {p} : q \in ready' <=> q \in ready
      /\ \A q \in Requests \ {p} : pc'[q] = pc[q] /\ job'[q] = job[q]
  BY DEF Transfer, TransferReadFrom, TransferReadTo, TransferWriteFrom,
         TransferWriteTo, TransferRecord, Continue, Goto, Finish, Tick,
         Suspend, At, Running, TransferSteps, TypeOK
<1>2. Others(p)
  BY <1>1 DEF Others
<1>3. \/ /\ pc'[p] = "idle" /\ job'[p] = IdleJob /\ p \notin ready'
         /\ job[p].kind \notin {"send", "roll"}
      \/ /\ job'[p] = job[p] /\ p \in ready'
         /\ \/ pc'[p] \in TransferSteps
            \/ job[p].kind = "send" /\ pc'[p] = "unlock"
            \/ job[p].kind = "roll" /\ pc'[p] \in {"release", "releaseEnd"}
  BY DEF Transfer, TransferReadFrom, TransferReadTo, TransferWriteFrom,
         TransferWriteTo, TransferRecord, Continue, Goto, Finish, Tick,
         Suspend, At, TransferSteps, TypeOK, AfterTransfer,
         AfterFailedTransfer
<1>4. ShapeOf(p) /\ pc[p] # "idle"
  BY <1>1 DEF Shape, TransferSteps
<1>5. ShapeOf(p)'
  BY <1>1, <1>3, <1>4
     DEF ShapeOf, IdleJob, NewJob, TransferSteps, SendSteps, RollSteps,
         WithdrawSteps
<1>6. Inside(p)' => Inside(p) /\ Guarded(p)' \subseteq Guarded(p)
  BY <1>1, <1>3
     DEF Inside, SendInside, RollInside, Running, Guarded, IdleJob, NewJob,
         TransferSteps
<1>7. Isolation'
  BY <1>1, <1>2, <1>3, IsolationFrame DEF TransferSteps
<1> QED
  BY <1>1, <1>2, <1>5, <1>6, <1>7, ShapeFrame, HeldFrame

LEMMA SendExclusion ==
  ASSUME TypeOK, Exclusion, NEW p \in Requests, Send(p)
  PROVE  Exclusion'
<1> USE DEF Exclusion
<1>1. /\ p \in ready /\ pc[p] \in SendSteps
      /\ batch' = batch /\ ready' \subseteq ready
      /\ \A q \in Requests \ {p} : q \in ready' <=> q \in ready
      /\ \A q \in Requests \ {p} : pc'[q] = pc[q] /\ job'[q] = job[q]
  BY DEF Send, LockReceiver, LockReceiverFails, Unlock, Continue, Goto,
         Finish, Tick, Suspend, At, SendSteps, TypeOK
<1>2. Others(p)
  BY <1>1 DEF Others
<1>3. ShapeOf(p) /\ job[p].kind = "send"
  BY <1>1 DEF Shape, ShapeOf, SendSteps, RollSteps, TransferSteps,
              WithdrawSteps, TypeOK, Jobs
<1>4. ~batch
  BY <1>1, <1>3, Alone
<1>5. \/ /\ pc'[p] = "idle" /\ job'[p] = IdleJob /\ p \notin ready'
      \/ /\ job'[p] = job[p] /\ p \in ready' /\ pc'[p] = "readFrom"
         /\ LockReceiver(p)
  BY DEF Send, LockReceiver, LockReceiverFails, Unlock, Continue, Goto,
         Finish, Tick, Suspend, At, TypeOK
<1>6. ShapeOf(p)'
  BY <1>3, <1>5
     DEF ShapeOf, IdleJob, NewJob, TransferSteps
<1>7. Inside(p)' => Holds(p)'
  <2>1. CASE job'[p] = IdleJob
    BY <2>1 DEF Inside, SendInside, RollInside, IdleJob, NewJob
  <2>2. CASE job'[p] = job[p] /\ pc'[p] = "readFrom" /\ LockReceiver(p)
    <3>1. pc[p] = "lockReceiver" /\ job[p].from \in Users
      BY <2>2, <1>3 DEF LockReceiver, At, ShapeOf
    <3>2. locks[job[p].from].holder = p
      BY <1>3, <3>1
         DEF Held, Inside, SendInside, Running, Holds, Guarded
    <3>3. locks' = [locks EXCEPT ![job[p].to] = NewLock("transfer", p)]
      BY <2>2 DEF LockReceiver, InsertLock
    <3>4. NewLock("transfer", p).holder = p
      BY DEF NewLock
    <3> QED
      BY <2>2, <3>2, <3>3, <3>4 DEF Holds, Guarded, TypeOK, LockTypeOK
  <2> QED
    BY <1>5, <2>1, <2>2
<1>8. Isolation'
  BY <1>1, <1>2, <1>4, <1>5, IsolationFrame
<1> QED
  BY <1>1, <1>2, <1>4, <1>6, <1>7, <1>8, ShapeFrame, HeldAlone

LEMMA RollExclusion ==
  ASSUME TypeOK, Exclusion, NEW p \in Requests, Roll(p)
  PROVE  Exclusion'
<1> USE DEF Exclusion
<1>0. ShapeOf(p) /\ job[p].kind = "roll"
  BY DEF Shape, ShapeOf, Roll, RollCheckUser, RollRefused, RollWon, RollLost,
         RollRelease, RollRelabel, RollReplied, RollReplyFails, At, SendSteps,
         RollSteps, TransferSteps, WithdrawSteps, TypeOK, Jobs
<1>1. CASE RollReplied(p) \/ RollReplyFails(p)
  <2>1. ready = {} /\ Others(p)
    BY <1>1 DEF RollReplied, RollReplyFails, Wake, Others, TypeOK, loopVars
  <2>2. ~Inside(p)'
    BY <1>1, <1>0
       DEF RollReplied, RollReplyFails, Inside, SendInside, RollInside,
           TypeOK, IdleJob, NewJob, Running
  <2>3. ShapeOf(p)'
    BY <1>1, <1>0
       DEF RollReplied, RollReplyFails, Wake, ShapeOf, TypeOK, IdleJob,
           NewJob, RollSteps, loopVars
  <2>4. Isolation'
    BY <1>1, <2>1 DEF RollReplied, RollReplyFails, Wake, Isolation, loopVars
  <2> QED
    BY <2>1, <2>2, <2>3, <2>4, ShapeFrame, HeldAlone
<1>2. CASE ~(RollReplied(p) \/ RollReplyFails(p))
  <2>1. /\ p \in ready
        /\ batch' = batch /\ ready' \subseteq ready
        /\ \A q \in Requests \ {p} : q \in ready' <=> q \in ready
        /\ \A q \in Requests \ {p} : pc'[q] = pc[q] /\ job'[q] = job[q]
    BY <1>2 DEF Roll, RollCheckUser, RollRefused, RollWon, RollLost,
       RollRelease, RollRelabel, Continue, Goto, Finish, Tick, Suspend, At,
       TypeOK
  <2>2. Others(p)
    BY <2>1 DEF Others
  <2>3. CASE RollWon(p)
    <3>1. /\ job'[p].kind = "roll" /\ job'[p].user = job[p].user
          /\ job'[p].from = Treasury /\ job'[p].to = job[p].user
          /\ pc'[p] = "readFrom" /\ pc[p] = "checkTreasury"
          /\ p \in ready' /\ locks' = locks
      BY <1>0, <2>3 DEF RollWon, Goto, Tick, At, TypeOK, Jobs
    <3>2. ShapeOf(p)'
      BY <1>0, <3>1 DEF ShapeOf, TransferSteps
    <3>3. Inside(p)' => Inside(p) /\ Guarded(p)' \subseteq Guarded(p)
      BY <1>0, <3>1 DEF Inside, SendInside, RollInside, Running, Guarded, ShapeOf
    <3> QED
      BY <2>1, <2>2, <3>1, <3>2, <3>3, <1>0, ShapeFrame, IsolationFrame,
         HeldFrame
  <2>4. CASE RollCheckUser(p) \/ RollRefused(p) \/ RollLost(p) \/ RollRelabel(p)
    <3>1. /\ job'[p] = job[p] /\ locks' = locks
          /\ \/ /\ pc[p] \in {"checkUser", "checkTreasury"}
                /\ pc'[p] \in {"checkTreasury", "releaseEnd", "readFrom"}
                /\ p \in ready'
             \/ pc'[p] = "reply" /\ p \notin ready'
      BY <2>4 DEF RollCheckUser, RollRefused, RollLost, RollRelabel, Continue,
                  Goto, Finish, Tick, Suspend, At, TypeOK
    <3>2. ShapeOf(p)'
      BY <1>0, <3>1 DEF ShapeOf, TransferSteps, RollSteps
    <3>3. Inside(p)' => Inside(p) /\ Guarded(p)' \subseteq Guarded(p)
      BY <1>0, <3>1 DEF Inside, SendInside, RollInside, Running, Guarded
    <3> QED
      BY <2>1, <2>2, <3>1, <3>2, <3>3, <1>0, ShapeFrame, IsolationFrame,
         HeldFrame
  <2>5. CASE RollRelease(p)
    <3>1. /\ locks' = [u \in Users |-> IF u = job[p].user THEN NoLock
                                                          ELSE locks[u]]
          /\ \/ /\ pc[p] \in {"release", "releaseEnd"}
             \/ pc[p] = "releaseRetry"
          /\ \/ pc'[p] = "relabel" /\ job'[p] = job[p] /\ p \in ready'
             \/ pc'[p] = "idle" /\ job'[p] = IdleJob /\ p \notin ready'
      BY <2>5 DEF RollRelease, DeleteLocks, Continue, Goto, Finish, Tick,
                  Suspend, At, TypeOK
    <3>2. ShapeOf(p)'
      BY <1>0, <3>1 DEF ShapeOf, RollSteps, IdleJob, NewJob
    <3>3. ~Inside(p)'
      BY <1>0, <3>1
         DEF Inside, SendInside, RollInside, Running, IdleJob, NewJob
    <3>4. Isolation'
      BY <2>1, <2>2, <3>1, IsolationFrame
    <3>5. CASE ~batch
      BY <2>1, <2>2, <3>2, <3>3, <3>4, <3>5, ShapeFrame, HeldAlone
    <3>6. CASE batch
      <4>1. Inside(p) /\ job[p].user \in Guarded(p) \cap Users
        BY <1>0, <2>1, <3>1, <3>6
           DEF Inside, RollInside, Guarded, ShapeOf, Isolation
      <4>2. locks[job[p].user].holder = p
        BY <4>1 DEF Held, Holds
      <4>3. ASSUME NEW q \in Requests, q # p, Inside(q)',
                   NEW u \in Guarded(q)' \cap Users
            PROVE  locks'[u].holder = q
        <5>1. Inside(q) /\ u \in Guarded(q)
          BY <2>2, <4>3
             DEF Others, Inside, SendInside, RollInside, Running, Guarded
        <5>2. locks[u].holder = q
          BY <5>1 DEF Held, Holds
        <5> QED
          BY <3>1, <4>2, <4>3, <5>2
      <4>4. Held'
        BY <3>3, <4>3 DEF Held, Holds
      <4> QED
        BY <2>2, <3>2, <3>4, <4>4, ShapeFrame
    <3> QED
      BY <3>5, <3>6
  <2> QED
    BY <1>2, <2>3, <2>4, <2>5 DEF Roll
<1> QED
  BY <1>1, <1>2

LEMMA WithdrawExclusion ==
  ASSUME TypeOK, Exclusion, NEW p \in Requests, Withdraw(p)
  PROVE  Exclusion'
<1> USE DEF Exclusion
<1>1. /\ p \in ready /\ pc[p] \in WithdrawSteps
      /\ batch' = batch /\ ready' \subseteq ready
      /\ \A q \in Requests \ {p} : q \in ready' <=> q \in ready
      /\ \A q \in Requests \ {p} : pc'[q] = pc[q] /\ job'[q] = job[q]
  BY DEF Withdraw, StealLock, LockWithdrawal, DebitUser, RecordDebitUser,
         StoreHash, Settle, PayGas, RecordGas, Refund, RecordRefund,
         UnlockWithdrawal, Continue, Goto, Finish, Tick, Suspend, At,
         WithdrawSteps, TypeOK
<1>2. Others(p)
  BY <1>1 DEF Others
<1>3. ShapeOf(p) /\ job[p].kind = "withdraw"
  BY <1>1 DEF Shape, ShapeOf, SendSteps, RollSteps, TransferSteps,
              WithdrawSteps, TypeOK, Jobs
<1>4. ~batch
  BY <1>1, <1>3, Alone
<1>5. \/ pc'[p] = "idle" /\ job'[p] = IdleJob /\ p \notin ready'
      \/ /\ job'[p] = job[p]
         /\ \/ pc'[p] \in WithdrawSteps /\ p \in ready'
            \/ pc'[p] = "sending" /\ p \notin ready'
  BY DEF Withdraw, StealLock, LockWithdrawal, DebitUser, RecordDebitUser,
         StoreHash, Settle, PayGas, RecordGas, Refund, RecordRefund,
         UnlockWithdrawal, Continue, Goto, Finish, Tick, Suspend, At,
         WithdrawSteps, TypeOK
<1>6. ShapeOf(p)'
  BY <1>3, <1>5 DEF ShapeOf, IdleJob, NewJob, WithdrawSteps
<1>7. ~Inside(p)'
  BY <1>3, <1>5 DEF Inside, SendInside, RollInside, IdleJob, NewJob
<1>8. Isolation'
  BY <1>1, <1>2, <1>3, <1>4, <1>5, IsolationFrame DEF IdleJob, NewJob
<1> QED
  BY <1>1, <1>2, <1>4, <1>6, <1>7, <1>8, ShapeFrame, HeldAlone

(* The answer of sendTokens, and the chain behind it.                       *)
LEMMA ChainExclusion ==
  ASSUME TypeOK, Exclusion, NEW p \in Requests, SendTokens(p) \/ Land(p)
  PROVE  Exclusion'
<1> USE DEF Exclusion
<1>1. ShapeOf(p) /\ job[p].kind = "withdraw" /\ pc[p] = "sending"
  BY DEF Shape, ShapeOf, SendTokens, SendReturns, SendThrows, Land, SendSteps,
         RollSteps, TransferSteps, TypeOK, Jobs
<1>2. job'[p].kind = "withdraw" /\ pc'[p] \in WithdrawSteps /\ locks' = locks
  <2>1. CASE SendTokens(p)
    BY <1>1, <2>1 DEF SendTokens, SendReturns, SendThrows, TypeOK, WithdrawSteps
  <2>2. CASE Land(p)
    <3>1. pc' = pc /\ locks' = locks
      BY <2>2 DEF Land
    <3>2. \E f \in {"landed", "rejected"} :
            job' = [job EXCEPT ![p] = [job[p] EXCEPT !.fate = f]]
      BY <2>2 DEF Land
    <3>3. job[p] \in Jobs
      BY DEF TypeOK
    <3>4. job'[p].kind = "withdraw"
      BY <1>1, <3>2, <3>3 DEF TypeOK, Jobs
    <3> QED
      BY <1>1, <3>1, <3>4 DEF WithdrawSteps
  <2> QED
    BY <2>1, <2>2
<1>3. ~Inside(p)'
  BY <1>2 DEF Inside, SendInside, RollInside
<1>4. CASE SendTokens(p)
  <2>1. ready = {} /\ ready' = {p} /\ Wake(p) /\ Others(p)
    BY <1>4 DEF SendTokens, SendReturns, SendThrows, Wake, Others, TypeOK
  <2>2. ShapeOf(p)'
    BY <1>2, <2>1 DEF ShapeOf, WithdrawSteps
  <2> QED
    BY <1>3, <2>1, <2>2, ShapeFrame, IsolationWake, HeldAlone
<1>5. CASE Land(p)
  <2>1. ready' = ready /\ batch' = batch /\ pc' = pc /\ Others(p)
    BY <1>5 DEF Land, Others, TypeOK, loopVars
  <2>2. ShapeOf(p)'
    BY <1>1, <1>2, <2>1 DEF ShapeOf, WithdrawSteps
  <2>3. Isolation'
    <3>1. CASE p \in ready
      BY <1>1, <1>2, <2>1, <3>1, IsolationFrame
    <3>2. CASE p \notin ready
      <4>1. \A q \in ready \cap Requests : pc'[q] = pc[q] /\ job'[q] = job[q]
        BY <2>1, <3>2 DEF Others
      <4> QED
        BY <2>1, <4>1 DEF Isolation, TypeOK, LoopTypeOK
    <3> QED
      BY <3>1, <3>2
  <2> QED
    BY <1>2, <1>3, <2>1, <2>2, <2>3, ShapeFrame, HeldFrame
<1> QED
  BY <1>4, <1>5

(* A command that takes no lock begins.                                     *)
LEMMA UnlockedBegins ==
  ASSUME TypeOK, NEW p \in Requests, NEW j, Unlocked(p, j)
  PROVE  /\ ready = {} \/ batch
         /\ ready' = ready \cup {p} /\ batch' = TRUE
         /\ \A q \in Requests \ {p} : pc'[q] = pc[q] /\ job'[q] = job[q]
         /\ job'[p] = j /\ pc'[p] = "readFrom" /\ locks' = locks
BY DEF Unlocked, Arrive, Start, TypeOK

LEMMA BeginExclusion ==
  ASSUME TypeOK, Exclusion, NEW p \in Requests, Begin(p)
  PROVE  Exclusion'
<1> USE DEF Exclusion
<1>0. pc[p] = "idle" /\ p \notin ready /\ job[p].kind = "none"
  BY DEF Begin, Ask, BeginRoll, BeginFine, FundTreasury, WithdrawTreasury,
         Unlocked, Start, Running, Shape, ShapeOf, AskSteps
<1>1. ASSUME NEW kind \in {"send", "withdraw"}, NEW u \in Users,
             NEW v \in Users, NEW amt \in Amounts, Ask(p, kind, u, v, amt)
      PROVE  Exclusion'
  <2>1. /\ ready' = ready /\ batch' = batch /\ locks' = locks
        /\ pc'[p] = "asked" /\ job'[p] = NewJob(kind, u, v, amt)
        /\ \A q \in Requests \ {p} : pc'[q] = pc[q] /\ job'[q] = job[q]
    BY <1>1 DEF Ask, Pass, Start, TypeOK
  <2>2. Others(p)
    BY <2>1 DEF Others
  <2>3. ShapeOf(p)' /\ ~Inside(p)'
    BY <1>0, <2>1
       DEF ShapeOf, NewJob, AskSteps, Inside, SendInside, RollInside
  <2>4. Isolation'
    <3>1. \A q \in ready \cap Requests : pc'[q] = pc[q] /\ job'[q] = job[q]
      BY <1>0, <2>2 DEF Others
    <3> QED
      BY <2>1, <3>1 DEF Isolation, TypeOK, LoopTypeOK
  <2> QED
    BY <2>1, <2>2, <2>3, <2>4, ShapeFrame, HeldFrame
<1>3. ASSUME NEW u \in Users, NEW amt \in Amounts,
             \/ BeginRoll(p, u, amt) \/ BeginFine(p, u, amt)
             \/ FundTreasury(p, u, amt) \/ WithdrawTreasury(p, u, amt)
      PROVE  Exclusion'
  <2>1. /\ ready = {} \/ batch
        /\ ready' = ready \cup {p} /\ batch' = TRUE
        /\ \A q \in Requests \ {p} : pc'[q] = pc[q] /\ job'[q] = job[q]
        /\ \/ /\ job'[p] = NewJob("roll", u, Treasury, amt)
              /\ pc'[p] = "checkUser"
              /\ ~HasLock(u)
              /\ locks' = [locks EXCEPT ![u] = NewLock("gambling_roll", p)]
           \/ /\ job'[p].kind \in {"fine", "treasury"}
              /\ pc'[p] = "readFrom"
              /\ locks' = locks
    <3>1. CASE BeginRoll(p, u, amt)
      BY <3>1 DEF BeginRoll, Arrive, Start, InsertLock, TypeOK
    <3>2. CASE BeginFine(p, u, amt)
      <4>1. NewJob("fine", u, Treasury, amt).kind = "fine"
        BY DEF NewJob
      <4> QED
        BY <3>2, <4>1, UnlockedBegins DEF BeginFine
    <3>3. CASE FundTreasury(p, u, amt)
      <4>1. NewJob("treasury", u, Treasury, amt).kind = "treasury"
        BY DEF NewJob
      <4> QED
        BY <3>3, <4>1, UnlockedBegins DEF FundTreasury
    <3>4. CASE WithdrawTreasury(p, u, amt)
      <4>1. [NewJob("treasury", u, u, amt) EXCEPT !.from = Treasury].kind
              = "treasury"
        BY DEF NewJob
      <4> QED
        BY <3>4, <4>1, UnlockedBegins DEF WithdrawTreasury
    <3> QED
      BY <1>3, <3>1, <3>2, <3>3, <3>4
  <2>2. Others(p)
    BY <2>1 DEF Others
  <2>3. ShapeOf(p)'
    BY <2>1 DEF ShapeOf, NewJob, RollSteps, TransferSteps
  <2>4. Isolation'
    <3>1. Cleaner \notin ready'
      BY <2>1, NamesAssumption DEF Isolation
    <3>2. ready' \subseteq Requests
      BY <2>1, <3>1 DEF Isolation, TypeOK, LoopTypeOK
    <3>3. ASSUME NEW q \in ready'
          PROVE  job'[q].kind \in {"roll", "fine", "treasury"} /\ pc'[q] # "releaseRetry"
      BY <2>1, <3>2, <3>3 DEF Isolation, NewJob
    <3> QED
      BY <2>1, <3>1, <3>3 DEF Isolation
  <2>5. Inside(p)' => Holds(p)'
    BY <2>1, NamesAssumption
       DEF Inside, SendInside, RollInside, Holds, Guarded, NewJob, NewLock,
           TypeOK, LockTypeOK
  <2>6. ASSUME NEW q \in Requests, q # p, Inside(q)',
               NEW w \in Guarded(q)' \cap Users
        PROVE  locks'[w].holder = q
    <3>1. Inside(q) /\ w \in Guarded(q)
      BY <2>2, <2>6
         DEF Others, Inside, SendInside, RollInside, Running, Guarded
    <3>2. locks[w].holder = q
      BY <3>1 DEF Held, Holds
    <3>3. HasLock(w)
      BY <3>2, NoRequestAssumption DEF HasLock, NoLock
    <3>4. locks \in [Users -> Locks] /\ w \in Users
      BY DEF TypeOK, LockTypeOK
    <3>5. CASE locks' = locks
      BY <3>2, <3>5
    <3>6. CASE ~HasLock(u) /\ locks' = [locks EXCEPT ![u] = NewLock("gambling_roll", p)]
      <4>1. w # u
        BY <3>3, <3>6
      <4> QED
        BY <3>2, <3>4, <3>6, <4>1
    <3> QED
      BY <2>1, <3>5, <3>6
  <2> QED
    BY <2>2, <2>3, <2>4, <2>5, <2>6, ShapeFrame DEF Held, Holds
<1> QED
  BY <1>1, <1>3 DEF Begin

(* The first reply is out, and the wallet starts alone in its drain.        *)
LEMMA AnsweredExclusion ==
  ASSUME TypeOK, Exclusion, NEW p \in Requests, Answered(p)
  PROVE  Exclusion'
<1> USE DEF Exclusion
<1>0. pc[p] = "asked" /\ ready = {} /\ ShapeOf(p)
  BY DEF Answered, BeginSend, BeginWithdraw, Refuse, Wake, Shape
<1>1. CASE BeginSend(p)
  <2>1. /\ ready' = {p} /\ Wake(p) /\ job' = job /\ job[p].kind = "send"
        /\ pc' = [pc EXCEPT ![p] = "lockReceiver"]
        /\ locks' = [locks EXCEPT ![job[p].from] = NewLock("transfer", p)]
    BY <1>1 DEF BeginSend, Wake, InsertLock
  <2>2. Others(p)
    BY <1>0, <2>1 DEF Others, TypeOK
  <2>3. ShapeOf(p)'
    BY <1>0, <2>1 DEF ShapeOf, AskSteps, SendSteps, TypeOK
  <2>4. Holds(p)'
    BY <1>0, <2>1
       DEF Holds, Guarded, NewLock, ShapeOf, TypeOK, LockTypeOK
  <2> QED
    BY <1>0, <2>1, <2>2, <2>3, <2>4, ShapeFrame, IsolationWake, HeldAlone
<1>2. CASE BeginWithdraw(p)
  <2>1. /\ ready' = {p} /\ Wake(p) /\ job' = job /\ job[p].kind = "withdraw"
        /\ pc'[p] \in {"steal", "lock"}
        /\ \A q \in Requests \ {p} : pc'[q] = pc[q]
    BY <1>2 DEF BeginWithdraw, Wake, TypeOK
  <2>2. Others(p)
    BY <1>0, <2>1 DEF Others
  <2>3. ShapeOf(p)' /\ ~Inside(p)'
    BY <1>0, <2>1
       DEF ShapeOf, AskSteps, WithdrawSteps, Inside, SendInside, RollInside
  <2> QED
    BY <1>0, <2>1, <2>2, <2>3, ShapeFrame, IsolationWake, HeldAlone
<1>3. CASE Refuse(p)
  <2>1. /\ ready' = {} /\ batch' = batch
        /\ pc' = [pc EXCEPT ![p] = "idle"]
        /\ job' = [job EXCEPT ![p] = IdleJob]
    BY <1>0, <1>3 DEF Refuse, loopVars
  <2>2. Others(p)
    BY <1>0, <2>1 DEF Others, TypeOK
  <2>3. ShapeOf(p)' /\ ~Inside(p)'
    BY <2>1 DEF ShapeOf, AskSteps, IdleJob, NewJob, Inside, SendInside,
                RollInside, TypeOK
  <2>4. Isolation'
    BY <2>1 DEF Isolation
  <2> QED
    BY <1>0, <2>2, <2>3, <2>4, ShapeFrame, HeldAlone
<1> QED
  BY <1>1, <1>2, <1>3 DEF Answered

(* The cleanup runs alone, time moves only between drains, and nothing      *)
(* survives a crash.                                                        *)
LEMMA RestExclusion ==
  ASSUME TypeOK, Exclusion,
         Sweep \/ (\E u \in Users : Timeout(u)) \/ Crash
  PROVE  Exclusion'
<1> USE DEF Exclusion
<1>1. CASE Sweep
  <2>1. pc' = pc /\ job' = job
    BY <1>1 DEF Sweep, SweepStart, SweepRow, SweepDelete, SweepVerify,
                SweepVerified
  <2>2. ready = {} \/ Cleaner \in ready
    BY <1>1 DEF Sweep, SweepStart, SweepRow, SweepVerify, SweepVerified, Wake
  <2>3. /\ \A p \in Requests : p \notin ready
        /\ ready' \subseteq {Cleaner} /\ batch' \in {batch, FALSE}
        /\ ready' # {} => ~batch'
    BY <1>1, <2>2, NamesAssumption
       DEF Sweep, SweepStart, SweepRow, SweepVerify, SweepVerified, Wake, Tick,
           Suspend, Isolation
  <2>4. Shape'
    BY <2>1, <2>3, NamesAssumption DEF Shape, ShapeOf
  <2>5. \A p \in Requests : ~Inside(p)'
    BY <2>1, <2>3, InsideIsReady
       DEF Inside, SendInside, RollInside, Running
  <2>6. Isolation'
    BY <2>3 DEF Isolation
  <2> QED
    BY <2>4, <2>5, <2>6 DEF Held
<1>2. ASSUME NEW u \in Users, Timeout(u)
      PROVE  Exclusion'
  <2>1. /\ pc' = pc /\ job' = job /\ ready = {}
        /\ ready' = ready /\ batch' = batch
    BY <1>2 DEF Timeout, Environment, loopVars
  <2>2. Shape' /\ Isolation'
    BY <2>1 DEF Shape, ShapeOf, Isolation
  <2>3. \A p \in Requests : ~Inside(p)'
    BY <2>1, InsideIsReady DEF Inside, SendInside, RollInside, Running
  <2> QED
    BY <2>2, <2>3 DEF Held
<1>3. CASE Crash
  <2>1. /\ ready' = {} /\ batch' = FALSE
        /\ \A p \in Requests : pc'[p] = "idle" /\ job'[p] = IdleJob
    BY <1>3 DEF Crash, Halt
  <2>2. Shape' /\ Isolation'
    BY <2>1 DEF Shape, ShapeOf, Isolation, IdleJob, NewJob
  <2>3. \A p \in Requests : ~Inside(p)'
    BY <2>1 DEF Inside, SendInside, RollInside, IdleJob, NewJob
  <2> QED
    BY <2>2, <2>3 DEF Held
<1> QED
  BY <1>1, <1>2, <1>3

------------------------------------------------------------------------------
(* The theorem.  One statement that throws is enough to break Exclusion     *)
(* (the catch of /roll deletes whatever lock the user has), so it is        *)
(* claimed until the first one.                                             *)
LocksInv == TypeOK /\ (used.errors = 0 => Exclusion)

LEMMA InitLocks == Init => LocksInv
<1> SUFFICES ASSUME Init PROVE Exclusion
  BY InitType DEF LocksInv
<1>1. ready = {} /\ batch = FALSE
  BY DEF Init, LoopInit
<1>2. \A p \in Requests : pc[p] = "idle" /\ job[p] = IdleJob
  BY DEF Init
<1> QED
  BY <1>1, <1>2
     DEF Exclusion, Shape, ShapeOf, Isolation, Held, Inside, SendInside,
         RollInside, IdleJob, NewJob

LEMMA NextLocks == LocksInv /\ [Next]_vars => LocksInv'
<1> SUFFICES ASSUME LocksInv, [Next]_vars, used'.errors = 0
             PROVE  Exclusion'
  BY NextType DEF LocksInv
<1>1. TypeOK
  BY DEF LocksInv
<1>2. ASSUME NEW p \in Requests, StatementFails(p)
      PROVE  FALSE
  BY <1>1, <1>2 DEF StatementFails, TypeOK
<1>3. CASE UNCHANGED vars
  BY <1>3
     DEF LocksInv, vars, Exclusion, Shape, ShapeOf, Isolation, Held, Holds,
         Inside, SendInside, RollInside, Running, Guarded
<1>4. ASSUME NEW p \in Requests, Begin(p) \/ Proceed(p) \/ Land(p)
      PROVE  Exclusion'
  <2>1. used.errors = 0
    BY <1>1, <1>4
       DEF Begin, Ask, BeginRoll, BeginFine, FundTreasury,
           WithdrawTreasury, Unlocked, Start, Proceed, Answered,
           BeginSend, BeginWithdraw, Refuse, Transfer, TransferReadFrom, TransferReadTo,
           TransferWriteFrom, TransferWriteTo, TransferRecord, Send,
           LockReceiver, LockReceiverFails, Unlock, Roll, RollCheckUser,
           RollRefused, RollWon, RollLost, RollRelease, RollRelabel,
           RollReplied, RollReplyFails, Withdraw, StealLock, LockWithdrawal,
           DebitUser, RecordDebitUser, StoreHash, Settle, PayGas, RecordGas,
           Refund, RecordRefund, UnlockWithdrawal, SendTokens, SendReturns,
           SendThrows, Land, Environment, TypeOK
  <2>2. Exclusion
    BY <2>1 DEF LocksInv
  <2> QED
    BY <1>1, <1>4, <2>2, BeginExclusion, AnsweredExclusion,
       TransferExclusion, SendExclusion, RollExclusion, WithdrawExclusion, ChainExclusion DEF Proceed
<1>5. CASE Sweep \/ (\E u \in Users : Timeout(u)) \/ Crash
  <2>1. used.errors = 0
    BY <1>1, <1>5
       DEF Sweep, SweepStart, SweepRow, SweepDelete, SweepVerify,
           SweepVerified, Timeout, Crash, Environment, TypeOK
  <2> QED
    BY <1>1, <1>5, <2>1, RestExclusion DEF LocksInv
<1> QED
  BY <1>2, <1>3, <1>4, <1>5 DEF Next

LEMMA LocksInvariant == Spec => []LocksInv
BY InitLocks, NextLocks, PTL DEF Spec

(* While a /send or a /roll is between its lock and its release, the rows   *)
(* of the users it concerns stay its own, through any number of crashes,    *)
(* sweeps, stolen locks and interleaved rolls, fines and treasury commands. *)
THEOREM LocksStayHeld == Spec => []LocksHeld
<1>1. Spec => []LocksInv
  BY LocksInvariant
<1>2. LocksInv => LocksHeld
  BY DEF LocksInv, Exclusion, Held, Holds, Inside, LocksHeld
<1> QED
  BY <1>1, <1>2, PTL

=============================================================================
