-------------------------- MODULE WalletLedgerProofs --------------------------
(***************************************************************************)
(* What Wallet keeps true of its tables as long as nothing fails, for      *)
(* every value of its constants: no transfer or roll lock is left behind,  *)
(* and between drains every balance is what the log says.                  *)
(***************************************************************************)
EXTENDS WalletProofs

USE DEF AskSteps

(* A step of p is a step of nobody else.                                    *)
LEMMA OthersFrame ==
  ASSUME TypeOK, NEW p \in Requests, Begin(p) \/ Proceed(p) \/ Land(p)
  PROVE  Others(p)
<1> USE DEF Others, TypeOK, Continue, Goto, Finish, Tick, Suspend, Wake,
            loopVars
<1>1. CASE Begin(p)
  BY <1>1 DEF Begin, Ask, Pass, BeginRoll, BeginFine, FundTreasury,
              WithdrawTreasury, Unlocked, Arrive, Start
<1>2. CASE Answered(p) \/ SendTokens(p) \/ Land(p)
  BY <1>2 DEF Answered, BeginSend, BeginWithdraw, Refuse, SendTokens,
              SendReturns, SendThrows, Land
<1>3. CASE Transfer(p) \/ Send(p)
  BY <1>3 DEF Transfer, TransferReadFrom, TransferReadTo, TransferWriteFrom,
              TransferWriteTo, TransferRecord, Send, LockReceiver,
              LockReceiverFails, Unlock
<1>4. CASE Roll(p)
  BY <1>4 DEF Roll, RollCheckUser, RollRefused, RollWon, RollLost,
              RollRelease, RollRelabel, RollReplied, RollReplyFails
<1>5. CASE Withdraw(p)
  BY <1>5 DEF Withdraw, StealLock, LockWithdrawal, DebitUser, RecordDebitUser,
              StoreHash, Settle, PayGas, RecordGas, Refund, RecordRefund,
              UnlockWithdrawal
<1> QED
  BY <1>1, <1>2, <1>3, <1>4, <1>5 DEF Proceed

------------------------------------------------------------------------------
(* No lock is left behind.  Every transfer or roll lock belongs to the      *)
(* request that made it, of the kind that makes such locks.                 *)

Owns(p, u) ==
  /\ locks[u].holder = p
  /\ Inside(p) /\ u \in Guarded(p)
  /\ job[p].kind = IF locks[u].type = "transfer" THEN "send" ELSE "roll"

Owned ==
  \A u \in Users : locks[u].type \in {"transfer", "gambling_roll"} =>
    \E p \in Requests : Owns(p, u)

LEMMA OwnedFrame ==
  ASSUME Owned, NEW p \in Requests, Others(p),
         \A u \in Users :
           locks'[u].type \in {"transfer", "gambling_roll"} =>
             \/ Owns(p, u)'
             \/ /\ locks[u].holder # p
                /\ locks'[u].type = locks[u].type
                /\ locks'[u].holder = locks[u].holder
  PROVE  Owned'
<1> SUFFICES ASSUME NEW u \in Users,
                    locks'[u].type \in {"transfer", "gambling_roll"},
                    locks[u].holder # p,
                    locks'[u].type = locks[u].type,
                    locks'[u].holder = locks[u].holder
             PROVE  \E q \in Requests : Owns(q, u)'
  BY DEF Owned
<1>1. PICK q \in Requests : Owns(q, u)
  BY DEF Owned
<1>2. q # p
  BY <1>1 DEF Owns
<1>3. Owns(q, u)'
  BY <1>1, <1>2
     DEF Owns, Others, Inside, SendInside, RollInside, Guarded
<1> QED
  BY <1>3

(* The locks stay, and p stays inside or was not.                           *)
LEMMA OwnedSameLocks ==
  ASSUME Owned, NEW p \in Requests, Others(p),
         \A u \in Users : /\ locks'[u].type = locks[u].type
                          /\ locks'[u].holder = locks[u].holder,
         Inside(p) => /\ Inside(p)' /\ Guarded(p) \subseteq Guarded(p)'
                      /\ job'[p].kind = job[p].kind
  PROVE  Owned'
<1>1. ASSUME NEW u \in Users,
             locks'[u].type \in {"transfer", "gambling_roll"},
             locks[u].holder = p
      PROVE  Owns(p, u)'
  <2>1. Owns(p, u)
    BY <1>1 DEF Owned, Owns
  <2> QED
    BY <2>1 DEF Owns
<1> QED
  BY <1>1, OwnedFrame

(* p leaves and takes its locks with it; other rows may go as well.         *)
LEMMA OwnedRelease ==
  ASSUME Owned, NEW p \in Requests, Others(p),
         \A u \in Users :
           \/ locks'[u] = NoLock
           \/ locks'[u] = locks[u]
                /\ (locks[u].type \in {"transfer", "gambling_roll"}
                      => ~Owns(p, u))
  PROVE  Owned'
<1>1. ASSUME NEW u \in Users,
             locks'[u].type \in {"transfer", "gambling_roll"}
      PROVE  /\ locks[u].holder # p
             /\ locks'[u] = locks[u]
  BY <1>1 DEF Owned, Owns, NoLock
<1> QED
  BY <1>1, OwnedFrame

LEMMA OwnedStep ==
  ASSUME TypeOK, Exclusion, Owned, NEW p \in Requests,
         Begin(p) \/ Proceed(p) \/ Land(p)
  PROVE  Owned'
<1> USE DEF Exclusion
<1>0. Others(p) /\ ShapeOf(p)
  BY OthersFrame DEF Shape
<1>a. locks \in [Users -> Locks] /\ job[p] \in Jobs
      /\ pc \in [Requests -> Steps] /\ job \in [Requests -> Jobs]
  BY DEF TypeOK, LockTypeOK
<1>1. CASE Begin(p)
  <2>1. pc[p] = "idle" /\ ~Inside(p)
    BY <1>0, <1>1
       DEF Begin, Ask, BeginRoll, BeginFine, FundTreasury, WithdrawTreasury,
           Unlocked, Start, Running, ShapeOf, Inside, SendInside, RollInside
  <2>2. CASE locks' = locks
    BY <1>0, <2>1, <2>2, OwnedSameLocks
  <2>3. ASSUME NEW u \in Users, NEW amt \in Amounts, BeginRoll(p, u, amt)
        PROVE  Owned'
    <3>1. /\ locks' = [locks EXCEPT ![u] = NewLock("gambling_roll", p)]
          /\ job'[p] = NewJob("roll", u, Treasury, amt)
          /\ pc'[p] = "checkUser"
      BY <1>a, <2>3 DEF BeginRoll, InsertLock, Start
    <3>2. Owns(p, u)'
      BY <1>a, <3>1
         DEF Owns, Inside, RollInside, Guarded, NewLock, NewJob
    <3>3. \A v \in Users \ {u} : locks'[v] = locks[v]
      BY <1>a, <3>1
    <3>4. \A v \in Users : locks[v].type \in {"transfer", "gambling_roll"}
                             => locks[v].holder # p
      BY <2>1 DEF Owned, Owns
    <3> QED
      BY <1>0, <3>2, <3>3, <3>4, OwnedFrame
  <2> QED
    BY <1>1, <2>2, <2>3
       DEF Begin, Ask, BeginFine, FundTreasury, WithdrawTreasury, Unlocked
<1>2. CASE BeginSend(p)
  <2>1. /\ locks' = [locks EXCEPT ![job[p].from] = NewLock("transfer", p)]
        /\ job' = job /\ job[p].kind = "send" /\ pc[p] = "asked"
        /\ pc'[p] = "lockReceiver"
    BY <1>a, <1>2 DEF BeginSend, InsertLock
  <2>2. PICK u \in Users : u = job[p].from
    BY <1>0, <2>1 DEF ShapeOf
  <2>3. Owns(p, u)'
    BY <1>a, <2>1, <2>2 DEF Owns, Inside, SendInside, Guarded, NewLock
  <2>4. \A v \in Users \ {u} : locks'[v] = locks[v]
    BY <1>a, <2>1, <2>2
  <2>5. ~Inside(p)
    BY <2>1 DEF Inside, SendInside, RollInside
  <2>6. \A v \in Users : locks[v].type \in {"transfer", "gambling_roll"}
                           => locks[v].holder # p
    BY <2>5 DEF Owned, Owns
  <2> QED
    BY <1>0, <2>3, <2>4, <2>6, OwnedFrame
<1>3. CASE BeginWithdraw(p) \/ Refuse(p) \/ SendTokens(p) \/ Land(p)
  <2>1. locks' = locks
    BY <1>3 DEF BeginWithdraw, Refuse, SendTokens, SendReturns, SendThrows,
                Land
  <2>2. ~Inside(p)
    BY <1>0, <1>3
       DEF BeginWithdraw, Refuse, SendTokens, SendReturns, SendThrows, Land,
           Inside, SendInside, RollInside, ShapeOf, SendSteps, RollSteps,
           TransferSteps
  <2> QED
    BY <1>0, <2>1, <2>2, OwnedSameLocks
<1>4. CASE Transfer(p)
  <2>1. /\ locks' = locks /\ pc[p] \in TransferSteps
        /\ \/ pc'[p] = "idle" /\ job[p].kind \notin {"send", "roll"}
           \/ /\ job'[p] = job[p]
              /\ \/ pc'[p] \in TransferSteps
                 \/ job[p].kind = "send" /\ pc'[p] = "unlock"
                 \/ job[p].kind = "roll" /\ pc'[p] \in {"release", "releaseEnd"}
    BY <1>4 DEF Transfer, TransferReadFrom, TransferReadTo, TransferWriteFrom,
                TransferWriteTo, TransferRecord, Continue, Goto, Finish, At,
                TransferSteps, TypeOK, AfterTransfer, AfterFailedTransfer
  <2>2. Inside(p) => /\ Inside(p)' /\ Guarded(p) \subseteq Guarded(p)'
                     /\ job'[p].kind = job[p].kind
    BY <2>1 DEF Inside, SendInside, RollInside, Guarded, TransferSteps
  <2> QED
    BY <1>0, <2>1, <2>2, OwnedSameLocks
<1>5. CASE LockReceiver(p)
  <2>1. /\ locks' = [locks EXCEPT ![job[p].to] = NewLock("transfer", p)]
        /\ job'[p] = job[p] /\ pc[p] = "lockReceiver"
        /\ pc'[p] = "readFrom"
    BY <1>a, <1>5 DEF LockReceiver, InsertLock, Continue, Goto, At
  <2>2. job[p].kind = "send"
    BY <1>0, <1>a, <2>1
       DEF ShapeOf, Jobs, RollSteps, TransferSteps, WithdrawSteps
  <2>3. PICK u \in Users : u = job[p].to
    BY <1>0, <2>2 DEF ShapeOf
  <2>4. Owns(p, u)'
    BY <1>a, <2>1, <2>2, <2>3 DEF Owns, Inside, SendInside, Guarded, NewLock
  <2>5. ASSUME NEW v \in Users \ {u},
               locks[v].type \in {"transfer", "gambling_roll"},
               locks[v].holder = p
        PROVE  Owns(p, v)'
    <3>1. Owns(p, v)
      BY <2>5 DEF Owned, Owns
    <3>2. locks'[v] = locks[v]
      BY <1>a, <2>1, <2>3
    <3> QED
      BY <2>1, <2>2, <3>1, <3>2
         DEF Owns, Inside, SendInside, RollInside, Guarded
  <2>6. \A v \in Users \ {u} : locks'[v] = locks[v]
    BY <1>a, <2>1, <2>3
  <2> QED
    BY <1>0, <2>4, <2>5, <2>6, OwnedFrame
<1>6. CASE LockReceiverFails(p) \/ Unlock(p)
  <2>1. pc[p] \in {"lockReceiver", "unlock", "unlockRetry"}
    BY <1>6 DEF LockReceiverFails, Unlock, At
  <2>2. job[p].kind = "send"
    BY <1>0, <1>a, <2>1
       DEF ShapeOf, Jobs, RollSteps, TransferSteps, WithdrawSteps
  <2>3. \A u \in Users : Owns(p, u) =>
          u \in {job[p].from, job[p].to} /\ locks[u].type # "gambling_roll"
    BY <2>2 DEF Owns, Guarded
  <2>4. \A u \in Users : \/ locks'[u] = NoLock
                         \/ /\ locks'[u] = locks[u]
                            /\ \/ u \notin {job[p].from, job[p].to}
                               \/ locks[u].type # "transfer"
    BY <1>6 DEF LockReceiverFails, Unlock, DeleteLocks, ReleaseTransferLocks
  <2> QED
    BY <1>0, <2>3, <2>4, OwnedRelease
<1>7. CASE RollRelease(p)
  <2>1. job[p].kind = "roll"
    BY <1>0, <1>a, <1>7
       DEF ShapeOf, Jobs, RollRelease, At, SendSteps, TransferSteps,
           WithdrawSteps
  <2>2. \A u \in Users : u = job[p].user \/ ~Owns(p, u)
    BY <1>0, <2>1, NamesAssumption DEF Owns, Guarded, ShapeOf
  <2>3. \A u \in Users : locks'[u] = IF u = job[p].user THEN NoLock
                                     ELSE locks[u]
    BY <1>7 DEF RollRelease, DeleteLocks
  <2> QED
    BY <1>0, <2>2, <2>3, OwnedRelease
<1>8. CASE RollWon(p)
  <2>1. job[p].kind = "roll"
    BY <1>0, <1>a, <1>8
       DEF ShapeOf, Jobs, RollWon, At, SendSteps, TransferSteps, WithdrawSteps
  <2>2. /\ job'[p].kind = "roll" /\ job'[p].from = Treasury
        /\ job'[p].to = job[p].user /\ locks' = locks
        /\ pc'[p] = "readFrom" /\ pc[p] = "checkTreasury"
    BY <1>a, <1>8, <2>1 DEF RollWon, Goto, At, Jobs
  <2>3. Inside(p)' /\ Guarded(p) \subseteq Guarded(p)'
    BY <1>0, <2>1, <2>2 DEF Inside, RollInside, Guarded, ShapeOf
  <2> QED
    BY <1>0, <2>1, <2>2, <2>3, OwnedSameLocks
<1>9. CASE Roll(p) /\ ~RollRelease(p) /\ ~RollWon(p)
  <2>1. job[p].kind = "roll"
    BY <1>0, <1>a, <1>9
       DEF ShapeOf, Jobs, Roll, RollCheckUser, RollRefused, RollLost,
           RollRelabel, RollReplied, RollReplyFails, At, SendSteps,
           TransferSteps, WithdrawSteps
  <2>2. /\ locks' = locks
        /\ \/ pc[p] \in {"relabel", "reply"}
           \/ /\ job'[p] = job[p]
              /\ pc[p] \in {"checkUser", "checkTreasury"}
              /\ pc'[p] \in {"checkTreasury", "releaseEnd", "readFrom"}
    BY <1>a, <1>9
       DEF Roll, RollCheckUser, RollRefused, RollLost, RollRelabel,
           RollReplied, RollReplyFails, At, Continue, Goto, Finish
  <2>3. Inside(p) => /\ Inside(p)' /\ Guarded(p) \subseteq Guarded(p)'
                     /\ job'[p].kind = job[p].kind
    BY <2>1, <2>2 DEF Inside, SendInside, RollInside, Guarded
  <2> QED
    BY <1>0, <2>2, <2>3, OwnedSameLocks
<1>10. CASE Withdraw(p)
  <2>1. pc[p] \in WithdrawSteps
    BY <1>10 DEF Withdraw, StealLock, LockWithdrawal, DebitUser,
         RecordDebitUser, StoreHash, Settle, PayGas, RecordGas, Refund,
         RecordRefund, UnlockWithdrawal, At, WithdrawSteps
  <2>2. ~Inside(p)
    BY <1>0, <2>1 DEF Inside, SendInside, RollInside, ShapeOf, SendSteps,
                      RollSteps, TransferSteps, WithdrawSteps
  <2>3. \A u \in Users :
          \/ locks'[u].type = locks[u].type /\ locks'[u].holder = locks[u].holder
          \/ locks'[u] = NoLock
          \/ locks'[u].type = "withdrawal"
    <3>1. CASE StealLock(p)
      BY <3>1 DEF StealLock, DeleteLocks
    <3>2. CASE LockWithdrawal(p)
      BY <1>a, <3>2 DEF LockWithdrawal, InsertLock, NewLock
    <3>3. CASE StoreHash(p)
      <4>1. \A u \in Users :
              /\ [locks[u] EXCEPT !.hash = TRUE].type = locks[u].type
              /\ [locks[u] EXCEPT !.hash = TRUE].holder = locks[u].holder
        BY <1>a DEF Locks
      <4> QED
        BY <1>a, <3>3, <4>1 DEF StoreHash, StoreTxHash
    <3>4. CASE locks' = locks
      BY <3>4
    <3> QED
      BY <1>10, <3>1, <3>2, <3>3, <3>4
         DEF Withdraw, DebitUser, RecordDebitUser, Settle, PayGas, RecordGas,
             Refund, RecordRefund, UnlockWithdrawal, ReleaseWithdrawalLock,
             Releasable
  <2>4. \A u \in Users : locks[u].type \in {"transfer", "gambling_roll"}
                           => locks[u].holder # p
    BY <2>2 DEF Owned, Owns
  <2> QED
    BY <1>0, <2>3, <2>4, OwnedFrame DEF NoLock
<1> QED
  BY <1>1, <1>2, <1>3, <1>4, <1>5, <1>6, <1>7, <1>8, <1>9, <1>10
     DEF Proceed, Answered, Send

(* The cleanup only deletes, and time only marks.                           *)
LEMMA OwnedRest ==
  ASSUME TypeOK, Owned, Sweep \/ \E u \in Users : Timeout(u)
  PROVE  Owned'
<1>1. pc' = pc /\ job' = job
  BY DEF Sweep, SweepStart, SweepRow, SweepDelete, SweepVerify, SweepVerified,
         Timeout
<1>2. locks \in [Users -> Locks]
  BY DEF TypeOK, LockTypeOK
<1>3. ASSUME NEW u \in Users, Timeout(u)
      PROVE  \A v \in Users : /\ locks'[v].type = locks[v].type
                              /\ locks'[v].holder = locks[v].holder
  <2>1. /\ [locks[u] EXCEPT !.expired = TRUE].type = locks[u].type
        /\ [locks[u] EXCEPT !.expired = TRUE].holder = locks[u].holder
    BY <1>2 DEF Locks
  <2> QED
    BY <1>2, <1>3, <2>1 DEF Timeout, Elapse
<1>4. \A v \in Users : \/ /\ locks'[v].type = locks[v].type
                          /\ locks'[v].holder = locks[v].holder
                       \/ locks'[v] = NoLock
  <2>1. CASE Sweep
    BY <2>1 DEF Sweep, SweepStart, SweepRow, SweepDelete, SweepVerify,
                SweepVerified, DeleteLocks
  <2> QED
    BY <1>3, <2>1
<1>5. ASSUME NEW u \in Users,
             locks'[u].type \in {"transfer", "gambling_roll"}
      PROVE  \E p \in Requests : Owns(p, u)'
  <2>1. /\ locks'[u].type = locks[u].type
        /\ locks'[u].holder = locks[u].holder
    BY <1>4, <1>5 DEF NoLock
  <2>2. PICK p \in Requests : Owns(p, u)
    BY <1>5, <2>1 DEF Owned
  <2>3. Owns(p, u)'
    BY <1>1, <2>1, <2>2 DEF Owns, Inside, SendInside, RollInside, Guarded
  <2> QED
    BY <2>3
<1> QED
  BY <1>5 DEF Owned

------------------------------------------------------------------------------
(* The inductive invariant.  A crash or a failing statement ends it.        *)

Unharmed == Exclusion /\ Owned

LeakInv == TypeOK /\ (NoFaults => Unharmed)

LEMMA InitLeak == Init => LeakInv
<1> SUFFICES ASSUME Init PROVE Unharmed
  BY InitType DEF LeakInv
<1>1. Exclusion
  BY InitLocks DEF LocksInv, Init
<1>2. \A u \in Users : locks[u].type = "none"
  BY DEF Init, LockInit, NoLock
<1> QED
  BY <1>1, <1>2 DEF Unharmed, Owned

(* Only a crash and a failing statement count as faults.                    *)
LEMMA NoNewFault ==
  ASSUME TypeOK, NoFaults', [Next]_vars
  PROVE  /\ NoFaults
         /\ \/ UNCHANGED vars
            \/ \E p \in Requests : Begin(p) \/ Proceed(p) \/ Land(p)
            \/ Sweep
            \/ \E u \in Users : Timeout(u)
<1> USE DEF NoFaults
<1>1. ~Crash
  BY DEF Crash, TypeOK
<1>2. ASSUME NEW p \in Requests PROVE ~StatementFails(p)
  BY DEF StatementFails, TypeOK
<1>3. ASSUME NEW p \in Requests, Begin(p) \/ Proceed(p) \/ Land(p)
      PROVE  NoFaults
  BY <1>3
     DEF Begin, Ask, BeginRoll, BeginFine, FundTreasury,
         WithdrawTreasury, Unlocked, Start, Proceed, Answered,
         BeginSend, BeginWithdraw, Refuse, Transfer, TransferReadFrom,
         TransferReadTo, TransferWriteFrom, TransferWriteTo, TransferRecord,
         Send, LockReceiver, LockReceiverFails, Unlock, Roll, RollCheckUser,
         RollRefused, RollWon, RollLost, RollRelease, RollRelabel,
         RollReplied, RollReplyFails, Withdraw, StealLock, LockWithdrawal,
         DebitUser, RecordDebitUser, StoreHash, Settle, PayGas, RecordGas,
         Refund, RecordRefund, UnlockWithdrawal, SendTokens, SendReturns,
         SendThrows, Land, Environment, TypeOK
<1>4. ASSUME Sweep \/ \E u \in Users : Timeout(u)
      PROVE  NoFaults
  BY <1>4 DEF Sweep, SweepStart, SweepRow, SweepDelete, SweepVerify,
              SweepVerified, Timeout, Environment
<1>5. CASE UNCHANGED vars
  BY <1>5 DEF vars
<1>6. CASE Next
  BY <1>1, <1>2, <1>3, <1>4, <1>6 DEF Next
<1> QED
  BY <1>5, <1>6

LEMMA NextLeak == LeakInv /\ [Next]_vars => LeakInv'
<1> SUFFICES ASSUME LeakInv, [Next]_vars, NoFaults'
             PROVE  Unharmed'
  BY NextType DEF LeakInv
<1>1. TypeOK
  BY DEF LeakInv
<1>2. NoFaults /\ Exclusion /\ Owned
  BY <1>1, NoNewFault DEF LeakInv, Unharmed
<1>3. Exclusion'
  <2>1. LocksInv /\ used'.errors = 0
    BY <1>1, <1>2 DEF LocksInv, NoFaults
  <2> QED
    BY <2>1, NextLocks DEF LocksInv
<1>4. Owned'
  <2>1. CASE UNCHANGED vars
    BY <1>2, <2>1
       DEF vars, Owned, Owns, Inside, SendInside, RollInside, Guarded
  <2> QED
    BY <1>1, <1>2, <2>1, NoNewFault, OwnedStep, OwnedRest
<1> QED
  BY <1>3, <1>4 DEF Unharmed

LEMMA LeakInvariant == Spec => []LeakInv
BY InitLeak, NextLeak, PTL DEF Spec

(* NoLeakedLock: without a crash and without a failing statement, whatever  *)
(* is interleaved, every row that transferToUser or /roll wrote belongs to  *)
(* a request that is still at work for that user, and goes with it: nobody  *)
(* stays locked out of the bot.                                             *)
THEOREM NoLockIsLeaked == Spec => []NoLeakedLock
<1>1. LeakInv => NoLeakedLock
  BY DEF LeakInv, Unharmed, Owned, Owns, Inside, NoLeakedLock
<1> QED
  BY <1>1, LeakInvariant, PTL

------------------------------------------------------------------------------
(* The balances and the log.  Between the first read of a transfer and its  *)
(* row in the log, or between an UPDATE of a balance and its row, a request *)
(* touches the accounts concerned: they differ from the log by what it has  *)
(* still to write, and what it has read is what they hold.                  *)

Touches(p) ==
  {a \in Accounts :
     \/ pc[p] \in TransferSteps /\ a \in {job[p].from, job[p].to}
     \/ pc[p] \in {"recordDebit", "recordRefund"} /\ a = job[p].user
     \/ pc[p] = "recordGas" /\ a = Reserve}

Pending(p, a) ==
  CASE \/ pc[p] \in {"writeTo", "record"} /\ a = job[p].from
       \/ pc[p] = "recordDebit"                       -> - job[p].amt
    [] \/ pc[p] = "record" /\ a # job[p].from
       \/ pc[p] = "recordRefund"                      -> job[p].amt
    [] pc[p] = "recordGas"                            -> - GasFee
    [] OTHER                                          -> 0

Agrees(p, a) ==
  /\ bal[a] = audit[a] + Pending(p, a)
  /\ pc[p] \in {"readTo", "writeFrom"} /\ a = job[p].from => snap[p].from = bal[a]
  /\ pc[p] \in {"writeFrom", "writeTo"} /\ a = job[p].to => snap[p].to = bal[a]

Books(A) ==
  \A a \in A :
    /\ (\A p \in Requests : a \notin Touches(p)) => bal[a] = audit[a]
    /\ \A p \in Requests : a \in Touches(p) => Agrees(p, a)

Sole(A) ==
  \A p, q \in Requests : \A a \in A : a \in Touches(p) \cap Touches(q) => p = q

(* A user who sends to his own name gets no further than his own lock.      *)
Apart == \A p \in Requests : pc[p] \in TransferSteps => job[p].from # job[p].to

OthersRead(p) == \A q \in Requests \ {p} : snap'[q] = snap[q]

LEMMA SnapFrame ==
  ASSUME TypeOK, NEW p \in Requests, Begin(p) \/ Proceed(p) \/ Land(p)
  PROVE  OthersRead(p)
<1> USE DEF OthersRead, TypeOK, LedgerTypeOK, ledgerVars
<1>1. CASE Begin(p) \/ Land(p)
  BY <1>1 DEF Begin, Ask, BeginRoll, BeginFine, FundTreasury,
              WithdrawTreasury, Unlocked, Start, Land
<1>2. CASE Answered(p) \/ SendTokens(p) \/ Send(p)
  BY <1>2 DEF Answered, BeginSend, BeginWithdraw, Refuse, SendTokens,
              SendReturns, SendThrows, Send, LockReceiver, LockReceiverFails,
              Unlock
<1>3. CASE Transfer(p)
  BY <1>3 DEF Transfer, TransferReadFrom, TransferReadTo, TransferWriteFrom,
              TransferWriteTo, TransferRecord, ReadFrom, ReadTo, WriteFrom,
              WriteTo, RecordTransfer, Forget
<1>4. CASE Roll(p)
  BY <1>4 DEF Roll, RollCheckUser, RollRefused, RollWon, RollLost,
              RollRelease, RollRelabel, RollReplied, RollReplyFails
<1>5. CASE Withdraw(p)
  BY <1>5 DEF Withdraw, StealLock, LockWithdrawal, DebitUser,
              RecordDebitUser, StoreHash, Settle, PayGas, RecordGas, Refund,
              RecordRefund, UnlockWithdrawal, Debit, Credit, RecordDebit,
              RecordCredit, Forget
<1> QED
  BY <1>1, <1>2, <1>3, <1>4, <1>5 DEF Proceed

LEMMA TouchesFrame ==
  ASSUME NEW p \in Requests, Others(p), NEW q \in Requests, q # p
  PROVE  Touches(q)' = Touches(q)
BY DEF Touches, Others

(* An account that p touches from now on was nobody's.                      *)
LEMMA Untouched ==
  ASSUME NEW A, Books(A), Sole(A)', NEW p \in Requests, Others(p),
         NEW a \in A, a \in Touches(p)', a \notin Touches(p)
  PROVE  bal[a] = audit[a]
<1>1. \A q \in Requests \ {p} : a \notin Touches(q)
  BY TouchesFrame DEF Sole
<1> QED
  BY <1>1 DEF Books

LEMMA BooksFrame ==
  ASSUME NEW A, Books(A), Sole(A), Sole(A)', NEW p \in Requests, Others(p),
         OthersRead(p),
         \A a \in A :
           \/ a \in Touches(p)' /\ Agrees(p, a)'
           \/ /\ a \notin Touches(p)' /\ a \in Touches(p)
              /\ bal'[a] = audit'[a]
           \/ /\ a \notin Touches(p)' /\ a \notin Touches(p)
              /\ bal'[a] = bal[a] /\ audit'[a] = audit[a]
  PROVE  Books(A)'
<1> SUFFICES ASSUME NEW a \in A
             PROVE  /\ (\A q \in Requests : a \notin Touches(q)')
                         => bal'[a] = audit'[a]
                    /\ \A q \in Requests : a \in Touches(q)' => Agrees(q, a)'
  BY DEF Books
<1>1. CASE a \in Touches(p)' /\ Agrees(p, a)'
  <2>1. \A q \in Requests : a \in Touches(q)' => q = p
    BY <1>1 DEF Sole
  <2> QED
    BY <1>1, <2>1
<1>2. CASE a \notin Touches(p)' /\ a \in Touches(p) /\ bal'[a] = audit'[a]
  <2>1. \A q \in Requests : a \notin Touches(q)'
    BY <1>2, TouchesFrame DEF Sole
  <2> QED
    BY <1>2, <2>1
<1>3. CASE /\ a \notin Touches(p)' /\ a \notin Touches(p)
           /\ bal'[a] = bal[a] /\ audit'[a] = audit[a]
  <2>1. ASSUME NEW q \in Requests, a \in Touches(q)'
        PROVE  Agrees(q, a)'
    <3>1. q # p /\ a \in Touches(q)
      BY <1>3, <2>1, TouchesFrame
    <3>2. Agrees(q, a)
      BY <3>1 DEF Books
    <3>3. pc'[q] = pc[q] /\ job'[q] = job[q] /\ snap'[q] = snap[q]
      BY <3>1 DEF Others, OthersRead
    <3> QED
      BY <1>3, <3>2, <3>3 DEF Agrees, Pending
  <2>2. ASSUME \A q \in Requests : a \notin Touches(q)'
        PROVE  bal'[a] = audit'[a]
    <3>1. \A q \in Requests : a \notin Touches(q)
      BY <1>3, <2>2, TouchesFrame
    <3> QED
      BY <1>3, <3>1 DEF Books
  <2> QED
    BY <2>1, <2>2
<1> QED
  BY <1>1, <1>2, <1>3

(* p begins or ends nothing that concerns the tables.                       *)
LEMMA BooksIdle ==
  ASSUME NEW A, Books(A), Sole(A), Sole(A)', NEW p \in Requests, Others(p),
         OthersRead(p), Touches(p) = {}, Touches(p)' = {},
         bal' = bal, audit' = audit
  PROVE  Books(A)'
BY BooksFrame

(* p is about to begin a transfer.                                          *)
LEMMA BooksOpen ==
  ASSUME NEW A, A \subseteq Accounts, Books(A), Sole(A), Sole(A)', TypeOK,
         NEW p \in Requests, Others(p),
         OthersRead(p), Touches(p) = {}, pc'[p] = "readFrom",
         bal' = bal, audit' = audit
  PROVE  Books(A)'
<1>1. ASSUME NEW a \in A, a \in Touches(p)'
      PROVE  Agrees(p, a)'
  <2>1. bal'[a] = audit'[a] /\ audit'[a] \in Int
    BY <1>1, Untouched DEF TypeOK, LedgerTypeOK
  <2>2. Pending(p, a)' = 0
    BY DEF Pending
  <2> QED
    BY <2>1, <2>2 DEF Agrees
<1> QED
  BY <1>1, BooksFrame

(* transferBetweenUsers, statement by statement.                            *)
LEMMA BooksTransfer ==
  ASSUME NEW A, A \subseteq Accounts, Books(A), Sole(A), Sole(A)', TypeOK,
         Apart, NEW p \in Requests, Others(p), OthersRead(p), Transfer(p)
  PROVE  Books(A)'
<1> DEFINE from == job[p].from
           to == job[p].to
           amt == job[p].amt
<1>0. /\ pc \in [Requests -> Steps] /\ job \in [Requests -> Jobs]
      /\ bal \in [Accounts -> Int] /\ audit \in [Accounts -> Int]
      /\ snap \in [Requests -> [from: Int, to: Int]]
      /\ from \in Accounts /\ to \in Accounts /\ amt \in Nat
  BY DEF TypeOK, LedgerTypeOK, Jobs
<1>1. /\ pc[p] \in TransferSteps /\ from # to
      /\ \A a \in A : a \in Touches(p) <=> a \in {from, to}
  BY DEF Transfer, TransferReadFrom, TransferReadTo, TransferWriteFrom,
         TransferWriteTo, TransferRecord, At, TransferSteps, Apart, Touches
<1>2. \A a \in A : a \in {from, to} => Agrees(p, a)
  BY <1>1 DEF Books
(* The statement leaves p inside its transfer.                              *)
<1>i. ASSUME pc'[p] \in TransferSteps, job'[p] = job[p],
             \A a \in A : a \in {from, to} => Agrees(p, a)',
             \A a \in Accounts \ {from, to} : bal'[a] = bal[a],
             audit' = audit
      PROVE  Books(A)'
  <2>1. \A a \in A : a \in Touches(p)' <=> a \in {from, to}
    BY <1>i DEF Touches, TransferSteps
  <2> QED
    BY <1>1, <1>i, <2>1, BooksFrame
(* The statement ends it.                                                   *)
<1>o. ASSUME pc'[p] \notin TransferSteps,
             pc'[p] \notin {"recordDebit", "recordRefund", "recordGas"},
             \A a \in A : a \in {from, to} => bal'[a] = audit'[a],
             \A a \in Accounts \ {from, to} : bal'[a] = bal[a] /\ audit'[a] = audit[a]
      PROVE  Books(A)'
  <2>1. \A a \in A : a \notin Touches(p)'
    BY <1>o DEF Touches
  <2> QED
    BY <1>1, <1>o, <2>1, BooksFrame
<1>3. CASE TransferReadFrom(p)
  <2>1. pc[p] = "readFrom" /\ bal' = bal /\ audit' = audit
    BY <1>3 DEF TransferReadFrom, At, ReadFrom, Forget
  <2>2. \A a \in A : a \in {from, to} => bal[a] = audit[a]
    BY <1>0, <1>2, <2>1 DEF Agrees, Pending
  <2>3. CASE pc'[p] = "readTo"
    <3>1. /\ job'[p] = job[p] /\ snap'[p].from = bal[from]
      BY <1>0, <1>3, <2>3 DEF TransferReadFrom, Continue, Goto, Finish,
         ReadFrom, AfterFailedTransfer
    <3>2. \A a \in A : a \in {from, to} => Agrees(p, a)'
      BY <1>0, <2>1, <2>2, <2>3, <3>1 DEF Agrees, Pending
    <3> QED
      BY <1>i, <2>1, <2>3, <3>1, <3>2 DEF TransferSteps
  <2>4. CASE pc'[p] # "readTo"
    <3>1. pc'[p] \in {"unlock", "releaseEnd", "idle"}
      BY <1>0, <1>3, <2>4 DEF TransferReadFrom, Continue, Goto, Finish,
         AfterFailedTransfer
    <3> QED
      BY <1>o, <2>1, <2>2, <3>1 DEF TransferSteps
  <2> QED
    BY <2>3, <2>4
<1>4. CASE TransferReadTo(p)
  <2>1. /\ pc[p] = "readTo" /\ bal' = bal /\ audit' = audit
        /\ pc'[p] = "writeFrom" /\ job'[p] = job[p]
        /\ snap'[p].to = bal[to] /\ snap'[p].from = snap[p].from
    BY <1>0, <1>4 DEF TransferReadTo, At, ReadTo, Continue, Goto
  <2>2. \A a \in A : a \in {from, to} => Agrees(p, a)'
    BY <1>0, <1>2, <2>1 DEF Agrees, Pending
  <2> QED
    BY <1>i, <2>1, <2>2 DEF TransferSteps
<1>5. CASE TransferWriteFrom(p)
  <2>1. /\ pc[p] = "writeFrom" /\ audit' = audit /\ snap' = snap
        /\ pc'[p] = "writeTo" /\ job'[p] = job[p]
        /\ bal' = [bal EXCEPT ![from] = snap[p].from - amt]
    BY <1>0, <1>5 DEF TransferWriteFrom, At, WriteFrom, Subtract, Continue, Goto
  <2>2. ASSUME NEW a \in A, a = from PROVE Agrees(p, a)'
    <3>1. bal[a] = audit[a] + Pending(p, a) /\ snap[p].from = bal[a]
      BY <1>2, <2>1, <2>2 DEF Agrees
    <3>2. Pending(p, a) = 0 /\ Pending(p, a)' = - amt
      BY <2>1, <2>2 DEF Pending
    <3>3. bal'[a] = snap[p].from - amt
      BY <1>0, <2>1, <2>2
    <3> QED
      BY <1>0, <1>1, <2>1, <2>2, <3>1, <3>2, <3>3 DEF Agrees
  <2>3. ASSUME NEW a \in A, a = to PROVE Agrees(p, a)'
    <3>1. bal[a] = audit[a] + Pending(p, a) /\ snap[p].to = bal[a]
      BY <1>2, <2>1, <2>3 DEF Agrees
    <3>2. Pending(p, a) = 0 /\ Pending(p, a)' = 0
      BY <1>1, <2>1, <2>3 DEF Pending
    <3>3. bal'[a] = bal[a]
      BY <1>0, <1>1, <2>1, <2>3
    <3> QED
      BY <1>0, <1>1, <2>1, <2>3, <3>1, <3>2, <3>3 DEF Agrees
  <2>4. \A a \in Accounts \ {from, to} : bal'[a] = bal[a]
    BY <1>0, <2>1
  <2> QED
    BY <1>i, <2>1, <2>2, <2>3, <2>4 DEF TransferSteps
<1>6. CASE TransferWriteTo(p)
  <2>1. /\ pc[p] = "writeTo" /\ audit' = audit
        /\ pc'[p] = "record" /\ job'[p] = job[p]
        /\ bal' = [bal EXCEPT ![to] = snap[p].to + amt]
    BY <1>0, <1>6 DEF TransferWriteTo, At, WriteTo, Add, Continue, Goto
  <2>2. ASSUME NEW a \in A, a = from PROVE Agrees(p, a)'
    <3>1. bal[a] = audit[a] + Pending(p, a)
      BY <1>2, <2>2 DEF Agrees
    <3>2. Pending(p, a)' = Pending(p, a)
      BY <2>1, <2>2 DEF Pending
    <3>3. bal'[a] = bal[a]
      BY <1>0, <1>1, <2>1, <2>2
    <3> QED
      BY <2>1, <3>1, <3>2, <3>3 DEF Agrees
  <2>3. ASSUME NEW a \in A, a = to PROVE Agrees(p, a)'
    <3>1. bal[a] = audit[a] + Pending(p, a) /\ snap[p].to = bal[a]
      BY <1>2, <2>1, <2>3 DEF Agrees
    <3>2. Pending(p, a) = 0 /\ Pending(p, a)' = amt
      BY <1>1, <2>1, <2>3 DEF Pending
    <3>3. bal'[a] = snap[p].to + amt
      BY <1>0, <2>1, <2>3
    <3> QED
      BY <1>0, <1>1, <2>1, <2>3, <3>1, <3>2, <3>3 DEF Agrees
  <2>4. \A a \in Accounts \ {from, to} : bal'[a] = bal[a]
    BY <1>0, <2>1
  <2> QED
    BY <1>i, <2>1, <2>2, <2>3, <2>4 DEF TransferSteps
<1>7. CASE TransferRecord(p)
  <2>1. /\ pc[p] = "record" /\ bal' = bal
        /\ pc'[p] \in {"unlock", "release", "idle"}
        /\ audit' = [a \in Accounts |->
                       audit[a] - (IF a = from THEN amt ELSE 0)
                                + (IF a = to THEN amt ELSE 0)]
    BY <1>0, <1>7 DEF TransferRecord, At, RecordTransfer, Continue, Goto,
                      Finish, AfterTransfer
  <2>2. ASSUME NEW a \in A, a = from PROVE bal'[a] = audit'[a]
    <3>1. bal[a] = audit[a] - amt
      BY <1>0, <1>2, <2>1, <2>2 DEF Agrees, Pending
    <3> QED
      BY <1>0, <1>1, <2>1, <2>2, <3>1
  <2>3. ASSUME NEW a \in A, a = to PROVE bal'[a] = audit'[a]
    <3>1. bal[a] = audit[a] + amt
      BY <1>0, <1>1, <1>2, <2>1, <2>3 DEF Agrees, Pending
    <3> QED
      BY <1>0, <1>1, <2>1, <2>3, <3>1
  <2>4. \A a \in Accounts \ {from, to} : audit'[a] = audit[a]
    BY <1>0, <2>1
  <2> QED
    BY <1>o, <2>1, <2>2, <2>3, <2>4 DEF TransferSteps
<1> QED
  BY <1>3, <1>4, <1>5, <1>6, <1>7 DEF Transfer

(* processWithdrawal: an UPDATE of one balance, then its row.               *)
LEMMA BooksWithdraw ==
  ASSUME NEW A, A \subseteq Accounts, Books(A), Sole(A), Sole(A)', TypeOK,
         NEW p \in Requests, Others(p), OthersRead(p), Withdraw(p)
  PROVE  Books(A)'
<1> DEFINE u == job[p].user
           amt == job[p].amt
<1>0. /\ pc \in [Requests -> Steps] /\ job \in [Requests -> Jobs]
      /\ bal \in [Accounts -> Int] /\ audit \in [Accounts -> Int]
      /\ u \in Accounts /\ Reserve \in Accounts /\ amt \in Nat
      /\ GasFee \in Nat
  BY WalletAssumption DEF TypeOK, LedgerTypeOK, Jobs, Accounts
(* The balance of c changes, and its row is pending.                        *)
<1>i. ASSUME NEW c \in Accounts, NEW d \in Int,
             Touches(p) = {}, Touches(p)' = {c},
             pc'[p] \notin TransferSteps,
             Pending(p, c)' = d,
             bal' = [bal EXCEPT ![c] = bal[c] + d], audit' = audit
      PROVE  Books(A)'
  <2>1. ASSUME NEW a \in A, a = c PROVE Agrees(p, a)'
    <3>1. bal[a] = audit[a]
      BY <1>i, <2>1, Untouched
    <3>2. bal'[a] = bal[a] + d
      BY <1>0, <1>i, <2>1
    <3> QED
      BY <1>0, <1>i, <2>1, <3>1, <3>2 DEF Agrees, TransferSteps
  <2>2. \A a \in A : a # c => bal'[a] = bal[a]
    BY <1>0, <1>i
  <2> QED
    BY <1>i, <2>1, <2>2, BooksFrame
(* The row of c is written.                                                 *)
<1>o. ASSUME NEW c \in Accounts, NEW d \in Int,
             Touches(p) = {c}, Touches(p)' = {},
             Pending(p, c) = d,
             audit' = [audit EXCEPT ![c] = audit[c] + d], bal' = bal
      PROVE  Books(A)'
  <2>1. ASSUME NEW a \in A, a = c PROVE bal'[a] = audit'[a]
    <3>1. bal[a] = audit[a] + d
      BY <1>o, <2>1 DEF Books, Agrees
    <3> QED
      BY <1>0, <1>o, <2>1, <3>1
  <2>2. \A a \in A : a # c => audit'[a] = audit[a]
    BY <1>0, <1>o
  <2> QED
    BY <1>o, <2>1, <2>2, BooksFrame
<1>1. CASE DebitUser(p)
  <2>1. /\ pc[p] = "debit" /\ pc'[p] = "recordDebit" /\ job'[p] = job[p]
        /\ bal' = [bal EXCEPT ![u] = bal[u] - amt] /\ audit' = audit
    BY <1>0, <1>1 DEF DebitUser, Debit, Subtract, At, Continue, Goto
  <2>2. Touches(p) = {} /\ Touches(p)' = {u}
    BY <1>0, <2>1 DEF Touches, TransferSteps
  <2>3. Pending(p, u)' = - amt /\ - amt \in Int
    BY <1>0, <2>1 DEF Pending
  <2>4. bal[u] - amt = bal[u] + (- amt)
    BY <1>0
  <2> QED
    BY <1>0, <1>i, <2>1, <2>2, <2>3, <2>4 DEF TransferSteps
<1>2. CASE RecordDebitUser(p)
  <2>1. /\ pc[p] = "recordDebit" /\ pc'[p] = "sending"
        /\ audit' = [audit EXCEPT ![u] = audit[u] - amt] /\ bal' = bal
    BY <1>0, <1>2 DEF RecordDebitUser, RecordDebit, At
  <2>2. Touches(p) = {u} /\ Touches(p)' = {}
    BY <1>0, <2>1 DEF Touches, TransferSteps
  <2>3. Pending(p, u) = - amt /\ - amt \in Int
    BY <1>0, <2>1 DEF Pending
  <2>4. audit[u] - amt = audit[u] + (- amt)
    BY <1>0
  <2> QED
    BY <1>0, <1>o, <2>1, <2>2, <2>3, <2>4
<1>3. CASE Refund(p)
  <2>1. /\ pc[p] = "refund" /\ pc'[p] = "recordRefund" /\ job'[p] = job[p]
        /\ bal' = [bal EXCEPT ![u] = bal[u] + amt] /\ audit' = audit
    BY <1>0, <1>3 DEF Refund, Credit, Add, At, Continue, Goto
  <2>2. Touches(p) = {} /\ Touches(p)' = {u}
    BY <1>0, <2>1 DEF Touches, TransferSteps
  <2>3. Pending(p, u)' = amt /\ amt \in Int
    BY <1>0, <2>1 DEF Pending
  <2> QED
    BY <1>0, <1>i, <2>1, <2>2, <2>3 DEF TransferSteps
<1>4. CASE RecordRefund(p)
  <2>1. /\ pc[p] = "recordRefund" /\ pc'[p] = "unlockWithdrawal"
        /\ audit' = [audit EXCEPT ![u] = audit[u] + amt] /\ bal' = bal
    BY <1>0, <1>4 DEF RecordRefund, RecordCredit, At, Continue, Goto
  <2>2. Touches(p) = {u} /\ Touches(p)' = {}
    BY <1>0, <2>1 DEF Touches, TransferSteps
  <2>3. Pending(p, u) = amt /\ amt \in Int
    BY <1>0, <2>1 DEF Pending
  <2> QED
    BY <1>0, <1>o, <2>1, <2>2, <2>3
<1>5. CASE PayGas(p) /\ pc'[p] = "recordGas"
  <2>1. /\ pc[p] = "gas" /\ pc'[p] = "recordGas" /\ job'[p] = job[p]
        /\ bal' = [bal EXCEPT ![Reserve] = bal[Reserve] - GasFee]
        /\ audit' = audit
    BY <1>0, <1>5 DEF PayGas, Debit, Subtract, At, Continue, Goto
  <2>2. Touches(p) = {} /\ Touches(p)' = {Reserve}
    BY <1>0, <2>1 DEF Touches, TransferSteps
  <2>3. Pending(p, Reserve)' = - GasFee /\ - GasFee \in Int
    BY <1>0, <2>1 DEF Pending
  <2>4. bal[Reserve] - GasFee = bal[Reserve] + (- GasFee)
    BY <1>0
  <2> QED
    BY <1>0, <1>i, <2>1, <2>2, <2>3, <2>4 DEF TransferSteps
<1>6. CASE RecordGas(p)
  <2>1. /\ pc[p] = "recordGas" /\ pc'[p] = "unlockWithdrawal"
        /\ audit' = [audit EXCEPT ![Reserve] = audit[Reserve] - GasFee]
        /\ bal' = bal
    BY <1>0, <1>6 DEF RecordGas, RecordDebit, At, Continue, Goto
  <2>2. Touches(p) = {Reserve} /\ Touches(p)' = {}
    BY <1>0, <2>1 DEF Touches, TransferSteps
  <2>3. Pending(p, Reserve) = - GasFee /\ - GasFee \in Int
    BY <1>0, <2>1 DEF Pending
  <2>4. audit[Reserve] - GasFee = audit[Reserve] + (- GasFee)
    BY <1>0
  <2> QED
    BY <1>0, <1>o, <2>1, <2>2, <2>3, <2>4
<1>n. ASSUME /\ pc[p] \in {"steal", "lock", "storeHash", "settle", "gas",
                           "unlockWithdrawal"}
             /\ pc'[p] \in {"lock", "debit", "settle", "refund", "gas",
                            "unlockWithdrawal", "idle"}
             /\ bal' = bal /\ audit' = audit
      PROVE  Books(A)'
  <2>1. Touches(p) = {} /\ Touches(p)' = {}
    BY <1>n DEF Touches, TransferSteps
  <2> QED
    BY <1>n, <2>1, BooksIdle
<1>7. CASE PayGas(p) /\ pc'[p] # "recordGas"
  BY <1>0, <1>7, <1>n DEF PayGas, At, Continue, Goto, Finish, Forget
<1>8. CASE StealLock(p) \/ LockWithdrawal(p) \/ StoreHash(p) \/ Settle(p)
  BY <1>0, <1>8, <1>n DEF StealLock, LockWithdrawal, StoreHash, Settle, At,
                          Continue, Goto, Finish, ledgerVars
<1>9. CASE UnlockWithdrawal(p)
  BY <1>0, <1>9, <1>n DEF UnlockWithdrawal, At, Finish, ledgerVars
<1>10. CASE PayGas(p)
  BY <1>5, <1>7, <1>10
<1> HIDE DEF u, amt
<1> QED
  BY <1>1, <1>2, <1>3, <1>4, <1>6, <1>8, <1>9, <1>10 DEF Withdraw

LEMMA BooksStep ==
  ASSUME NEW A, A \subseteq Accounts, Books(A), Sole(A), Sole(A)', TypeOK,
         Apart, NEW p \in Requests, Begin(p) \/ Proceed(p) \/ Land(p)
  PROVE  Books(A)'
<1> DEFINE Busy == TransferSteps \cup {"recordDebit", "recordRefund",
                                       "recordGas"}
<1>0. /\ pc \in [Requests -> Steps] /\ job \in [Requests -> Jobs]
      /\ Others(p) /\ OthersRead(p)
  BY OthersFrame, SnapFrame DEF TypeOK
<1>i. ASSUME pc[p] \notin Busy, pc'[p] \notin Busy, bal' = bal, audit' = audit
      PROVE  Books(A)'
  <2>1. Touches(p) = {} /\ Touches(p)' = {}
    BY <1>i DEF Touches
  <2> QED
    BY <1>0, <1>i, <2>1, BooksIdle
<1>o. ASSUME pc[p] \notin Busy, pc'[p] = "readFrom", bal' = bal, audit' = audit
      PROVE  Books(A)'
  <2>1. Touches(p) = {}
    BY <1>o DEF Touches
  <2> QED
    BY <1>0, <1>o, <2>1, BooksOpen
<1>1. CASE Begin(p)
  <2>1. /\ pc[p] = "idle" /\ bal' = bal /\ audit' = audit
        /\ pc'[p] \in {"asked", "checkUser", "readFrom"}
    BY <1>0, <1>1
       DEF Begin, Ask, BeginRoll, BeginFine, FundTreasury, WithdrawTreasury,
           Unlocked, Start, Running, ledgerVars
  <2> QED
    BY <1>i, <1>o, <2>1 DEF TransferSteps
<1>2. CASE Answered(p) \/ SendTokens(p) \/ Land(p)
  <2>1. /\ pc[p] \in {"asked", "sending"} /\ bal' = bal /\ audit' = audit
        /\ pc'[p] \in {"lockReceiver", "steal", "lock", "idle", "storeHash",
                       "refund", "sending"}
    BY <1>0, <1>2
       DEF Answered, BeginSend, BeginWithdraw, Refuse, SendTokens,
           SendReturns, SendThrows, Land, ledgerVars
  <2> QED
    BY <1>i, <2>1 DEF TransferSteps
<1>3. CASE Send(p)
  <2>1. /\ pc[p] \in {"lockReceiver", "unlock", "unlockRetry"}
        /\ bal' = bal /\ audit' = audit
        /\ pc'[p] \in {"readFrom", "idle"}
    BY <1>0, <1>3
       DEF Send, LockReceiver, LockReceiverFails, Unlock, At, Continue, Goto,
           Finish, ledgerVars
  <2> QED
    BY <1>i, <1>o, <2>1 DEF TransferSteps
<1>4. CASE Roll(p)
  <2>1. /\ pc[p] \in RollSteps /\ bal' = bal /\ audit' = audit
        /\ pc'[p] \in RollSteps \cup {"readFrom", "idle"}
    BY <1>0, <1>4
       DEF Roll, RollCheckUser, RollRefused, RollWon, RollLost, RollRelease,
           RollRelabel, RollReplied, RollReplyFails, At, Continue, Goto,
           Finish, ledgerVars, RollSteps
  <2> QED
    BY <1>i, <1>o, <2>1 DEF TransferSteps, RollSteps
<1>5. CASE Transfer(p)
  BY <1>0, <1>5, BooksTransfer
<1>6. CASE Withdraw(p)
  BY <1>0, <1>6, BooksWithdraw
<1> QED
  BY <1>1, <1>2, <1>3, <1>4, <1>5, <1>6 DEF Proceed

(* The cleanup and time touch no balance and no request.                    *)
LEMMA BooksRest ==
  ASSUME NEW A, Books(A),
         UNCHANGED vars \/ Sweep \/ \E u \in Users : Timeout(u)
  PROVE  Books(A)'
<1>1. /\ pc' = pc /\ job' = job /\ snap' = snap /\ bal' = bal
      /\ audit' = audit
  BY DEF Sweep, SweepStart, SweepRow, SweepDelete, SweepVerify, SweepVerified,
         Timeout, ledgerVars, vars
<1>2. \A p \in Requests : Touches(p)' = Touches(p)
  BY <1>1 DEF Touches
<1>3. \A p \in Requests : \A a \in A : Agrees(p, a)' <=> Agrees(p, a)
  BY <1>1 DEF Agrees, Pending
<1> QED
  BY <1>1, <1>2, <1>3 DEF Books

(* A transfer is between two accounts: the lock on the sender stops a user  *)
(* who sends to himself, the other transfers have the treasury at one end.  *)
LEMMA ApartStep ==
  ASSUME TypeOK, Exclusion, Apart, NEW p \in Requests,
         Begin(p) \/ Proceed(p) \/ Land(p)
  PROVE  Apart'
<1>0. /\ pc \in [Requests -> Steps] /\ job \in [Requests -> Jobs]
      /\ Others(p) /\ ShapeOf(p)
  BY OthersFrame DEF TypeOK, Exclusion, Shape
<1> SUFFICES ASSUME pc'[p] \in TransferSteps
             PROVE  job'[p].from # job'[p].to
  BY <1>0 DEF Apart, Others
<1>1. CASE Begin(p)
  <2>1. PICK u \in Users, amt \in Amounts :
          \/ job'[p] = NewJob("treasury", u, Treasury, amt)
          \/ job'[p] = NewJob("fine", u, Treasury, amt)
          \/ job'[p] = [NewJob("treasury", u, u, amt) EXCEPT !.from = Treasury]
    BY <1>0, <1>1
       DEF Begin, Ask, BeginRoll, BeginFine, FundTreasury, WithdrawTreasury,
           Unlocked, Start, TransferSteps
  <2> QED
    BY <2>1, NamesAssumption DEF NewJob
<1>2. CASE LockReceiver(p)
  <2>1. /\ pc[p] = "lockReceiver" /\ job'[p] = job[p]
        /\ ~HasLock(job[p].to)
    BY <1>0, <1>2 DEF LockReceiver, At, Continue, Goto, InsertLock
  <2>2. job[p].kind = "send" /\ job[p].from \in Users
    BY <1>0, <2>1
       DEF ShapeOf, Jobs, RollSteps, TransferSteps, WithdrawSteps
  <2>3. locks[job[p].from].holder = p
    BY <2>1, <2>2 DEF Exclusion, Held, Holds, Inside, SendInside, Guarded
  <2>4. HasLock(job[p].from)
    BY <2>3, NoRequestAssumption DEF HasLock, NoLock
  <2> QED
    BY <2>1, <2>4
<1>3. CASE Roll(p)
  <2>1. job[p].kind = "roll"
    BY <1>0, <1>3
       DEF ShapeOf, Jobs, Roll, RollCheckUser, RollRefused, RollWon, RollLost,
           RollRelease, RollRelabel, RollReplied, RollReplyFails, At,
           SendSteps, TransferSteps, WithdrawSteps
  <2>2. \/ job'[p].from = Treasury /\ job'[p].to = job[p].user
        \/ job'[p] = job[p]
    BY <1>0, <1>3
       DEF Roll, RollCheckUser, RollRefused, RollWon, RollLost, RollRelease,
           RollRelabel, RollReplied, RollReplyFails, At, Continue, Goto,
           Finish, TransferSteps, Jobs
  <2> QED
    BY <1>0, <2>1, <2>2, NamesAssumption DEF ShapeOf
<1>4. CASE Transfer(p)
  <2>1. pc[p] \in TransferSteps /\ job'[p] = job[p]
    BY <1>0, <1>4
       DEF Transfer, TransferReadFrom, TransferReadTo, TransferWriteFrom,
           TransferWriteTo, TransferRecord, Continue, Goto, Finish, At,
           TransferSteps
  <2> QED
    BY <2>1 DEF Apart
<1>5. CASE Withdraw(p) \/ SendTokens(p) \/ Land(p) \/ Answered(p)
  <2>1. pc'[p] \notin TransferSteps
    <3>1. CASE Withdraw(p)
      BY <1>0, <3>1
         DEF Withdraw, StealLock, LockWithdrawal, DebitUser, RecordDebitUser,
             StoreHash, Settle, PayGas, RecordGas, Refund, RecordRefund,
             UnlockWithdrawal, Continue, Goto, Finish, TransferSteps
    <3>2. CASE SendTokens(p) \/ Land(p) \/ Answered(p)
      BY <1>0, <3>2
         DEF SendTokens, SendReturns, SendThrows, Land, Answered, BeginSend,
             BeginWithdraw, Refuse, TransferSteps
    <3> QED
      BY <1>5, <3>1, <3>2
  <2> QED
    BY <2>1
<1>6. CASE LockReceiverFails(p) \/ Unlock(p)
  BY <1>0, <1>6 DEF LockReceiverFails, Unlock, Finish, TransferSteps
<1> QED
  BY <1>1, <1>2, <1>3, <1>4, <1>5, <1>6 DEF Proceed, Send

LEMMA ApartRest ==
  ASSUME Apart, UNCHANGED vars \/ Sweep \/ \E u \in Users : Timeout(u)
  PROVE  Apart'
<1>1. pc' = pc /\ job' = job
  BY DEF Sweep, SweepStart, SweepRow, SweepDelete, SweepVerify, SweepVerified,
         Timeout, vars
<1> QED
  BY <1>1 DEF Apart

------------------------------------------------------------------------------
(* Who shares an account with whom.                                         *)

(* One handler at a time, once no batch holds two.                          *)
Single == \A h, g \in ready : h = g

LEMMA SingleInvariant ==
  ASSUME ~Batching PROVE Spec => []Single
<1>1. Init => Single
  BY DEF Init, LoopInit, Single
<1>2. ASSUME Single, [Next]_vars PROVE Single'
  <2>1. SUFFICES ready' \subseteq ready \/ \E h : ready' = {h}
    BY <1>2 DEF Single
  <2>2. CASE UNCHANGED vars
    BY <2>2 DEF vars
  <2>3. ASSUME NEW p \in Requests, Begin(p)
        PROVE  ready' \subseteq ready \/ \E h : ready' = {h}
    BY <2>3 DEF Begin, Ask, Pass, BeginRoll, BeginFine, FundTreasury,
                WithdrawTreasury, Unlocked, Arrive
  <2>4. ASSUME NEW p \in Requests, Proceed(p)
        PROVE  ready' \subseteq ready \/ \E h : ready' = {h}
    <3> USE DEF Continue, Goto, Finish, Tick, Suspend, Wake, loopVars
    <3>1. CASE Answered(p) \/ SendTokens(p) \/ Send(p)
      BY <3>1 DEF Answered, BeginSend, BeginWithdraw, Refuse, SendTokens,
                  SendReturns, SendThrows, Send, LockReceiver,
                  LockReceiverFails, Unlock
    <3>2. CASE Transfer(p)
      BY <3>2 DEF Transfer, TransferReadFrom, TransferReadTo,
                  TransferWriteFrom, TransferWriteTo, TransferRecord
    <3>3. CASE Roll(p)
      BY <3>3 DEF Roll, RollCheckUser, RollRefused, RollWon, RollLost,
                  RollRelease, RollRelabel, RollReplied, RollReplyFails
    <3>4. CASE Withdraw(p)
      BY <3>4 DEF Withdraw, StealLock, LockWithdrawal, DebitUser,
                  RecordDebitUser, StoreHash, Settle, PayGas, RecordGas,
                  Refund, RecordRefund, UnlockWithdrawal
    <3> QED
      BY <2>4, <3>1, <3>2, <3>3, <3>4 DEF Proceed
  <2>5. ASSUME NEW p \in Requests, Land(p) \/ StatementFails(p)
        PROVE  ready' \subseteq ready \/ \E h : ready' = {h}
    BY <2>5 DEF Land, StatementFails, Continue, Goto, Finish, Tick, Suspend,
                loopVars
  <2>6. CASE Sweep \/ Crash \/ \E u \in Users : Timeout(u)
    BY <2>6 DEF Sweep, SweepStart, SweepRow, SweepVerify, SweepVerified, Wake,
                Tick, Suspend, Crash, Halt, Timeout, loopVars
  <2>7. CASE Next
    BY <2>3, <2>4, <2>5, <2>6, <2>7 DEF Next
  <2> QED
    BY <1>2, <2>2, <2>7
<1> QED
  BY <1>1, <1>2, PTL DEF Spec

(* What touches an account is runnable.                                     *)
LEMMA TouchesIsReady ==
  ASSUME Shape, NEW p \in Requests, NEW a \in Touches(p)
  PROVE  p \in ready
<1>1. /\ ShapeOf(p)
      /\ pc[p] \in TransferSteps \cup {"recordDebit", "recordRefund",
                                       "recordGas"}
  BY DEF Shape, Touches
<1> QED
  BY <1>1 DEF ShapeOf, TransferSteps

LEMMA SingleIsSole ==
  ASSUME Shape, Single PROVE Sole(Accounts)
BY TouchesIsReady DEF Sole, Single

(* Fines and the commands of the treasury take no lock.  Without them, what *)
(* touches a user's account at the same time holds his lock.                *)
Locked == \A p \in Requests : job[p].kind \notin {"fine", "treasury"}

LEMMA LockedInvariant ==
  ASSUME Kinds \cap {"fine", "treasury"} = {} PROVE Spec => []Locked
<1>1. Init => Locked
  BY DEF Init, IdleJob, NewJob, Locked
<1>2. ASSUME TypeOK, Locked, [Next]_vars PROVE Locked'
  <2>0. job \in [Requests -> Jobs]
    BY <1>2 DEF TypeOK
  <2>1. SUFFICES ASSUME NEW p \in Requests, job'[p] # job[p]
                 PROVE  job'[p].kind \in Kinds \cup {"none", job[p].kind}
    BY <1>2 DEF Locked
  <2>2. CASE UNCHANGED vars
    BY <2>1, <2>2 DEF vars
  <2>3. ASSUME NEW q \in Requests, Begin(q)
        PROVE  job'[p].kind \in Kinds \cup {"none", job[p].kind}
    BY <2>0, <2>1, <2>3
       DEF Begin, Ask, BeginRoll, BeginFine, FundTreasury, WithdrawTreasury,
           Unlocked, Start
  <2>4. ASSUME NEW q \in Requests, NEW j \in Jobs,
               job' = [job EXCEPT ![q] = j],
               j.kind \in {job[q].kind, "none"}
        PROVE  job'[p].kind \in Kinds \cup {"none", job[p].kind}
    BY <2>0, <2>1, <2>4
  <2>5. /\ IdleJob \in Jobs /\ IdleJob.kind = "none"
        /\ \A q \in Requests, f \in {"landed", "rejected"} :
             /\ [job[q] EXCEPT !.fate = f] \in Jobs
             /\ [job[q] EXCEPT !.fate = f].kind = job[q].kind
        /\ \A q \in Requests :
             /\ [job[q] EXCEPT !.caught = TRUE] \in Jobs
             /\ [job[q] EXCEPT !.caught = TRUE].kind = job[q].kind
    BY <2>0, IdleIsJob DEF Jobs, IdleJob, NewJob
  <2>6. ASSUME NEW q \in Requests, RollWon(q)
        PROVE  job'[p].kind \in Kinds \cup {"none", job[p].kind}
    BY <2>0, <2>1, <2>6 DEF RollWon, Jobs
  <2>7. ASSUME NEW q \in Requests, Land(q)
        PROVE  job'[p].kind \in Kinds \cup {"none", job[p].kind}
    BY <2>4, <2>5, <2>7 DEF Land
  <2>8. ASSUME NEW q \in Requests,
               job' = job \/ job' = [job EXCEPT ![q] = IdleJob]
        PROVE  job'[p].kind \in Kinds \cup {"none", job[p].kind}
    BY <2>1, <2>4, <2>5, <2>8
  <2>9. ASSUME NEW q \in Requests, Proceed(q), ~RollWon(q)
        PROVE  job' = job \/ job' = [job EXCEPT ![q] = IdleJob]
    <3> USE DEF Continue, Goto, Finish
    <3>1. CASE Answered(q) \/ SendTokens(q) \/ Send(q)
      BY <3>1 DEF Answered, BeginSend, BeginWithdraw, Refuse, SendTokens,
                  SendReturns, SendThrows, Send, LockReceiver,
                  LockReceiverFails, Unlock
    <3>2. CASE Transfer(q)
      BY <3>2 DEF Transfer, TransferReadFrom, TransferReadTo,
                  TransferWriteFrom, TransferWriteTo, TransferRecord
    <3>3. CASE Roll(q)
      BY <2>9, <3>3 DEF Roll, RollCheckUser, RollRefused, RollLost,
                  RollRelease, RollRelabel, RollReplied, RollReplyFails
    <3>4. CASE Withdraw(q)
      BY <3>4 DEF Withdraw, StealLock, LockWithdrawal, DebitUser,
                  RecordDebitUser, StoreHash, Settle, PayGas, RecordGas,
                  Refund, RecordRefund, UnlockWithdrawal
    <3> QED
      BY <2>9, <3>1, <3>2, <3>3, <3>4 DEF Proceed
  <2>10. ASSUME NEW q \in Requests, StatementFails(q)
         PROVE  job'[p].kind \in Kinds \cup {"none", job[p].kind}
    <3>1. \/ job' = [job EXCEPT ![q] = [job[q] EXCEPT !.caught = TRUE]]
          \/ job' = job \/ job' = [job EXCEPT ![q] = IdleJob]
      BY <2>10 DEF StatementFails, Continue, Goto, Finish
    <3> QED
      BY <2>4, <2>5, <2>8, <3>1
  <2>11. CASE Sweep \/ \E u \in Users : Timeout(u)
    BY <2>1, <2>11 DEF Sweep, SweepStart, SweepRow, SweepDelete, SweepVerify,
                       SweepVerified, Timeout
  <2>12. CASE Crash
    BY <2>5, <2>12 DEF Crash
  <2>13. CASE Next
    BY <2>3, <2>6, <2>7, <2>8, <2>9, <2>10, <2>11, <2>12, <2>13 DEF Next
  <2> QED
    BY <1>2, <2>2, <2>13
<1> QED
  BY <1>1, <1>2, TypeCorrect, PTL DEF Spec

LEMMA LockedIsSole ==
  ASSUME TypeOK, Exclusion, Locked PROVE Sole(Users)
<1> SUFFICES ASSUME NEW p \in Requests, NEW q \in Requests, NEW a \in Users,
                    a \in Touches(p), a \in Touches(q)
             PROVE  p = q
  BY DEF Sole
<1>1. p \in ready /\ q \in ready /\ ShapeOf(p) /\ ShapeOf(q)
  BY TouchesIsReady DEF Exclusion, Shape
<1>2. CASE ~batch
  BY <1>1, <1>2 DEF Exclusion, Isolation
<1>3. CASE batch
  <2>1. job[p].kind = "roll" /\ job[q].kind = "roll"
    BY <1>1, <1>3 DEF Exclusion, Isolation, Locked
  <2>2. /\ pc[p] \in TransferSteps /\ a \in {job[p].from, job[p].to}
        /\ pc[q] \in TransferSteps /\ a \in {job[q].from, job[q].to}
    BY <1>1, <2>1 DEF Touches, ShapeOf, RollSteps, TransferSteps
  <2>3. Inside(p) /\ a \in Guarded(p) /\ Inside(q) /\ a \in Guarded(q)
    BY <2>1, <2>2 DEF Inside, RollInside, Guarded, TransferSteps
  <2> QED
    BY <2>3 DEF Exclusion, Held, Holds
<1> QED
  BY <1>2, <1>3

------------------------------------------------------------------------------
(* The theorems about the books.                                            *)

Clean(A) == Unharmed /\ Apart /\ Books(A)

BooksInv(A) == TypeOK /\ (NoFaults => Clean(A))

LEMMA InitBooks ==
  ASSUME NEW A, A \subseteq Accounts PROVE Init => BooksInv(A)
<1> SUFFICES ASSUME Init PROVE Clean(A)
  BY InitType DEF BooksInv
<1>1. Unharmed
  BY InitLeak DEF LeakInv, NoFaults, Init
<1>2. \A p \in Requests : pc[p] = "idle"
  BY DEF Init
<1>3. Apart /\ \A p \in Requests : Touches(p) = {}
  BY <1>2 DEF Apart, Touches, TransferSteps
<1>4. bal = audit
  BY DEF Init
<1> QED
  BY <1>1, <1>3, <1>4 DEF Clean, Books

LEMMA NextBooks ==
  ASSUME NEW A, A \subseteq Accounts, BooksInv(A), [Next]_vars,
         NoFaults => Sole(A), NoFaults' => Sole(A)'
  PROVE  BooksInv(A)'
<1> SUFFICES ASSUME NoFaults' PROVE Clean(A)'
  BY NextType DEF BooksInv
<1>1. TypeOK
  BY DEF BooksInv
<1>2. NoFaults /\ Unharmed /\ Apart /\ Books(A) /\ Sole(A) /\ Sole(A)'
  BY <1>1, NoNewFault DEF BooksInv, Clean
<1>3. Unharmed'
  BY <1>1, <1>2, NextLeak DEF LeakInv
<1>4. CASE \E p \in Requests : Begin(p) \/ Proceed(p) \/ Land(p)
  <2>1. Apart' /\ Books(A)'
    BY <1>1, <1>2, <1>4, ApartStep, BooksStep DEF Unharmed
  <2> QED
    BY <1>3, <2>1 DEF Clean
<1>5. CASE UNCHANGED vars \/ Sweep \/ \E u \in Users : Timeout(u)
  <2>1. Apart' /\ Books(A)'
    BY <1>2, <1>5, ApartRest, BooksRest
  <2> QED
    BY <1>3, <2>1 DEF Clean
<1> QED
  BY <1>1, <1>4, <1>5, NoNewFault

(* Between drains nobody touches an account.                                *)
LEMMA BooksAtRest ==
  ASSUME NEW A, BooksInv(A), NoFaults, ready = {}
  PROVE  \A a \in A : bal[a] = audit[a]
<1>1. \A p \in Requests : \A a \in A : a \notin Touches(p)
  BY TouchesIsReady DEF BooksInv, Clean, Unharmed, Exclusion
<1> QED
  BY <1>1 DEF BooksInv, Clean, Books

(* The whole ledger, when handlers run one at a time.                       *)
AllBooksInv == BooksInv(Accounts)

LEMMA AllBooksInvariant ==
  ASSUME ~Batching PROVE Spec => []AllBooksInv
<1>1. Init => AllBooksInv
  BY InitBooks DEF AllBooksInv
<1>2. LeakInv /\ Single => (NoFaults => Sole(Accounts))
  BY SingleIsSole DEF LeakInv, Unharmed, Exclusion
<1>3. /\ AllBooksInv /\ [Next]_vars
      /\ (NoFaults => Sole(Accounts)) /\ (NoFaults => Sole(Accounts))'
      => AllBooksInv'
  BY NextBooks DEF AllBooksInv
<1> QED
  BY <1>1, <1>2, <1>3, LeakInvariant, SingleInvariant, PTL DEF Spec

(* What rounding n fees may amount to.                                      *)
LEMMA RoundingIsBounded ==
  ASSUME NEW n \in Nat
  PROVE  /\ n * FeeRounding \in Int
         /\ -(n * PartsOfUnit) <= 2 * (n * FeeRounding)
         /\ 2 * (n * FeeRounding) <= n * PartsOfUnit
<1>1. FeeRounding \in Int /\ PartsOfUnit \in Int
  BY WalletAssumption DEF FeeRounding, FeeInParts, PartsOfUnit
<1>2. -PartsOfUnit <= 2 * FeeRounding /\ 2 * FeeRounding <= PartsOfUnit
  BY GasAssumption
<1>3. \A r \in Int, w \in Int :
        -w <= 2 * r /\ 2 * r <= w =>
          /\ n * r \in Int
          /\ -(n * w) <= 2 * (n * r)
          /\ 2 * (n * r) <= n * w
  <2> SUFFICES ASSUME NEW r \in Int, NEW w \in Int, -w <= 2 * r, 2 * r <= w
               PROVE  /\ n * r \in Int
                      /\ -(n * w) <= 2 * (n * r)
                      /\ 2 * (n * r) <= n * w
    OBVIOUS
  <2>1. 0 <= n * (w - 2 * r) /\ 0 <= n * (w + 2 * r)
    OBVIOUS
  <2>2. /\ n * (w - 2 * r) = n * w - 2 * (n * r)
        /\ n * (w + 2 * r) = n * w + 2 * (n * r)
    OBVIOUS
  <2>3. n * r \in Int /\ n * w \in Int
    OBVIOUS
  <2> QED
    BY <2>1, <2>2, <2>3
<1> QED
  BY <1>1, <1>2, <1>3

(* BalancesMatchAudit: when no batch holds two requests that await no I/O,  *)
(* nothing crashes and no statement fails, then whatever else interleaves   *)
(* (asks, answers of Telegram and of the chain, stolen and expired locks,   *)
(* the cleanup), each time the loop is idle every balance is the sum of its *)
(* rows in the log, the reserve's to half a micro-unit for each fee: no     *)
(* update is lost, none is written twice.                                   *)
THEOREM BooksBalance ==
  ASSUME ~Batching PROVE Spec => []BalancesMatchAudit
<1>1. AllBooksInv => BalancesMatchAudit
  <2> SUFFICES ASSUME AllBooksInv, NoFaults, ready = {}
               PROVE  BalancesMatchAudit
    BY DEF BalancesMatchAudit
  <2>1. \A a \in Accounts : bal[a] = audit[a] /\ bal[a] \in Int
    BY BooksAtRest DEF AllBooksInv, BooksInv, TypeOK, LedgerTypeOK
  <2>2. Reserve \in Accounts
    BY DEF Accounts
  <2>3. \A a \in Accounts \ {Reserve} : PartsOfUnit * bal[a] = LoggedInParts(a)
    BY <2>1 DEF LoggedInParts, PartsOfUnit
  <2>4. /\ gas * FeeRounding \in Int
        /\ -(gas * PartsOfUnit) <= 2 * (gas * FeeRounding)
        /\ 2 * (gas * FeeRounding) <= gas * PartsOfUnit
    BY RoundingIsBounded DEF AllBooksInv, BooksInv, TypeOK
  <2>5. PartsOfUnit * bal[Reserve] - LoggedInParts(Reserve)
          = -(gas * FeeRounding)
    BY <2>1, <2>2, <2>4 DEF LoggedInParts, PartsOfUnit
  <2>6. gas * PartsOfUnit \in Int
    BY DEF AllBooksInv, BooksInv, TypeOK, PartsOfUnit
  <2> DEFINE e == gas * FeeRounding
             b == gas * PartsOfUnit
  <2>7. -b <= 2 * (-e) /\ 2 * (-e) <= b
    <3> HIDE DEF e, b
    <3>1. e \in Int /\ b \in Int /\ -b <= 2 * e /\ 2 * e <= b
      BY <2>4, <2>6 DEF e, b
    <3> QED
      BY <3>1
  <2> QED
    BY <2>3, <2>5, <2>7 DEF BalancesMatchAudit
<1> QED
  BY <1>1, AllBooksInvariant, PTL

(* The users' accounts, when whatever runs in batches takes a lock.         *)
UserBooksInv == BooksInv(Users)

LEMMA UserBooksInvariant ==
  ASSUME Kinds \cap {"fine", "treasury"} = {} PROVE Spec => []UserBooksInv
<1>0. Users \subseteq Accounts
  BY DEF Accounts
<1>1. Init => UserBooksInv
  BY <1>0, InitBooks DEF UserBooksInv
<1>2. LeakInv /\ Locked => (NoFaults => Sole(Users))
  BY LockedIsSole DEF LeakInv, Unharmed
<1>3. /\ UserBooksInv /\ [Next]_vars
      /\ (NoFaults => Sole(Users)) /\ (NoFaults => Sole(Users))'
      => UserBooksInv'
  BY <1>0, NextBooks DEF UserBooksInv
<1> QED
  BY <1>1, <1>2, <1>3, LeakInvariant, LockedInvariant, PTL DEF Spec

(* UsersMatchAudit: with batches of /roll beside /send and /withdraw the    *)
(* treasury may lose updates, a user never does: the row that /roll puts    *)
(* into transaction_locks is enough for him.  /payallfines and the commands *)
(* of the treasury take no row, and are left out.                           *)
THEOREM UserBooksBalance ==
  ASSUME Kinds \cap {"fine", "treasury"} = {} PROVE Spec => []UsersMatchAudit
<1>1. UserBooksInv => UsersMatchAudit
  BY BooksAtRest DEF UserBooksInv, UsersMatchAudit
<1> QED
  BY <1>1, UserBooksInvariant, PTL

=============================================================================
