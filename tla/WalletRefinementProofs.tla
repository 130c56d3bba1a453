------------------------ MODULE WalletRefinementProofs ------------------------
(***************************************************************************)
(* Wallet implements IdealLedger, and promises no more than the bot holds  *)
(* on chain, for every value of the constants that leaves out what the     *)
(* code does not survive: batches of requests that await no I/O, failing   *)
(* statements, an answer of the chain that comes after sendTokens has      *)
(* given up and, for the refinement, crashes.                              *)
(***************************************************************************)
EXTENDS WalletLedgerProofs, SumProofs

USE DEF AskSteps

(* Where a withdrawal can be, knowing what became of its transaction.       *)
FateOf(p) ==
  /\ pc[p] \in Steps \ {"sending", "storeHash", "settle", "gas", "recordGas",
                        "refund", "recordRefund", "unlockWithdrawal"}
       => job[p].fate = "none"
  /\ pc[p] = "storeHash" => job[p].fate # "none"
  /\ pc[p] = "settle" => job[p].fate = "landed"
  /\ pc[p] \in {"refund", "recordRefund"} => job[p].fate # "landed"
  /\ job[p].kind = "withdraw" => job[p].amt # 0

Fates == \A p \in Requests : FateOf(p)

LEMMA FatesFrame ==
  ASSUME Fates, NEW p \in Requests, Others(p), FateOf(p)'
  PROVE  Fates'
<1> SUFFICES ASSUME NEW q \in Requests PROVE FateOf(q)'
  BY DEF Fates
<1>1. CASE q # p
  <2>1. FateOf(q) /\ pc'[q] = pc[q] /\ job'[q] = job[q]
    BY <1>1 DEF Fates, Others
  <2> QED
    BY <2>1 DEF FateOf
<1> QED
  BY <1>1

LEMMA FatesStep ==
  ASSUME ~LateThrow, TypeOK, Shape, Fates, NEW p \in Requests,
         Begin(p) \/ Proceed(p) \/ Land(p)
  PROVE  Fates'
<1>0. /\ pc \in [Requests -> Steps] /\ job \in [Requests -> Jobs]
      /\ Others(p) /\ FateOf(p) /\ ShapeOf(p) /\ job[p] \in Jobs
  BY OthersFrame DEF TypeOK, Fates, Shape
<1>i. ASSUME pc'[p] = "idle", job'[p] = IdleJob
      PROVE  Fates'
  <2>1. FateOf(p)'
    BY <1>i DEF FateOf, IdleJob, NewJob
  <2> QED
    BY <1>0, <2>1, FatesFrame
<1>e. ASSUME job'[p] = job[p], job[p].fate = "none",
             pc'[p] \notin {"storeHash", "settle"}
      PROVE  Fates'
  <2>1. FateOf(p)'
    BY <1>0, <1>e DEF FateOf
  <2> QED
    BY <1>0, <2>1, FatesFrame
<1>1. CASE Begin(p)
  <2>1. PICK u \in Users, amt \in Amounts :
          \/ \E v \in Users : Ask(p, "send", u, v, amt)
          \/ Ask(p, "withdraw", u, u, amt)
          \/ BeginRoll(p, u, amt)
          \/ BeginFine(p, u, amt)
          \/ FundTreasury(p, u, amt) \/ WithdrawTreasury(p, u, amt)
    BY <1>1 DEF Begin
  <2>2. pc'[p] \in {"asked", "checkUser", "readFrom"}
    BY <1>0, <1>1
       DEF Begin, Ask, BeginRoll, BeginFine, FundTreasury, WithdrawTreasury,
           Unlocked, Start
  <2>3. job'[p].fate = "none" /\ job'[p].amt # 0
    <3>1. \/ \E v \in Users : job'[p] = NewJob("send", u, v, amt)
          \/ job'[p] = NewJob("withdraw", u, u, amt)
          \/ job'[p] = NewJob("roll", u, Treasury, amt)
          \/ job'[p] = NewJob("fine", u, Treasury, amt)
          \/ job'[p] = NewJob("treasury", u, Treasury, amt)
          \/ job'[p] = [NewJob("treasury", u, u, amt) EXCEPT !.from = Treasury]
      BY <1>0, <2>1
         DEF Ask, BeginRoll, BeginFine, FundTreasury, WithdrawTreasury,
             Unlocked, Start
    <3>2. amt # 0
      BY WalletAssumption
    <3>3. \A kind, to : /\ NewJob(kind, u, to, amt).fate = "none"
                        /\ NewJob(kind, u, to, amt).amt = amt
      BY DEF NewJob
    <3>4. CASE job'[p] = [NewJob("treasury", u, u, amt) EXCEPT !.from = Treasury]
      BY <3>2, <3>4 DEF NewJob
    <3>5. CASE \E kind, to : job'[p] = NewJob(kind, u, to, amt)
      BY <3>2, <3>3, <3>5
    <3> QED
      BY <3>1, <3>4, <3>5
  <2>4. FateOf(p)'
    BY <2>2, <2>3 DEF FateOf
  <2> QED
    BY <1>0, <2>4, FatesFrame
<1>2. CASE Answered(p) \/ Send(p)
  <2>1. /\ pc[p] \in AskSteps \cup SendSteps
        /\ pc'[p] \in {"lockReceiver", "steal", "lock", "readFrom", "idle"}
        /\ job'[p] = job[p] \/ (pc'[p] = "idle" /\ job'[p] = IdleJob)
    BY <1>0, <1>2
       DEF Answered, BeginSend, BeginWithdraw, Refuse, Send, LockReceiver,
           LockReceiverFails, Unlock, At, Continue, Goto, Finish, SendSteps
  <2>2. job[p].fate = "none"
    BY <1>0, <2>1 DEF FateOf, SendSteps
  <2> QED
    BY <1>i, <1>e, <2>1, <2>2
<1>3. CASE Transfer(p)
  <2>1. /\ pc[p] \in TransferSteps
        /\ pc'[p] \in TransferSteps \cup {"unlock", "release", "releaseEnd",
                                          "idle"}
        /\ job'[p] = job[p] \/ (pc'[p] = "idle" /\ job'[p] = IdleJob)
    BY <1>0, <1>3
       DEF Transfer, TransferReadFrom, TransferReadTo, TransferWriteFrom,
           TransferWriteTo, TransferRecord, At, Continue, Goto, Finish,
           AfterTransfer, AfterFailedTransfer, TransferSteps
  <2>2. job[p].fate = "none"
    BY <1>0, <2>1 DEF FateOf, TransferSteps
  <2> QED
    BY <1>i, <1>e, <2>1, <2>2 DEF TransferSteps
<1>4. CASE RollWon(p)
  <2>1. /\ pc[p] = "checkTreasury" /\ pc'[p] = "readFrom"
        /\ job'[p].fate = job[p].fate /\ job'[p].kind = job[p].kind
    BY <1>0, <1>4 DEF RollWon, At, Goto, Jobs
  <2>2. job[p].fate = "none" /\ job[p].kind # "withdraw"
    BY <1>0, <2>1 DEF FateOf, ShapeOf, WithdrawSteps
  <2>3. FateOf(p)'
    BY <2>1, <2>2 DEF FateOf
  <2> QED
    BY <1>0, <2>3, FatesFrame
<1>5. CASE Roll(p) /\ ~RollWon(p)
  <2>1. /\ pc[p] \in RollSteps
        /\ pc'[p] \in RollSteps \cup {"readFrom", "idle"}
        /\ job'[p] = job[p] \/ (pc'[p] = "idle" /\ job'[p] = IdleJob)
    BY <1>0, <1>5
       DEF Roll, RollCheckUser, RollRefused, RollLost, RollRelease,
           RollRelabel, RollReplied, RollReplyFails, At, Continue, Goto,
           Finish, RollSteps
  <2>2. job[p].fate = "none"
    BY <1>0, <2>1 DEF FateOf, RollSteps
  <2> QED
    BY <1>i, <1>e, <2>1, <2>2 DEF RollSteps
<1>6. CASE Withdraw(p)
  <2>1. \/ pc'[p] = "idle" /\ job'[p] = IdleJob
        \/ /\ job'[p] = job[p]
           /\ \/ pc[p] \in {"steal", "lock", "debit", "recordDebit"}
                 /\ pc'[p] \in {"lock", "debit", "recordDebit", "sending"}
              \/ pc[p] = "storeHash"
                 /\ pc'[p] = IF job[p].fate = "rejected" THEN "refund"
                                                         ELSE "settle"
              \/ pc[p] = "refund" /\ pc'[p] = "recordRefund"
              \/ pc'[p] \in {"gas", "recordGas", "unlockWithdrawal"}
    BY <1>0, <1>6
       DEF Withdraw, StealLock, LockWithdrawal, DebitUser, RecordDebitUser,
           StoreHash, Settle, PayGas, RecordGas, Refund, RecordRefund,
           UnlockWithdrawal, At, Continue, Goto, Finish
  <2>2. job[p].fate \in {"none", "landed", "rejected"}
    BY <1>0 DEF Jobs
  <2>3. CASE job'[p] = job[p]
    <3>1. FateOf(p)'
      <4>1. CASE pc[p] \in {"steal", "lock", "debit", "recordDebit"}
                 /\ pc'[p] \in {"lock", "debit", "recordDebit", "sending"}
        BY <1>0, <2>3, <4>1 DEF FateOf
      <4>2. CASE pc[p] = "storeHash"
                 /\ pc'[p] = IF job[p].fate = "rejected" THEN "refund"
                                                         ELSE "settle"
        BY <1>0, <2>2, <2>3, <4>2 DEF FateOf
      <4>3. CASE pc[p] = "refund" /\ pc'[p] = "recordRefund"
        BY <1>0, <2>3, <4>3 DEF FateOf
      <4>4. CASE pc'[p] \in {"gas", "recordGas", "unlockWithdrawal"}
        BY <1>0, <2>3, <4>4 DEF FateOf
      <4>5. CASE pc'[p] = "idle" /\ job'[p] = IdleJob
        BY <4>5 DEF FateOf, IdleJob, NewJob
      <4> QED
        BY <2>1, <4>1, <4>2, <4>3, <4>4, <4>5
    <3> QED
      BY <1>0, <3>1, FatesFrame
  <2> QED
    BY <1>i, <2>1, <2>3
<1>7. CASE SendTokens(p)
  <2>1. /\ job'[p] = job[p] /\ pc[p] = "sending"
        /\ \/ pc'[p] = "storeHash" /\ job[p].fate # "none"
           \/ pc'[p] = "refund" /\ job[p].fate = "none"
    BY <1>0, <1>7 DEF SendTokens, SendReturns, SendThrows
  <2>2. FateOf(p)'
    BY <1>0, <2>1 DEF FateOf
  <2> QED
    BY <1>0, <2>2, FatesFrame
<1>8. CASE Land(p)
  <2>1. PICK f \in {"landed", "rejected"} :
          pc' = pc /\ job' = [job EXCEPT ![p] = [job[p] EXCEPT !.fate = f]]
    BY <1>8 DEF Land
  <2>2. /\ pc'[p] = "sending" /\ job'[p].kind = job[p].kind
        /\ job'[p].amt = job[p].amt
    BY <1>0, <1>8, <2>1 DEF Land, Jobs
  <2>3. FateOf(p)'
    BY <1>0, <2>2 DEF FateOf
  <2> QED
    BY <1>0, <2>3, FatesFrame
<1> QED
  BY <1>1, <1>2, <1>3, <1>4, <1>5, <1>6, <1>7, <1>8 DEF Proceed

LEMMA FatesRest ==
  ASSUME Fates, UNCHANGED vars \/ Sweep \/ \E u \in Users : Timeout(u)
  PROVE  Fates'
<1>1. pc' = pc /\ job' = job
  BY DEF Sweep, SweepStart, SweepRow, SweepDelete, SweepVerify, SweepVerified,
         Timeout, vars
<1> QED
  BY <1>1 DEF Fates, FateOf

------------------------------------------------------------------------------
(* The refinement mapping, by name.                                         *)

HoldOf(p) ==
  IF Holding(p) THEN [owner |-> job[p].user, amt |-> job[p].amt]
                ELSE [owner |-> Reserve, amt |-> 0]

HeldNow == [p \in Requests |-> HoldOf(p)]

Gone(p) == Holding(p) /\ job[p].fate = "landed"

DeliveredNow == {p \in Requests : Gone(p)}

(* A step of p changes the mapping at p only.                               *)
LEMMA MappingFrame ==
  ASSUME NEW p \in Requests, Others(p)
  PROVE  /\ HeldNow' = [HeldNow EXCEPT ![p] = HoldOf(p)']
         /\ DeliveredNow' = (DeliveredNow \ {p})
                              \cup (IF Gone(p)' THEN {p} ELSE {})
<1>1. \A q \in Requests \ {p} : /\ HoldOf(q)' = HoldOf(q)
                                /\ Gone(q)' <=> Gone(q)
  BY DEF Others, HoldOf, Gone, Holding
<1>2. HeldNow' = [HeldNow EXCEPT ![p] = HoldOf(p)']
  BY <1>1 DEF HeldNow
<1>3. DeliveredNow' = (DeliveredNow \ {p}) \cup (IF Gone(p)' THEN {p} ELSE {})
  BY <1>1 DEF DeliveredNow
<1> QED
  BY <1>2, <1>3

LEMMA MappingSame ==
  ASSUME NEW p \in Requests, Others(p), HoldOf(p)' = HoldOf(p),
         Gone(p)' <=> Gone(p)
  PROVE  HeldNow' = HeldNow /\ DeliveredNow' = DeliveredNow
<1>1. HeldNow' = HeldNow
  BY MappingFrame DEF HeldNow
<1>2. DeliveredNow' = DeliveredNow
  BY MappingFrame DEF DeliveredNow
<1> QED
  BY <1>1, <1>2

IdealStep == Ideal!Next \/ UNCHANGED Ideal!vars

LEMMA IdealStutters ==
  ASSUME audit' = audit, HeldNow' = HeldNow, DeliveredNow' = DeliveredNow
  PROVE  IdealStep
BY DEF IdealStep, Ideal!vars, HeldNow, DeliveredNow, HoldOf, Gone

(* What the mapping needs of a reachable state, and of the next one.        *)
Mappable == TypeOK /\ Shape /\ Fates /\ Apart /\ Books(Accounts) /\ NonNegative

LEMMA IdealMove ==
  ASSUME NEW from \in Accounts, NEW to \in Accounts, NEW amt \in 1 .. audit[from],
         Ideal!Move(from, to, amt)
  PROVE  IdealStep
BY DEF IdealStep, Ideal!Next

LEMMA IdealHold ==
  ASSUME NEW p \in Requests, NEW owner \in Accounts,
         NEW amt \in 1 .. audit[owner], Ideal!Hold(p, owner, amt)
  PROVE  IdealStep
BY DEF IdealStep, Ideal!Next

LEMMA IdealCounter ==
  ASSUME NEW p \in Requests,
         Ideal!Deliver(p) \/ Ideal!Close(p) \/ Ideal!GiveBack(p)
  PROVE  IdealStep
BY DEF IdealStep, Ideal!Next

LEMMA IdealFee ==
  ASSUME NEW amt \in 1 .. audit[Reserve], Ideal!Fee(amt)
  PROVE  IdealStep
BY DEF IdealStep, Ideal!Next

(* The rows of the log: a transfer is one movement.                         *)
LEMMA TransferRefines ==
  ASSUME Mappable, NonNegative', NEW p \in Requests, Transfer(p)
  PROVE  IdealStep
<1> DEFINE from == job[p].from
           to == job[p].to
           amt == job[p].amt
<1>0. /\ pc \in [Requests -> Steps] /\ job \in [Requests -> Jobs]
      /\ bal \in [Accounts -> Int] /\ audit \in [Accounts -> Int]
      /\ from \in Accounts /\ to \in Accounts /\ amt \in Nat
      /\ Others(p)
  BY OthersFrame DEF Mappable, TypeOK, LedgerTypeOK, Jobs, Proceed
<1>1. ~Holding(p) /\ ~Holding(p)'
  BY <1>0 DEF Transfer, TransferReadFrom, TransferReadTo, TransferWriteFrom,
     TransferWriteTo, TransferRecord, At, Continue, Goto, Finish,
     AfterTransfer, AfterFailedTransfer, Holding
<1>2. HeldNow' = HeldNow /\ DeliveredNow' = DeliveredNow
  BY <1>0, <1>1, MappingSame DEF HoldOf, Gone
<1>3. CASE ~TransferRecord(p)
  <2>1. audit' = audit
    BY <1>3 DEF Transfer, TransferReadFrom, TransferReadTo, TransferWriteFrom,
                TransferWriteTo, ReadFrom, ReadTo, WriteFrom, WriteTo, Forget
  <2> QED
    BY <1>2, <2>1, IdealStutters
<1>4. CASE TransferRecord(p)
  <2>1. /\ pc[p] = "record"
        /\ audit' = [a \in Accounts |->
                       audit[a] - (IF a = from THEN amt ELSE 0)
                                + (IF a = to THEN amt ELSE 0)]
    BY <1>4 DEF TransferRecord, At, RecordTransfer
  <2>2. from # to
    BY <2>1 DEF Mappable, Apart, TransferSteps
  <2>3. bal[from] = audit[from] - amt
    <3>1. from \in Touches(p)
      BY <1>0, <2>1 DEF Touches, TransferSteps
    <3>2. bal[from] = audit[from] + Pending(p, from)
      BY <1>0, <3>1 DEF Mappable, Books, Agrees
    <3>3. Pending(p, from) = - amt
      BY <2>1 DEF Pending
    <3> QED
      BY <1>0, <3>2, <3>3
  <2>4. amt <= audit[from]
    BY <1>0, <2>3 DEF Mappable, NonNegative
  <2>5. audit' = [audit EXCEPT ![from] = audit[from] - amt,
                               ![to] = audit[to] + amt]
    <3>1. /\ audit'[from] = audit[from] - amt /\ audit'[to] = audit[to] + amt
          /\ \A a \in Accounts \ {from, to} : audit'[a] = audit[a]
      BY <1>0, <2>1, <2>2
    <3>2. audit' = [a \in Accounts |-> audit'[a]]
      BY <2>1
    <3> HIDE DEF from, to, amt
    <3> QED
      BY <1>0, <2>2, <3>1, <3>2
  <2>6. CASE amt = 0
    <3>1. audit' = audit
      BY <1>0, <2>1, <2>6
    <3> QED
      BY <1>2, <3>1, IdealStutters
  <2>7. CASE amt # 0
    <3>1. amt \in 1 .. audit[from]
      BY <1>0, <2>4, <2>7
    <3>2. Ideal!Move(from, to, amt)
      BY <1>0, <1>2, <2>2, <2>4, <2>5
         DEF Ideal!Move, HeldNow, DeliveredNow, HoldOf, Gone
    <3> QED
      BY <1>0, <3>1, <3>2, IdealMove
  <2> QED
    BY <2>6, <2>7
<1> QED
  BY <1>3, <1>4

(* A withdrawal: held from its pending row to its completion or refund.     *)
LEMMA WithdrawRefines ==
  ASSUME Mappable, NEW p \in Requests, Withdraw(p)
  PROVE  IdealStep
<1> DEFINE u == job[p].user
           amt == job[p].amt
<1>0. /\ pc \in [Requests -> Steps] /\ job \in [Requests -> Jobs]
      /\ bal \in [Accounts -> Int] /\ audit \in [Accounts -> Int]
      /\ u \in Accounts /\ Reserve \in Accounts /\ amt \in Nat
      /\ GasFee \in Nat
      /\ Others(p) /\ FateOf(p) /\ ShapeOf(p)
  BY OthersFrame, WalletAssumption
     DEF Mappable, TypeOK, LedgerTypeOK, Jobs, Proceed, Accounts, Fates, Shape
<1>1. job[p].kind = "withdraw" /\ amt # 0
  <2>1. pc[p] \in WithdrawSteps
    BY DEF Withdraw, StealLock, LockWithdrawal, DebitUser, RecordDebitUser,
       StoreHash, Settle, PayGas, RecordGas, Refund, RecordRefund,
       UnlockWithdrawal, At, WithdrawSteps
  <2>2. job[p].kind = "withdraw"
    BY <1>0, <2>1 DEF ShapeOf, SendSteps, RollSteps, TransferSteps,
                      WithdrawSteps, Jobs
  <2> QED
    BY <1>0, <2>2 DEF FateOf
<1>2. CASE RecordDebitUser(p)
  <2>1. /\ pc[p] = "recordDebit" /\ pc'[p] = "sending" /\ job'[p] = job[p]
        /\ audit' = [audit EXCEPT ![u] = audit[u] - amt]
    BY <1>0, <1>2 DEF RecordDebitUser, RecordDebit, At
  <2>2. amt \in 1 .. audit[u]
    <3>1. u \in Touches(p)
      BY <1>0, <2>1 DEF Touches
    <3>2. bal[u] = audit[u] + Pending(p, u)
      BY <1>0, <3>1 DEF Mappable, Books, Agrees
    <3>3. Pending(p, u) = - amt
      BY <2>1 DEF Pending
    <3>4. bal[u] >= 0
      BY <1>0 DEF Mappable, NonNegative
    <3> QED
      BY <1>0, <1>1, <3>2, <3>3, <3>4
  <2>3. /\ HeldNow[p] = [owner |-> Reserve, amt |-> 0]
        /\ HeldNow' = [HeldNow EXCEPT ![p] = [owner |-> u, amt |-> amt]]
    <3>1. HoldOf(p) = [owner |-> Reserve, amt |-> 0]
      BY <2>1 DEF HoldOf, Holding
    <3>2. HoldOf(p)' = [owner |-> u, amt |-> amt]
      BY <2>1 DEF HoldOf, Holding
    <3>3. HeldNow[p] = HoldOf(p)
      BY DEF HeldNow
    <3> QED
      BY <1>0, <3>1, <3>2, <3>3, MappingFrame
  <2>4. DeliveredNow' = DeliveredNow
    <3>1. job[p].fate = "none"
      BY <1>0, <2>1 DEF FateOf
    <3>2. ~Gone(p) /\ ~Gone(p)'
      BY <2>1, <3>1 DEF Gone
    <3> QED
      BY <1>0, <3>2, MappingFrame DEF DeliveredNow
  <2>5. PICK owner \in Accounts : owner = u
    BY <1>0
  <2>6. PICK m \in 1 .. audit[owner] : m = amt
    BY <2>2, <2>5
  <2>7. Ideal!Hold(p, owner, m)
    BY <1>0, <2>1, <2>2, <2>3, <2>4, <2>5, <2>6
       DEF Ideal!Hold, Ideal!Nothing, HeldNow, DeliveredNow, HoldOf, Gone
  <2> QED
    BY <2>7, IdealHold
<1>3. CASE Settle(p)
  <2>1. /\ pc[p] = "settle" /\ pc'[p] = "gas" /\ job'[p] = job[p]
        /\ audit' = audit
    BY <1>0, <1>3 DEF Settle, At, Continue, Goto, ledgerVars
  <2>2. HeldNow' = [HeldNow EXCEPT ![p] = [owner |-> Reserve, amt |-> 0]]
    <3>1. HoldOf(p)' = [owner |-> Reserve, amt |-> 0]
      BY <2>1 DEF HoldOf, Holding
    <3> QED
      BY <1>0, <3>1, MappingFrame
  <2>3. p \in DeliveredNow /\ DeliveredNow' = DeliveredNow \ {p}
    <3>1. Gone(p) /\ ~Gone(p)'
      BY <1>0, <2>1 DEF Gone, Holding, FateOf
    <3> QED
      BY <1>0, <3>1, MappingFrame DEF DeliveredNow
  <2>4. Ideal!Close(p)
    BY <2>1, <2>2, <2>3
       DEF Ideal!Close, Ideal!Nothing, HeldNow, DeliveredNow, HoldOf, Gone
  <2> QED
    BY <2>4, IdealCounter
<1>4. CASE RecordRefund(p)
  <2>1. /\ pc[p] = "recordRefund" /\ pc'[p] = "unlockWithdrawal"
        /\ audit' = [audit EXCEPT ![u] = audit[u] + amt]
    BY <1>0, <1>4 DEF RecordRefund, RecordCredit, At, Continue, Goto
  <2>2. /\ HeldNow[p] = [owner |-> u, amt |-> amt]
        /\ HeldNow' = [HeldNow EXCEPT ![p] = [owner |-> Reserve, amt |-> 0]]
    <3>1. HoldOf(p)' = [owner |-> Reserve, amt |-> 0]
      BY <2>1 DEF HoldOf, Holding
    <3>2. HoldOf(p) = [owner |-> u, amt |-> amt]
      BY <2>1 DEF HoldOf, Holding
    <3>3. HeldNow[p] = HoldOf(p)
      BY DEF HeldNow
    <3> QED
      BY <1>0, <3>1, <3>2, <3>3, MappingFrame
  <2>3. p \notin DeliveredNow /\ DeliveredNow' = DeliveredNow
    <3>1. ~Gone(p) /\ ~Gone(p)'
      BY <1>0, <2>1 DEF Gone, Holding, FateOf
    <3> QED
      BY <1>0, <3>1, MappingFrame DEF DeliveredNow
  <2>4. Ideal!GiveBack(p)
    <3>1. HeldNow[p].owner = u /\ HeldNow[p].amt = amt
          /\ HeldNow[p] # [owner |-> Reserve, amt |-> 0]
      BY <1>1, <2>2
    <3> QED
      BY <2>1, <2>2, <2>3, <3>1
         DEF Ideal!GiveBack, Ideal!Nothing, HeldNow, DeliveredNow, HoldOf, Gone
  <2> QED
    BY <2>4, IdealCounter
<1>5. CASE RecordGas(p)
  <2>1. /\ pc[p] = "recordGas" /\ pc'[p] = "unlockWithdrawal"
        /\ audit' = [audit EXCEPT ![Reserve] = audit[Reserve] - GasFee]
    BY <1>0, <1>5 DEF RecordGas, RecordDebit, At, Continue, Goto
  <2>2. GasFee <= audit[Reserve]
    <3>1. Reserve \in Touches(p)
      BY <1>0, <2>1 DEF Touches
    <3>2. bal[Reserve] = audit[Reserve] + Pending(p, Reserve)
      BY <1>0, <3>1 DEF Mappable, Books, Agrees
    <3>3. Pending(p, Reserve) = - GasFee
      BY <2>1 DEF Pending
    <3>4. bal[Reserve] >= 0
      BY <1>0 DEF Mappable, NonNegative
    <3> QED
      BY <1>0, <3>2, <3>3, <3>4
  <2>3. HeldNow' = HeldNow /\ DeliveredNow' = DeliveredNow
    <3>1. ~Holding(p) /\ ~Holding(p)'
      BY <2>1 DEF Holding
    <3> QED
      BY <1>0, <3>1, MappingSame DEF HoldOf, Gone
  <2>4. CASE GasFee = 0
    <3>1. audit' = audit
      BY <1>0, <2>1, <2>4
    <3> QED
      BY <2>3, <3>1, IdealStutters
  <2>5. CASE GasFee # 0
    <3>1. GasFee \in 1 .. audit[Reserve]
      BY <1>0, <2>2, <2>5
    <3>2. Ideal!Fee(GasFee)
      BY <1>0, <2>1, <2>2, <2>3
         DEF Ideal!Fee, HeldNow, DeliveredNow, HoldOf, Gone
    <3> QED
      BY <3>1, <3>2, IdealFee
  <2> QED
    BY <2>4, <2>5
<1>6. CASE StoreHash(p) \/ Refund(p)
  <2>1. /\ pc[p] \in {"storeHash", "refund"}
        /\ pc'[p] \in {"refund", "settle", "recordRefund"}
        /\ job'[p] = job[p] /\ audit' = audit
    BY <1>0, <1>6 DEF StoreHash, Refund, At, Continue, Goto, Credit, ledgerVars
  <2>2. HoldOf(p)' = HoldOf(p) /\ (Gone(p)' <=> Gone(p))
    BY <2>1 DEF HoldOf, Gone, Holding
  <2> QED
    BY <1>0, <2>1, <2>2, MappingSame, IdealStutters
<1>7. CASE \/ StealLock(p) \/ LockWithdrawal(p) \/ DebitUser(p) \/ PayGas(p)
           \/ UnlockWithdrawal(p)
  <2>1. /\ pc[p] \in {"steal", "lock", "debit", "gas", "unlockWithdrawal"}
        /\ pc'[p] \in {"lock", "debit", "recordDebit", "recordGas",
                       "unlockWithdrawal", "idle"}
        /\ audit' = audit
    BY <1>0, <1>7
       DEF StealLock, LockWithdrawal, DebitUser, PayGas, UnlockWithdrawal, At,
           Continue, Goto, Finish, Debit, Forget, ledgerVars
  <2>2. ~Holding(p) /\ ~Holding(p)'
    BY <2>1 DEF Holding
  <2>3. HoldOf(p)' = HoldOf(p) /\ (Gone(p)' <=> Gone(p))
    BY <2>2 DEF HoldOf, Gone
  <2> QED
    BY <1>0, <2>1, <2>3, MappingSame, IdealStutters
<1> HIDE DEF u, amt
<1> QED
  BY <1>2, <1>3, <1>4, <1>5, <1>6, <1>7 DEF Withdraw

(* The chain includes the transaction, and sendTokens answers.              *)
LEMMA ChainRefines ==
  ASSUME Mappable, NEW p \in Requests, SendTokens(p) \/ Land(p)
  PROVE  IdealStep
<1>0. /\ pc \in [Requests -> Steps] /\ job \in [Requests -> Jobs]
      /\ job[p] \in Jobs /\ Others(p) /\ FateOf(p) /\ ShapeOf(p)
  BY OthersFrame DEF Mappable, TypeOK, Proceed, Fates, Shape
<1>1. CASE SendTokens(p)
  <2>1. /\ pc[p] = "sending" /\ pc'[p] \in {"storeHash", "refund"}
        /\ job'[p] = job[p] /\ audit' = audit
    BY <1>0, <1>1 DEF SendTokens, SendReturns, SendThrows, ledgerVars
  <2>2. HoldOf(p)' = HoldOf(p) /\ (Gone(p)' <=> Gone(p))
    BY <2>1 DEF HoldOf, Gone, Holding
  <2> QED
    BY <1>0, <2>1, <2>2, MappingSame, IdealStutters
<1>2. CASE Land(p)
  <2>1. PICK f \in {"landed", "rejected"} :
          job' = [job EXCEPT ![p] = [job[p] EXCEPT !.fate = f]]
    BY <1>2 DEF Land
  <2>2. /\ pc[p] = "sending" /\ pc' = pc /\ audit' = audit
        /\ job[p].fate = "none" /\ job'[p].fate = f
        /\ job'[p].user = job[p].user /\ job'[p].amt = job[p].amt
    BY <1>0, <1>2, <2>1 DEF Land, ledgerVars, Jobs
  <2>3. job[p].amt # 0
    BY <1>0, <2>2 DEF FateOf, ShapeOf, SendSteps, RollSteps, TransferSteps, Jobs
  <2>4. HoldOf(p)' = HoldOf(p)
    BY <2>2 DEF HoldOf, Holding
  <2>5. HeldNow' = HeldNow
    BY <1>0, <2>4, MappingFrame DEF HeldNow
  <2>6. CASE f = "rejected"
    <3>1. ~Gone(p) /\ ~Gone(p)'
      BY <2>2, <2>6 DEF Gone
    <3> QED
      BY <1>0, <2>2, <2>4, <3>1, MappingSame, IdealStutters
  <2>7. CASE f = "landed"
    <3>1. ~Gone(p) /\ Gone(p)'
      BY <2>2, <2>7 DEF Gone, Holding
    <3>2. p \notin DeliveredNow /\ DeliveredNow' = DeliveredNow \cup {p}
      BY <1>0, <3>1, MappingFrame DEF DeliveredNow
    <3>3. HeldNow[p] # [owner |-> Reserve, amt |-> 0]
      BY <2>2, <2>3 DEF HeldNow, HoldOf, Holding
    <3>4. Ideal!Deliver(p)
      BY <2>2, <2>5, <3>2, <3>3
         DEF Ideal!Deliver, Ideal!Nothing, HeldNow, DeliveredNow, HoldOf, Gone
    <3> QED
      BY <3>4, IdealCounter
  <2> QED
    BY <2>6, <2>7
<1> QED
  BY <1>1, <1>2

(* Everything else is a stutter.                                            *)
LEMMA RequestRefines ==
  ASSUME Mappable, NonNegative', NEW p \in Requests,
         Begin(p) \/ Proceed(p) \/ Land(p)
  PROVE  IdealStep
<1>0. pc \in [Requests -> Steps] /\ Others(p)
  BY OthersFrame DEF Mappable, TypeOK
<1>q. ASSUME ~Holding(p), ~Holding(p)', audit' = audit
      PROVE  IdealStep
  <2>1. HoldOf(p)' = HoldOf(p) /\ (Gone(p)' <=> Gone(p))
    BY <1>q DEF HoldOf, Gone
  <2> QED
    BY <1>0, <1>q, <2>1, MappingSame, IdealStutters
<1>1. CASE Begin(p)
  BY <1>0, <1>1, <1>q
     DEF Begin, Ask, BeginRoll, BeginFine, FundTreasury, WithdrawTreasury,
         Unlocked, Start, Running, ledgerVars, Holding
<1>2. CASE Answered(p) \/ Send(p)
  BY <1>0, <1>2, <1>q
     DEF Answered, BeginSend, BeginWithdraw, Refuse, Send, LockReceiver,
         LockReceiverFails, Unlock, At, Continue, Goto, Finish, ledgerVars,
         Holding
<1>3. CASE Roll(p)
  BY <1>0, <1>3, <1>q
     DEF Roll, RollCheckUser, RollRefused, RollWon, RollLost, RollRelease,
         RollRelabel, RollReplied, RollReplyFails, At, Continue, Goto, Finish,
         ledgerVars, Holding
<1> QED
  BY <1>1, <1>2, <1>3, TransferRefines, WithdrawRefines, ChainRefines
     DEF Proceed

LEMMA RestRefines ==
  ASSUME UNCHANGED vars \/ Sweep \/ \E u \in Users : Timeout(u)
  PROVE  IdealStep
<1>1. pc' = pc /\ job' = job /\ audit' = audit
  BY DEF Sweep, SweepStart, SweepRow, SweepDelete, SweepVerify, SweepVerified,
         Timeout, ledgerVars, vars
<1>2. HeldNow' = HeldNow /\ DeliveredNow' = DeliveredNow
  BY <1>1 DEF HeldNow, DeliveredNow, HoldOf, Gone, Holding
<1> QED
  BY <1>1, <1>2, IdealStutters

------------------------------------------------------------------------------
(* The theorem.                                                             *)

LEMMA NoFaultsInvariant ==
  ASSUME MaxCrashes = 0, MaxErrors = 0 PROVE Spec => []NoFaults
<1>1. Init => NoFaults
  BY DEF Init, NoFaults
<1>2. TypeOK /\ NoFaults /\ [Next]_vars => NoFaults'
  <2> SUFFICES ASSUME TypeOK, NoFaults, [Next]_vars PROVE NoFaults'
    OBVIOUS
  <2> USE DEF NoFaults
  <2>1. ~Crash /\ \A p \in Requests : ~StatementFails(p)
    BY DEF Crash, StatementFails
  <2>2. ASSUME NEW p \in Requests, Begin(p)
        PROVE  NoFaults'
    BY <2>2 DEF TypeOK, Begin, Ask, BeginRoll, BeginFine, FundTreasury,
                WithdrawTreasury, Unlocked, Start
  <2>3. ASSUME NEW p \in Requests, Proceed(p) \/ Land(p)
        PROVE  NoFaults'
    BY <2>3
       DEF Proceed, Answered, BeginSend, BeginWithdraw, Refuse, Transfer,
           TransferReadFrom, TransferReadTo, TransferWriteFrom,
           TransferWriteTo, TransferRecord, Send, LockReceiver,
           LockReceiverFails, Unlock, Roll, RollCheckUser, RollRefused,
           RollWon, RollLost, RollRelease, RollRelabel, RollReplied,
           RollReplyFails, Withdraw, StealLock, LockWithdrawal, DebitUser,
           RecordDebitUser, StoreHash, Settle, PayGas, RecordGas, Refund,
           RecordRefund, UnlockWithdrawal, SendTokens, SendReturns,
           SendThrows, Land, Environment
  <2>4. CASE Sweep \/ \E u \in Users : Timeout(u)
    BY <2>4 DEF Sweep, SweepStart, SweepRow, SweepDelete, SweepVerify,
                SweepVerified, Timeout, Environment
  <2>5. CASE UNCHANGED vars
    BY <2>5 DEF vars
  <2>6. CASE Next
    BY <2>1, <2>2, <2>3, <2>4, <2>6 DEF Next
  <2> QED
    BY <2>5, <2>6
<1> QED
  BY <1>1, <1>2, TypeCorrect, PTL DEF Spec

LEMMA FatesInvariant ==
  ASSUME ~LateThrow, MaxCrashes = 0, MaxErrors = 0 PROVE Spec => []Fates
<1>1. Init => Fates
  BY DEF Init, Fates, FateOf, IdleJob, NewJob
<1>2. LeakInv /\ NoFaults /\ NoFaults' /\ Fates /\ [Next]_vars => Fates'
  BY NoNewFault, FatesStep, FatesRest DEF LeakInv, Unharmed, Exclusion
<1> QED
  BY <1>1, <1>2, LeakInvariant, NoFaultsInvariant, PTL DEF Spec

(* ImplementsIdealLedger: with one handler at a time, no crash, no failing  *)
(* statement and no late answer of the chain, the statements of every       *)
(* transfer, withdrawal, refund and gas payment add up to one atomic        *)
(* movement of the abstract ledger: no account is overdrawn, money is held  *)
(* for a withdrawal from its pending row on, and money that has left is     *)
(* never given back.                                                        *)
THEOREM WalletImplementsIdealLedger ==
  ASSUME ~Batching, ~LateThrow, MaxCrashes = 0, MaxErrors = 0
  PROVE  Spec => ImplementsIdealLedger
<1>1. Init => Ideal!Init
  <2> SUFFICES ASSUME Init PROVE Ideal!Init
    OBVIOUS
  <2>1. \A p \in Requests : ~Holding(p)
    BY DEF Init, Holding
  <2> QED
    BY <2>1 DEF Init, Ideal!Init, Ideal!Nothing
<1>2. LeakInv /\ AllBooksInv /\ NoFaults /\ Fates /\ NonNegative => Mappable
  BY DEF AllBooksInv, BooksInv, Clean, Unharmed, Exclusion, Mappable
<1>3. /\ Mappable /\ NonNegative' /\ NoFaults' /\ [Next]_vars
      => IdealStep
  BY NoNewFault, RequestRefines, RestRefines DEF Mappable
<1>4. IdealStep => [Ideal!Next]_(Ideal!vars)
  BY DEF IdealStep
<1> QED
  BY <1>1, <1>2, <1>3, <1>4, LeakInvariant, AllBooksInvariant,
     NoFaultsInvariant, FatesInvariant, NeverNegative, PTL
     DEF Spec, ImplementsIdealLedger, Ideal!Spec

------------------------------------------------------------------------------
(* Solvency.  Solvent is not inductive: between the two writes of a         *)
(* transfer, and while a withdrawal may still be refunded, an amount is in  *)
(* no balance but may come back.  Covered counts it as promised, and a      *)
(* crash only makes it vanish.                                              *)

InFlight(p) ==
  \/ pc[p] \in {"writeTo", "recordDebit", "refund"}
  \/ pc[p] \in {"sending", "storeHash"} /\ job[p].fate # "landed"

Flight(p) == IF InFlight(p) THEN job[p].amt ELSE 0

Flights == [p \in Requests |-> Flight(p)]

Covered == Total(bal) + SumFunctionOnSet(Flights, Requests) <= chain

(* What a transfer has read is what the table still says.                   *)
FreshOf(p) ==
  /\ pc[p] \in {"readTo", "writeFrom"} => snap[p].from = bal[job[p].from]
  /\ pc[p] \in {"writeFrom", "writeTo"} => snap[p].to = bal[job[p].to]

Fresh == \A p \in Requests : FreshOf(p)

SolventInv == Apart /\ Fresh /\ Covered

(* Sums of the amounts of one state.                                        *)
LEMMA AccountsFinite ==
  ASSUME IsFiniteSet(Users) PROVE IsFiniteSet(Accounts)
<1>1. IsFiniteSet(Users \cup {Treasury})
  BY FS_AddElement
<1>2. IsFiniteSet((Users \cup {Treasury}) \cup {Reserve})
  BY <1>1, FS_AddElement
<1>3. Accounts = (Users \cup {Treasury}) \cup {Reserve}
  BY DEF Accounts
<1> QED
  BY <1>2, <1>3

LEMMA FlightType ==
  ASSUME TypeOK
  PROVE  \A p \in Requests : Flights[p] = Flight(p) /\ Flight(p) \in Nat
BY DEF TypeOK, Jobs, Flights, Flight

LEMMA CoveredTypes ==
  ASSUME IsFiniteSet(Users), IsFiniteSet(Requests), TypeOK
  PROVE  /\ Total(bal) \in Int
         /\ SumFunctionOnSet(Flights, Requests) \in Nat
         /\ chain \in Int
<1>1. PICK f, g : f = bal /\ g = Flights
  OBVIOUS
<1>2. \A a \in Accounts : f[a] \in Int
  BY <1>1 DEF TypeOK, LedgerTypeOK
<1>3. \A p \in Requests : g[p] \in Nat
  BY <1>1, FlightType
<1>4. SumFunctionOnSet(f, Accounts) \in Int
  BY <1>2, AccountsFinite, SumOfIntegers
<1>5. SumFunctionOnSet(g, Requests) \in Nat
  BY <1>3, SumGrows
<1> QED
  BY <1>1, <1>4, <1>5 DEF Total, TypeOK

LEMMA CoveredIsSolvent ==
  ASSUME IsFiniteSet(Users), IsFiniteSet(Requests), TypeOK, Covered
  PROVE  Solvent
BY CoveredTypes DEF Covered, Solvent

(* One request moves, and one balance with it: what it still has under way  *)
(* makes up for the difference.                                             *)
LEMMA CoveredStep ==
  ASSUME IsFiniteSet(Users), IsFiniteSet(Requests), TypeOK, TypeOK', Covered,
         NEW p \in Requests, Others(p), NEW a \in Accounts, NEW d \in Int,
         bal' = [bal EXCEPT ![a] = bal[a] + d],
         d + Flight(p)' - Flight(p) <= chain' - chain
  PROVE  Covered'
<1>1. PICK f, g : f = bal /\ g = bal'
  OBVIOUS
<1>2. PICK x, y : x = Flights /\ y = Flights'
  OBVIOUS
<1>3. SumFunctionOnSet(g, Accounts) = SumFunctionOnSet(f, Accounts) + d
  <2>1. /\ \A b \in Accounts : f[b] \in Int
        /\ g[a] = f[a] + d
        /\ \A b \in Accounts \ {a} : g[b] = f[b]
    BY <1>1 DEF TypeOK, LedgerTypeOK
  <2>2. /\ SumFunctionOnSet(g, Accounts)
             = SumFunctionOnSet(f, Accounts) - f[a] + g[a]
        /\ SumFunctionOnSet(f, Accounts) \in Int
    BY <2>1, AccountsFinite, SumChanges, SumOfIntegers
  <2> QED
    BY <2>1, <2>2
<1>4. SumFunctionOnSet(y, Requests)
        = SumFunctionOnSet(x, Requests) - x[p] + y[p]
  <2>1. /\ \A q \in Requests : x[q] = Flight(q) /\ x[q] \in Int
        /\ y[p] = Flight(p)' /\ y[p] \in Int
    <3>1. \A q \in Requests : Flights[q] = Flight(q) /\ Flight(q) \in Nat
      BY FlightType
    <3>2. Flights'[p] = Flight(p)' /\ Flight(p)' \in Nat
      BY DEF TypeOK, Jobs, Flights, Flight
    <3> QED
      BY <1>2, <3>1, <3>2
  <2>2. \A q \in Requests \ {p} : y[q] = x[q]
    BY <1>2 DEF Flights, Flight, InFlight, Others
  <2> QED
    BY <2>1, <2>2, SumChanges
<1>5. x[p] = Flight(p) /\ y[p] = Flight(p)'
  BY <1>2 DEF Flights
<1>6. /\ SumFunctionOnSet(f, Accounts) \in Int
      /\ SumFunctionOnSet(x, Requests) \in Int
      /\ chain \in Int /\ chain' \in Int
      /\ Flight(p) \in Int /\ Flight(p)' \in Int
  <2>1. Flight(p) \in Int /\ Flight(p)' \in Int
    BY DEF TypeOK, Jobs, Flight
  <2> QED
    BY <1>1, <1>2, <2>1, CoveredTypes DEF Total, TypeOK
<1>7. SumFunctionOnSet(f, Accounts) + SumFunctionOnSet(x, Requests) <= chain
  BY <1>1, <1>2 DEF Covered, Total
<1>8. SumFunctionOnSet(g, Accounts) + SumFunctionOnSet(y, Requests) <= chain'
  BY <1>3, <1>4, <1>5, <1>6, <1>7
<1> QED
  BY <1>1, <1>2, <1>8 DEF Covered, Total

LEMMA CoveredQuiet ==
  ASSUME IsFiniteSet(Users), IsFiniteSet(Requests), TypeOK, TypeOK', Covered,
         NEW p \in Requests, Others(p), bal' = bal,
         Flight(p)' - Flight(p) <= chain' - chain
  PROVE  Covered'
<1>1. Reserve \in Accounts /\ 0 \in Int
  BY DEF Accounts
<1>2. bal' = [bal EXCEPT ![Reserve] = bal[Reserve] + 0]
  BY <1>1 DEF TypeOK, LedgerTypeOK
<1>3. Flight(p) \in Int /\ Flight(p)' \in Int /\ chain \in Int /\ chain' \in Int
  BY DEF TypeOK, Jobs, Flight
<1>4. 0 + Flight(p)' - Flight(p) <= chain' - chain
  BY <1>3
<1> QED
  BY <1>1, <1>2, <1>4, CoveredStep

(* The requests whose readings matter are runnable, and only a runnable     *)
(* request writes.                                                          *)
LEMMA FreshFrame ==
  ASSUME Shape, Single, Fresh, NEW p \in Requests, Others(p), OthersRead(p),
         bal' = bal \/ p \in ready, FreshOf(p)'
  PROVE  Fresh'
<1> SUFFICES ASSUME NEW q \in Requests, q # p PROVE FreshOf(q)'
  BY DEF Fresh
<1>1. pc'[q] = pc[q] /\ job'[q] = job[q] /\ snap'[q] = snap[q] /\ FreshOf(q)
  BY DEF Others, OthersRead, Fresh
<1>2. CASE bal' = bal
  BY <1>1, <1>2 DEF FreshOf
<1>3. CASE p \in ready
  <2>1. q \notin ready
    BY <1>3 DEF Single
  <2>2. pc[q] \in {"idle", "asked", "sending", "reply"}
    BY <2>1 DEF Shape, ShapeOf
  <2> QED
    BY <1>1, <2>2 DEF FreshOf
<1> QED
  BY <1>2, <1>3

LEMMA SolventTransfer ==
  ASSUME IsFiniteSet(Users), IsFiniteSet(Requests), TypeOK, TypeOK', Shape,
         Single, Apart, Fresh, Covered, NEW p \in Requests, Transfer(p)
  PROVE  Fresh' /\ Covered'
<1> DEFINE from == job[p].from
           to == job[p].to
           amt == job[p].amt
<1>0. /\ pc \in [Requests -> Steps] /\ job \in [Requests -> Jobs]
      /\ bal \in [Accounts -> Int] /\ chain \in Int
      /\ snap \in [Requests -> [from: Int, to: Int]]
      /\ from \in Accounts /\ to \in Accounts /\ amt \in Nat
      /\ Others(p) /\ OthersRead(p) /\ FreshOf(p)
  BY OthersFrame, SnapFrame DEF TypeOK, LedgerTypeOK, Jobs, Proceed, Fresh
<1>1. p \in ready /\ chain' = chain
  BY DEF Transfer, TransferReadFrom, TransferReadTo, TransferWriteFrom,
         TransferWriteTo, TransferRecord, At, Environment
<1>2. from # to
  BY DEF Transfer, TransferReadFrom, TransferReadTo, TransferWriteFrom,
         TransferWriteTo, TransferRecord, At, Apart, TransferSteps
<1>3. CASE TransferReadFrom(p) \/ TransferRecord(p)
  <2>1. /\ bal' = bal /\ pc[p] \in {"readFrom", "record"}
        /\ pc'[p] \notin {"writeFrom", "writeTo", "recordDebit", "refund",
                          "sending", "storeHash"}
        /\ pc'[p] = "readTo" => job'[p] = job[p] /\ snap'[p].from = bal[from]
    BY <1>0, <1>3
       DEF TransferReadFrom, TransferRecord, ReadFrom, RecordTransfer, Forget,
           At, Continue, Goto, Finish, AfterTransfer, AfterFailedTransfer
  <2>2. FreshOf(p)'
    BY <2>1 DEF FreshOf
  <2>3. Flight(p) = 0 /\ Flight(p)' = 0
    BY <2>1 DEF Flight, InFlight
  <2>4. Flight(p)' - Flight(p) <= chain' - chain
    BY <1>0, <1>1, <2>3
  <2> QED
    BY <1>0, <1>1, <2>1, <2>2, <2>4, FreshFrame, CoveredQuiet
<1>4. CASE TransferReadTo(p)
  <2>1. /\ bal' = bal /\ pc[p] = "readTo" /\ pc'[p] = "writeFrom"
        /\ job'[p] = job[p]
        /\ snap'[p].to = bal[to] /\ snap'[p].from = snap[p].from
    BY <1>0, <1>4 DEF TransferReadTo, ReadTo, At, Continue, Goto
  <2>2. FreshOf(p)'
    BY <1>0, <2>1 DEF FreshOf
  <2>3. Flight(p) = 0 /\ Flight(p)' = 0
    BY <2>1 DEF Flight, InFlight
  <2>4. Flight(p)' - Flight(p) <= chain' - chain
    BY <1>0, <1>1, <2>3
  <2> QED
    BY <1>0, <1>1, <2>1, <2>2, <2>4, FreshFrame, CoveredQuiet
<1>5. CASE TransferWriteFrom(p)
  <2>1. /\ pc[p] = "writeFrom" /\ pc'[p] = "writeTo" /\ job'[p] = job[p]
        /\ snap' = snap
        /\ bal' = [bal EXCEPT ![from] = snap[p].from - amt]
    BY <1>0, <1>5
       DEF TransferWriteFrom, WriteFrom, Subtract, At, Continue, Goto
  <2>2. snap[p].from = bal[from] /\ snap[p].to = bal[to]
    BY <1>0, <2>1 DEF FreshOf
  <2>3. bal'[to] = bal[to]
    BY <1>0, <1>2, <2>1
  <2>4. FreshOf(p)'
    BY <2>1, <2>2, <2>3 DEF FreshOf
  <2>5. Flight(p) = 0 /\ Flight(p)' = amt
    BY <2>1 DEF Flight, InFlight
  <2>6. PICK a \in Accounts, d \in Int : a = from /\ d = - amt
    BY <1>0
  <2>7. bal' = [bal EXCEPT ![a] = bal[a] + d]
    BY <1>0, <2>1, <2>2, <2>6
  <2>8. d + Flight(p)' - Flight(p) <= chain' - chain
    BY <1>0, <1>1, <2>5, <2>6
  <2> QED
    BY <1>0, <1>1, <2>4, <2>7, <2>8, FreshFrame, CoveredStep
<1>6. CASE TransferWriteTo(p)
  <2>1. /\ pc[p] = "writeTo" /\ pc'[p] = "record" /\ job'[p] = job[p]
        /\ bal' = [bal EXCEPT ![to] = snap[p].to + amt]
    BY <1>0, <1>6 DEF TransferWriteTo, WriteTo, Add, At, Continue, Goto
  <2>2. snap[p].to = bal[to]
    BY <1>0, <2>1 DEF FreshOf
  <2>3. FreshOf(p)'
    BY <2>1 DEF FreshOf
  <2>4. Flight(p) = amt /\ Flight(p)' = 0
    BY <2>1 DEF Flight, InFlight
  <2>5. PICK a \in Accounts, d \in Int : a = to /\ d = amt
    BY <1>0
  <2>6. bal' = [bal EXCEPT ![a] = bal[a] + d]
    BY <1>0, <2>1, <2>2, <2>5
  <2>7. d + Flight(p)' - Flight(p) <= chain' - chain
    BY <1>0, <1>1, <2>4, <2>5
  <2> QED
    BY <1>0, <1>1, <2>3, <2>6, <2>7, FreshFrame, CoveredStep
<1> HIDE DEF from, to, amt
<1> QED
  BY <1>3, <1>4, <1>5, <1>6 DEF Transfer

LEMMA SolventWithdraw ==
  ASSUME IsFiniteSet(Users), IsFiniteSet(Requests), TypeOK, TypeOK', Shape,
         Single, Fresh, Covered, NEW p \in Requests, Withdraw(p)
  PROVE  Fresh' /\ Covered'
<1> DEFINE u == job[p].user
           amt == job[p].amt
<1>0. /\ pc \in [Requests -> Steps] /\ job \in [Requests -> Jobs]
      /\ bal \in [Accounts -> Int] /\ chain \in Int
      /\ u \in Accounts /\ Reserve \in Accounts /\ amt \in Nat
      /\ GasFee \in Nat
      /\ Others(p) /\ OthersRead(p)
  BY OthersFrame, SnapFrame, WalletAssumption
     DEF TypeOK, LedgerTypeOK, Jobs, Proceed, Accounts
<1>1. /\ p \in ready /\ chain' = chain
      /\ pc'[p] \notin {"readTo", "writeFrom", "writeTo"}
  BY <1>0 DEF Withdraw, StealLock, LockWithdrawal, DebitUser, RecordDebitUser,
     StoreHash, Settle, PayGas, RecordGas, Refund, RecordRefund,
     UnlockWithdrawal, At, Continue, Goto, Finish, Suspend, Environment
<1>2. Fresh'
  <2>1. FreshOf(p)'
    BY <1>1 DEF FreshOf
  <2> QED
    BY <1>0, <1>1, <2>1, FreshFrame
<1>3. CASE DebitUser(p)
  <2>1. /\ pc[p] = "debit" /\ pc'[p] = "recordDebit" /\ job'[p] = job[p]
        /\ bal' = [bal EXCEPT ![u] = bal[u] - amt]
    BY <1>0, <1>3 DEF DebitUser, Debit, Subtract, At, Continue, Goto
  <2>2. Flight(p) = 0 /\ Flight(p)' = amt
    BY <2>1 DEF Flight, InFlight
  <2>3. PICK a \in Accounts, d \in Int : a = u /\ d = - amt
    BY <1>0
  <2>4. bal' = [bal EXCEPT ![a] = bal[a] + d]
    BY <1>0, <2>1, <2>3
  <2>5. d + Flight(p)' - Flight(p) <= chain' - chain
    BY <1>0, <1>1, <2>2, <2>3
  <2> QED
    BY <1>0, <1>2, <2>4, <2>5, CoveredStep
<1>4. CASE Refund(p)
  <2>1. /\ pc[p] = "refund" /\ pc'[p] = "recordRefund" /\ job'[p] = job[p]
        /\ bal' = [bal EXCEPT ![u] = bal[u] + amt]
    BY <1>0, <1>4 DEF Refund, Credit, Add, At, Continue, Goto
  <2>2. Flight(p) = amt /\ Flight(p)' = 0
    BY <2>1 DEF Flight, InFlight
  <2>3. PICK a \in Accounts, d \in Int : a = u /\ d = amt
    BY <1>0
  <2>4. bal' = [bal EXCEPT ![a] = bal[a] + d]
    BY <1>0, <2>1, <2>3
  <2>5. d + Flight(p)' - Flight(p) <= chain' - chain
    BY <1>0, <1>1, <2>2, <2>3
  <2> QED
    BY <1>0, <1>2, <2>4, <2>5, CoveredStep
<1>5. CASE PayGas(p)
  <2>1. /\ pc[p] = "gas" /\ pc'[p] \in {"recordGas", "unlockWithdrawal"}
        /\ bal' = bal \/ bal' = [bal EXCEPT ![Reserve] = bal[Reserve] - GasFee]
    BY <1>0, <1>5 DEF PayGas, Debit, Forget, Subtract, At, Continue, Goto, Finish
  <2>2. Flight(p) = 0 /\ Flight(p)' = 0
    BY <2>1 DEF Flight, InFlight
  <2>3. CASE bal' = bal
    <3>1. Flight(p)' - Flight(p) <= chain' - chain
      BY <1>0, <1>1, <2>2
    <3> QED
      BY <1>0, <1>2, <2>3, <3>1, CoveredQuiet
  <2>4. CASE bal' = [bal EXCEPT ![Reserve] = bal[Reserve] - GasFee]
    <3>1. PICK a \in Accounts, d \in Int : a = Reserve /\ d = - GasFee
      BY <1>0
    <3>2. bal' = [bal EXCEPT ![a] = bal[a] + d]
      BY <1>0, <2>4, <3>1
    <3>3. d + Flight(p)' - Flight(p) <= chain' - chain
      BY <1>0, <1>1, <2>2, <3>1
    <3> QED
      BY <1>0, <1>2, <3>2, <3>3, CoveredStep
  <2> QED
    BY <2>1, <2>3, <2>4
<1>6. CASE RecordDebitUser(p) \/ StoreHash(p)
  <2>1. /\ pc[p] \in {"recordDebit", "storeHash"}
        /\ pc'[p] \in {"sending", "refund", "settle"}
        /\ pc'[p] = "refund" => pc[p] = "storeHash" /\ job[p].fate = "rejected"
        /\ job'[p] = job[p] /\ bal' = bal
    BY <1>0, <1>6
       DEF RecordDebitUser, RecordDebit, StoreHash, At, Continue, Goto,
           ledgerVars
  <2>2. InFlight(p)' => InFlight(p)
    BY <2>1 DEF InFlight
  <2>3. Flight(p)' - Flight(p) <= chain' - chain
    BY <1>0, <1>1, <2>1, <2>2 DEF Flight
  <2> QED
    BY <1>0, <1>2, <2>1, <2>3, CoveredQuiet
<1>7. CASE \/ StealLock(p) \/ LockWithdrawal(p) \/ Settle(p) \/ RecordGas(p)
           \/ RecordRefund(p) \/ UnlockWithdrawal(p)
  <2>1. /\ pc[p] \in {"steal", "lock", "settle", "recordGas", "recordRefund",
                      "unlockWithdrawal"}
        /\ pc'[p] \in {"lock", "debit", "gas", "unlockWithdrawal", "idle"}
        /\ bal' = bal
    BY <1>0, <1>7
       DEF StealLock, LockWithdrawal, Settle, RecordGas, RecordRefund,
           RecordDebit, RecordCredit, UnlockWithdrawal, At, Continue, Goto,
           Finish, ledgerVars
  <2>2. Flight(p) = 0 /\ Flight(p)' = 0
    BY <2>1 DEF Flight, InFlight
  <2>3. Flight(p)' - Flight(p) <= chain' - chain
    BY <1>0, <1>1, <2>2
  <2> QED
    BY <1>0, <1>2, <2>1, <2>3, CoveredQuiet
<1> HIDE DEF u, amt
<1> QED
  BY <1>2, <1>3, <1>4, <1>5, <1>6, <1>7 DEF Withdraw

(* The chain takes what was under way, and a refund needs that it did not.  *)
LEMMA SolventChain ==
  ASSUME ~LateThrow, IsFiniteSet(Users), IsFiniteSet(Requests), TypeOK,
         TypeOK', Shape, Single, Fresh, Covered, NEW p \in Requests,
         SendTokens(p) \/ Land(p)
  PROVE  Fresh' /\ Covered'
<1>0. /\ pc \in [Requests -> Steps] /\ job \in [Requests -> Jobs]
      /\ job[p] \in Jobs /\ job[p].amt \in Nat /\ chain \in Int
      /\ Others(p) /\ OthersRead(p)
  BY OthersFrame, SnapFrame DEF TypeOK, Jobs, Proceed
<1>1. /\ pc[p] = "sending" /\ bal' = bal
      /\ pc'[p] \in {"sending", "storeHash", "refund"}
  BY <1>0 DEF SendTokens, SendReturns, SendThrows, Land, ledgerVars
<1>2. Fresh'
  <2>1. FreshOf(p)'
    BY <1>1 DEF FreshOf
  <2> QED
    BY <1>0, <1>1, <2>1, FreshFrame
<1>3. CASE SendTokens(p)
  <2>1. /\ job'[p] = job[p] /\ chain' = chain
        /\ \/ pc'[p] = "storeHash"
           \/ pc'[p] = "refund" /\ job[p].fate = "none"
    BY <1>0, <1>3 DEF SendTokens, SendReturns, SendThrows, Environment
  <2>2. InFlight(p)' => InFlight(p)
    BY <1>1, <2>1 DEF InFlight
  <2>3. Flight(p)' - Flight(p) <= chain' - chain
    BY <1>0, <2>1, <2>2 DEF Flight
  <2> QED
    BY <1>0, <1>1, <1>2, <2>3, CoveredQuiet
<1>4. CASE Land(p)
  <2>1. Flight(p) = job[p].amt
    BY <1>1, <1>4 DEF Land, Flight, InFlight
  <2>2. CASE /\ job' = [job EXCEPT ![p] = [job[p] EXCEPT !.fate = "landed"]]
             /\ chain' = chain - job[p].amt
    <3>1. job'[p].fate = "landed" /\ pc'[p] = "sending"
      BY <1>0, <1>1, <1>4, <2>2 DEF Land, Jobs
    <3>2. Flight(p)' = 0
      BY <3>1 DEF Flight, InFlight
    <3>3. Flight(p)' - Flight(p) <= chain' - chain
      BY <1>0, <2>1, <2>2, <3>2
    <3> QED
      BY <1>0, <1>1, <1>2, <3>3, CoveredQuiet
  <2>3. CASE /\ job' = [job EXCEPT ![p] = [job[p] EXCEPT !.fate = "rejected"]]
             /\ chain' = chain
    <3>1. job'[p].amt = job[p].amt
      BY <1>0, <2>3 DEF Jobs
    <3>2. Flight(p)' <= job[p].amt
      BY <1>0, <3>1 DEF Flight
    <3>3. Flight(p)' \in Int
      BY <1>0, <3>1 DEF Flight
    <3>4. Flight(p)' - Flight(p) <= chain' - chain
      BY <1>0, <2>1, <2>3, <3>2, <3>3
    <3> QED
      BY <1>0, <1>1, <1>2, <3>4, CoveredQuiet
  <2> QED
    BY <1>4, <2>2, <2>3 DEF Land
<1> QED
  BY <1>2, <1>3, <1>4

LEMMA SolventRequest ==
  ASSUME ~LateThrow, IsFiniteSet(Users), IsFiniteSet(Requests), TypeOK,
         TypeOK', Shape, Single, Apart, Fresh, Covered, NEW p \in Requests,
         Begin(p) \/ Proceed(p) \/ Land(p)
  PROVE  Fresh' /\ Covered'
<1>0. /\ pc \in [Requests -> Steps] /\ chain \in Int
      /\ Others(p) /\ OthersRead(p)
  BY OthersFrame, SnapFrame DEF TypeOK
<1>q. ASSUME bal' = bal, chain' = chain,
             pc[p] \notin {"writeTo", "recordDebit", "refund", "sending",
                           "storeHash"},
             pc'[p] \notin {"readTo", "writeFrom", "writeTo", "recordDebit",
                            "refund", "sending", "storeHash"}
      PROVE  Fresh' /\ Covered'
  <2>1. FreshOf(p)'
    BY <1>q DEF FreshOf
  <2>2. Flight(p) = 0 /\ Flight(p)' = 0
    BY <1>q DEF Flight, InFlight
  <2>3. Flight(p)' - Flight(p) <= chain' - chain
    BY <1>0, <1>q, <2>2
  <2> QED
    BY <1>0, <1>q, <2>1, <2>3, FreshFrame, CoveredQuiet
<1>1. CASE Begin(p)
  BY <1>0, <1>1, <1>q
     DEF Begin, Ask, BeginRoll, BeginFine, FundTreasury, WithdrawTreasury,
         Unlocked, Start, Running, ledgerVars
<1>2. CASE Answered(p) \/ Send(p)
  BY <1>0, <1>2, <1>q
     DEF Answered, BeginSend, BeginWithdraw, Refuse, Send, LockReceiver,
         LockReceiverFails, Unlock, At, Continue, Goto, Finish, ledgerVars,
         Environment
<1>3. CASE Roll(p)
  BY <1>0, <1>3, <1>q
     DEF Roll, RollCheckUser, RollRefused, RollWon, RollLost, RollRelease,
         RollRelabel, RollReplied, RollReplyFails, At, Continue, Goto, Finish,
         ledgerVars, Environment
<1> QED
  BY <1>1, <1>2, <1>3, SolventTransfer, SolventWithdraw, SolventChain
     DEF Proceed

LEMMA SolventRest ==
  ASSUME Fresh, Covered,
         UNCHANGED vars \/ Sweep \/ \E u \in Users : Timeout(u)
  PROVE  Fresh' /\ Covered'
<1>1. pc' = pc /\ job' = job /\ snap' = snap /\ bal' = bal /\ chain' = chain
  BY DEF Sweep, SweepStart, SweepRow, SweepDelete, SweepVerify, SweepVerified,
         Timeout, ledgerVars, Environment, vars
<1>2. Fresh'
  BY <1>1 DEF Fresh, FreshOf
<1>3. Flights' = Flights
  BY <1>1 DEF Flights, Flight, InFlight
<1> QED
  BY <1>1, <1>2, <1>3 DEF Covered, Total

(* Nothing is under way: at the start, and after a crash.                   *)
LEMMA NothingInFlight ==
  ASSUME IsFiniteSet(Requests), \A p \in Requests : pc[p] = "idle"
  PROVE  /\ Apart /\ Fresh
         /\ SumFunctionOnSet(Flights, Requests) = 0
<1>1. Apart /\ Fresh
  BY DEF Apart, Fresh, FreshOf, TransferSteps
<1>2. PICK f : f = Flights
  OBVIOUS
<1>3. \A p \in Requests : f[p] = 0
  BY <1>2 DEF Flights, Flight, InFlight
<1>4. SumFunctionOnSet(f, Requests) = 0
  BY <1>3, SumOfZeros
<1> QED
  BY <1>1, <1>2, <1>4

LEMMA SolventCrash ==
  ASSUME IsFiniteSet(Users), IsFiniteSet(Requests), TypeOK, Covered, Crash
  PROVE  SolventInv'
<1>1. /\ \A p \in Requests : pc'[p] = "idle"
      /\ bal' = bal /\ chain' = chain
  BY DEF Crash
<1>2. Apart' /\ Fresh'
  BY <1>1 DEF Apart, Fresh, FreshOf, TransferSteps
<1>3. SumFunctionOnSet(Flights', Requests) = 0
  <2>1. PICK f : f = Flights'
    OBVIOUS
  <2>2. \A p \in Requests : f[p] = 0
    BY <1>1, <2>1 DEF Flights, Flight, InFlight
  <2>3. SumFunctionOnSet(f, Requests) = 0
    BY <2>2, SumOfZeros
  <2> QED
    BY <2>1, <2>3
<1>4. Total(bal) <= chain /\ Total(bal) \in Int
  BY CoveredIsSolvent, CoveredTypes DEF Solvent
<1>5. Total(bal') + 0 <= chain'
  BY <1>1, <1>4
<1>6. Covered'
  BY <1>3, <1>5 DEF Covered, Total
<1> QED
  BY <1>2, <1>6 DEF SolventInv

LEMMA SolventInit ==
  ASSUME IsFiniteSet(Users), IsFiniteSet(Requests),
         Total(InitialBalance) <= InitialChain, Init
  PROVE  SolventInv
<1>1. \A p \in Requests : pc[p] = "idle"
  BY DEF Init
<1>2. Total(bal) <= chain /\ Total(bal) \in Int
  <2>1. TypeOK
    BY InitType
  <2> QED
    BY <2>1, CoveredTypes DEF Init, Total
<1>3. Total(bal) + 0 <= chain
  BY <1>2
<1> QED
  BY <1>1, <1>3, NothingInFlight DEF SolventInv, Covered

------------------------------------------------------------------------------
(* Without failing statements.                                              *)

NoErrors == used.errors = 0

LEMMA NoNewError ==
  ASSUME MaxErrors = 0, TypeOK, NoErrors, [Next]_vars
  PROVE  /\ NoErrors'
         /\ \/ UNCHANGED vars
            \/ \E p \in Requests : Begin(p) \/ Proceed(p) \/ Land(p)
            \/ Sweep
            \/ \E u \in Users : Timeout(u)
            \/ Crash
<1> USE DEF NoErrors
<1>1. \A p \in Requests : ~StatementFails(p)
  BY DEF StatementFails
<1>2. ASSUME NEW p \in Requests, Begin(p)
      PROVE  NoErrors'
  BY <1>2 DEF TypeOK, Begin, Ask, BeginRoll, BeginFine, FundTreasury,
              WithdrawTreasury, Unlocked, Start
<1>3. ASSUME NEW p \in Requests, Proceed(p) \/ Land(p)
      PROVE  NoErrors'
  BY <1>3
     DEF Proceed, Answered, BeginSend, BeginWithdraw, Refuse, Transfer,
         TransferReadFrom, TransferReadTo, TransferWriteFrom,
         TransferWriteTo, TransferRecord, Send, LockReceiver,
         LockReceiverFails, Unlock, Roll, RollCheckUser, RollRefused,
         RollWon, RollLost, RollRelease, RollRelabel, RollReplied,
         RollReplyFails, Withdraw, StealLock, LockWithdrawal, DebitUser,
         RecordDebitUser, StoreHash, Settle, PayGas, RecordGas, Refund,
         RecordRefund, UnlockWithdrawal, SendTokens, SendReturns,
         SendThrows, Land, Environment
<1>4. CASE Sweep \/ \E u \in Users : Timeout(u)
  BY <1>4 DEF Sweep, SweepStart, SweepRow, SweepDelete, SweepVerify,
              SweepVerified, Timeout, Environment
<1>5. CASE UNCHANGED vars
  BY <1>5 DEF vars
<1>6. CASE Crash
  BY <1>6 DEF Crash, TypeOK
<1> QED
  BY <1>1, <1>2, <1>3, <1>4, <1>5, <1>6 DEF Next

LEMMA NoErrorsInvariant ==
  ASSUME MaxErrors = 0 PROVE Spec => []NoErrors
<1>1. Init => NoErrors
  BY DEF Init, NoErrors
<1>2. TypeOK /\ NoErrors /\ [Next]_vars => NoErrors'
  BY NoNewError
<1> QED
  BY <1>1, <1>2, TypeCorrect, PTL DEF Spec

LEMMA SolventNext ==
  ASSUME ~LateThrow, MaxErrors = 0, IsFiniteSet(Users), IsFiniteSet(Requests),
         TypeOK, TypeOK', LocksInv, NoErrors, Single, SolventInv, [Next]_vars
  PROVE  SolventInv'
<1>1. Exclusion /\ Shape /\ Apart /\ Fresh /\ Covered
  BY DEF LocksInv, NoErrors, Exclusion, SolventInv
<1>2. ASSUME NEW p \in Requests, Begin(p) \/ Proceed(p) \/ Land(p)
      PROVE  SolventInv'
  BY <1>1, <1>2, ApartStep, SolventRequest DEF SolventInv
<1>3. CASE UNCHANGED vars \/ Sweep \/ \E u \in Users : Timeout(u)
  BY <1>1, <1>3, ApartRest, SolventRest DEF SolventInv
<1>4. CASE Crash
  BY <1>1, <1>4, SolventCrash
<1> QED
  BY <1>2, <1>3, <1>4, NoNewError

(* Solvent: with one handler at a time, no failing statement and no late    *)
(* answer of the chain, the balances of all accounts together never exceed  *)
(* what the bot holds on chain (gas left aside), however many crashes fall  *)
(* between any two statements: a crash loses money for a user, never for    *)
(* the bot.                                                                 *)
THEOREM WalletIsSolvent ==
  ASSUME ~Batching, ~LateThrow, MaxErrors = 0,
         IsFiniteSet(Users), IsFiniteSet(Requests),
         Total(InitialBalance) <= InitialChain
  PROVE  Spec => []Solvent
<1>1. Init => SolventInv
  BY SolventInit
<1>2. /\ TypeOK /\ TypeOK' /\ LocksInv /\ NoErrors /\ Single /\ SolventInv
      /\ [Next]_vars
      => SolventInv'
  BY SolventNext
<1>3. TypeOK /\ SolventInv => Solvent
  BY CoveredIsSolvent DEF SolventInv
<1> QED
  BY <1>1, <1>2, <1>3, TypeCorrect, LocksInvariant, NoErrorsInvariant,
     SingleInvariant, PTL DEF Spec

=============================================================================
