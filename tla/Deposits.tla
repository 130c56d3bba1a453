------------------------------- MODULE Deposits -------------------------------
(***************************************************************************)
(* Money that arrives on chain: the deposit monitor and the reconciliation *)
(* at startup (unifiedWalletService.ts), the commands /verifydeposit,      *)
(* /processdeposit and /claimdeposit (commands/deposit.ts), the table      *)
(* processed_deposits, and crashes between any two statements.             *)
(*                                                                         *)
(* Every deposit is of one unit.  A transaction that failed on chain, or   *)
(* pays somebody else, is not in Chain: every reader skips it.             *)
(***************************************************************************)
EXTENDS Integers, Sequences, FiniteSets

CONSTANTS
  Chain,                   \* the deposits in the order of the chain
  Height,                  \* deposit -> block
  Memo,                    \* deposit -> the user its memo names, or Unclaimed
  Spellings,               \* ways to write a hash that the node takes: any
                           \* case, with 0x or without
  NodeSpelling,            \* the one the node answers with
  Users, Unclaimed,        \* users; the account of deposits without a user
  Commands,                \* the activations of the three commands
  Kinds,                   \* the commands of this instance
  Monitor,                 \* the deposit monitor, and its startup
  PageSize, StartupPage,   \* per_page of the two tx_search queries
  Batching,                \* two /claimdeposit may come in one batch
  RpcFails,                \* tx_search may fail at startup
  MaxCommands, MaxCrashes, MaxErrors   \* bounds

Deposit == {Chain[i] : i \in DOMAIN Chain}
Accounts == Users \cup {Unclaimed}

(* The tables are looked up by the hash as it is written.                   *)
Key == Deposit \X Spellings
AsNode(t) == << t, NodeSpelling >>

ASSUME DepositsAssumption ==
  /\ Chain \in Seq(Deposit) \ {<< >>}
  /\ Height \in [Deposit -> Nat \ {0}]
  /\ \A i, j \in DOMAIN Chain : i < j => Height[Chain[i]] <= Height[Chain[j]]
  /\ Memo \in [Deposit -> Accounts]
  /\ NodeSpelling \in Spellings /\ IsFiniteSet(Spellings)
  /\ Unclaimed \notin Users
  /\ Monitor \notin Commands
  /\ Kinds \subseteq {"verify", "process", "claim"}
  /\ {PageSize, StartupPage, MaxCommands, MaxCrashes, MaxErrors} \subseteq Nat
  /\ Batching \in BOOLEAN /\ RpcFails \in BOOLEAN

VARIABLES
  ready, batch,            \* the event loop
  bal, audit, snap,        \* the ledger
  mined,                   \* how many deposits of Chain are on chain
  rows,                    \* processed_deposits: key -> row
  deposited,               \* key -> number of its DEPOSIT transactions
  claimed,                 \* key -> number of its claims in transactions
  credits,                 \* history: how often its amount was credited, by
                           \* the monitor and by commands
  lastCheckedHeight,       \* memory of the monitor
  monitor,                 \* where the monitor is: [step, todo]
  command,                 \* where each command is: [step, kind, key, user, known]
  used                     \* what has been used up of the bounds

INSTANCE EventLoop WITH Handlers <- Commands \cup {Monitor}
INSTANCE Ledger WITH Callers <- Commands

loopVars == << ready, batch >>
ledgerVars == << bal, audit, snap >>
depositVars == << rows, deposited, claimed, credits >>

vars == << ready, batch, bal, audit, snap, mined, rows, deposited, claimed,
           credits, lastCheckedHeight, monitor, command, used >>

------------------------------------------------------------------------------
(* processed_deposits: "open" is processed = 0, "failed" is processed = 0   *)
(* with an error, "done" is processed = 1.                                  *)
NoRow == [state |-> "none", owner |-> Unclaimed, height |-> 0]
Row(state, owner, height) ==
  [state |-> state, owner |-> owner, height |-> height]

Known(k) == rows[k].state # "none"

SetState(k, state) == rows' = [rows EXCEPT ![k].state = state]

MaxHeight == LET H == {rows[k].height : k \in Key} \cup {0}
             IN  CHOOSE h \in H : \A g \in H : g <= h

(* tx_search without order_by: the oldest deposits come first.              *)
OldestPage(size) == SubSeq(Chain, 1, IF mined < size THEN mined ELSE size)

(* What of a page lies above a height: blocks are in the order of the chain. *)
Newer(page, height) ==
  LET below == {i \in DOMAIN page : Height[page[i]] <= height}
  IN  SubSeq(page, Cardinality(below) + 1, Len(page))

(* "boot": initialize has not run yet in this process.                      *)
Booting == [step |-> "boot", todo |-> << >>]
Waiting == [step |-> "wait", todo |-> << >>]

IdleCommand == [step |-> "idle", kind |-> "none", key |-> AsNode(Chain[1]),
                user |-> Unclaimed, known |-> FALSE]

Init ==
  /\ LoopInit
  /\ bal = [a \in Accounts |-> 0]
  /\ audit = [a \in Accounts |-> 0]
  /\ snap = [p \in Commands |-> NoSnap]
  /\ mined = 0
  /\ rows = [k \in Key |-> NoRow]
  /\ deposited = [k \in Key |-> 0]
  /\ claimed = [k \in Key |-> 0]
  /\ credits = [k \in Key |-> [monitor |-> 0, command |-> 0]]
  /\ lastCheckedHeight = 0
  /\ monitor = Booting
  /\ command = [p \in Commands |-> IdleCommand]
  /\ used = [commands |-> 0, crashes |-> 0, errors |-> 0]

(* The chain takes a block: the node shows its deposits all at once.        *)
Mine ==
  /\ mined < Len(Chain)
  /\ mined' = Cardinality({i \in DOMAIN Chain :
                             Height[Chain[i]] <= Height[Chain[mined + 1]]})
  /\ UNCHANGED << loopVars, ledgerVars, depositVars, lastCheckedHeight,
                  monitor, command, used >>

------------------------------------------------------------------------------
(* LedgerService.processDeposit: the balance, then the log.                 *)

CreditDeposit(k, owner, by) ==
  /\ Credit(owner, 1)
  /\ credits' = [credits EXCEPT ![k][by] = @ + 1]

RecordDeposit(k, owner) ==
  /\ RecordCredit(owner, 1)
  /\ deposited' = [deposited EXCEPT ![k] = @ + 1]

------------------------------------------------------------------------------
(* The monitor: one loop for the reconciliation at startup and for every    *)
(* check.  It wakes when the answer of the node is there, and takes the     *)
(* hashes from it.                                                          *)

tx == Head(monitor.todo)
seen == AsNode(tx)

Load(list) ==
  /\ Wake(Monitor)
  /\ list # << >>
  /\ monitor' = [step |-> "look", todo |-> list]

(* initialize: the height is taken from the table; per_page = 100.          *)
Startup ==
  /\ monitor = Booting
  /\ lastCheckedHeight' = MaxHeight
  /\ \/ Load(OldestPage(StartupPage))
     \/ /\ OldestPage(StartupPage) = << >> \/ RpcFails
        /\ monitor' = Waiting
        /\ UNCHANGED loopVars
  /\ UNCHANGED << ledgerVars, mined, depositVars, command, used >>

(* checkForDeposits every 30 seconds: only blocks above the last height.    *)
Check ==
  /\ monitor = Waiting
  /\ Load(Newer(OldestPage(PageSize), lastCheckedHeight))
  /\ UNCHANGED << ledgerVars, mined, depositVars, lastCheckedHeight, command,
                  used >>

MonitorAt(step) == Monitor \in ready /\ monitor.step = step

MonitorGoto(step) ==
  /\ Tick(Monitor)
  /\ monitor' = [monitor EXCEPT !.step = step]

(* Mutant: the loop runs once too often.                                    *)
MonitorNextOffByOne ==
  IF monitor.todo = << >>
  THEN Suspend(Monitor) /\ monitor' = Waiting
  ELSE Tick(Monitor) /\ monitor' = [step |-> "look", todo |-> Tail(monitor.todo)]

(* The next deposit of the list, or the end of the drain.                   *)
MonitorNext ==
  IF Len(monitor.todo) = 1
  THEN Suspend(Monitor) /\ monitor' = Waiting
  ELSE Tick(Monitor) /\ monitor' = [step |-> "look", todo |-> Tail(monitor.todo)]

(* A deposit that is in either table is skipped; one that only the log has  *)
(* gets its row now.                                                        *)
MonitorSkip ==
  /\ MonitorAt("look")
  /\ Known(seen) \/ deposited[seen] > 0
  /\ rows' = IF Known(seen) THEN rows
             ELSE [rows EXCEPT ![seen] = Row("done", Memo[tx], Height[tx])]
  /\ MonitorNext
  /\ UNCHANGED << ledgerVars, mined, deposited, claimed, credits,
                  lastCheckedHeight, command, used >>

(* Mutant: the row is inserted when everything else is done.                *)
MonitorInsertLate ==
  /\ MonitorAt("look")
  /\ ~Known(seen) /\ deposited[seen] = 0
  /\ MonitorGoto("credit")
  /\ UNCHANGED << ledgerVars, mined, depositVars, lastCheckedHeight, command,
                  used >>

(* Mutant: the height that was seen is taken for the next one to look at.   *)
MonitorInsertSkipsBlock ==
  /\ MonitorAt("look")
  /\ ~Known(seen) /\ deposited[seen] = 0
  /\ rows' = [rows EXCEPT ![seen] = Row("open", Memo[tx], Height[tx])]
  /\ lastCheckedHeight' = Height[tx] + 1
  /\ MonitorGoto("credit")
  /\ UNCHANGED << ledgerVars, mined, deposited, claimed, credits, command,
                  used >>

(* The row, with the user of the memo (created if need be) or UNCLAIMED.    *)
MonitorInsert ==
  /\ MonitorAt("look")
  /\ ~Known(seen) /\ deposited[seen] = 0
  /\ rows' = [rows EXCEPT ![seen] = Row("open", Memo[tx], Height[tx])]
  /\ lastCheckedHeight' = IF Height[tx] > lastCheckedHeight
                          THEN Height[tx] ELSE lastCheckedHeight
  /\ MonitorGoto("credit")
  /\ UNCHANGED << ledgerVars, mined, deposited, claimed, credits, command,
                  used >>

MonitorCredit ==
  /\ MonitorAt("credit")
  /\ CreditDeposit(seen, Memo[tx], "monitor")
  /\ MonitorGoto("record")
  /\ UNCHANGED << mined, rows, deposited, claimed, lastCheckedHeight, command,
                  used >>

MonitorRecord ==
  /\ MonitorAt("record")
  /\ RecordDeposit(seen, Memo[tx])
  /\ MonitorGoto("done")
  /\ UNCHANGED << mined, rows, claimed, credits, lastCheckedHeight, command,
                  used >>

(* processed = 1, or the error that the ledger reported.                    *)
MonitorMark ==
  /\ \E state \in {"done", "failed"} :
       MonitorAt(state) /\ SetState(seen, state)
  /\ MonitorNext
  /\ UNCHANGED << ledgerVars, mined, deposited, claimed, credits,
                  lastCheckedHeight, command, used >>

(* Mutant: the failure that the ledger reports is not looked at.            *)
MonitorErrorIgnored ==
  /\ Monitor \in ready
  /\ used.errors < MaxErrors
  /\ used' = [used EXCEPT !.errors = @ + 1]
  /\ IF monitor.step \in {"credit", "record"}
     THEN MonitorGoto("done")
     ELSE Suspend(Monitor) /\ monitor' = Waiting
  /\ UNCHANGED << ledgerVars, mined, depositVars, lastCheckedHeight, command >>

(* A statement throws.  The ledger reports it as a failure; elsewhere the   *)
(* rest of the list is given up until the next check.                       *)
MonitorError ==
  /\ Monitor \in ready
  /\ used.errors < MaxErrors
  /\ used' = [used EXCEPT !.errors = @ + 1]
  /\ IF monitor.step \in {"credit", "record"}
     THEN MonitorGoto("failed")
     ELSE Suspend(Monitor) /\ monitor' = Waiting
  /\ UNCHANGED << ledgerVars, mined, depositVars, lastCheckedHeight, command >>

Monitoring ==
  \/ Startup
  \/ Check
  \/ MonitorSkip
  \/ MonitorInsert
  \/ MonitorCredit
  \/ MonitorRecord
  \/ MonitorMark

------------------------------------------------------------------------------
(* The commands.  They exist once bot.launch has run.                       *)

CommandAt(p, step) == p \in ready /\ command[p].step = step

CommandGoto(p, step) ==
  /\ Tick(p)
  /\ command' = [command EXCEPT ![p].step = step]

CommandEnd(p) ==
  /\ Suspend(p)
  /\ command' = [command EXCEPT ![p] = IdleCommand]

Start(p, kind, k, user, step) ==
  /\ monitor.step # "boot"
  /\ command[p].step = "idle"
  /\ kind \in Kinds
  /\ used.commands < MaxCommands
  /\ used' = [used EXCEPT !.commands = @ + 1]
  /\ command' = [command EXCEPT ![p] =
                   [step |-> step, kind |-> kind, key |-> k, user |-> user,
                    known |-> Known(k)]]
  /\ UNCHANGED << ledgerVars, mined, depositVars, lastCheckedHeight, monitor >>

(* /verifydeposit by the user of the memo and /processdeposit by an admin   *)
(* wait for the node, then look at processed = 1 and at nothing else.  The  *)
(* first uses the hash as it was typed, the second in upper case, which is  *)
(* how the node writes it (and refuses 0X).                                 *)
BeginCredit(p, kind, k) ==
  /\ kind = "verify" \/ (kind = "process" /\ k = AsNode(k[1]))
  /\ k[1] \in {Chain[i] : i \in 1 .. mined}
  /\ Memo[k[1]] # Unclaimed
  /\ rows[k].state # "done"
  /\ Wake(p)
  /\ Start(p, kind, k, Memo[k[1]], "credit")

CommandCredit(p) ==
  /\ CommandAt(p, "credit")
  /\ CreditDeposit(command[p].key, command[p].user, "command")
  /\ CommandGoto(p, "log")
  /\ UNCHANGED << mined, rows, deposited, claimed, lastCheckedHeight, monitor,
                  used >>

CommandRecord(p) ==
  /\ CommandAt(p, "log")
  /\ RecordDeposit(command[p].key, command[p].user)
  /\ CommandGoto(p, "done")
  /\ UNCHANGED << mined, rows, claimed, credits, lastCheckedHeight, monitor,
                  used >>

(* A new row (of /verifydeposit: height 0), or an update of the one that    *)
(* was there at the beginning.                                              *)
CommandMark(p) ==
  LET k == command[p].key
      height == IF command[p].known THEN rows[k].height
                ELSE IF command[p].kind = "verify" THEN 0 ELSE Height[k[1]]
      owner(state) == IF command[p].known /\ state = "failed"
                      THEN rows[k].owner ELSE command[p].user
  IN  /\ \E state \in {"done", "failed"} :
           /\ CommandAt(p, state)
           /\ rows' = [rows EXCEPT ![k] = Row(state, owner(state), height)]
      /\ CommandEnd(p)
      /\ UNCHANGED << ledgerVars, mined, deposited, claimed, credits,
                      lastCheckedHeight, monitor, used >>

(* Mutant: without the safeguard that looks for an earlier claim.           *)
BeginClaimAgain(p, k, u) ==
  /\ Arrive(p)
  /\ Batching \/ ready = {}
  /\ Known(k) /\ rows[k].owner = Unclaimed
  /\ Start(p, "claim", k, u, "readFrom")

(* /claimdeposit: an admin gives an unclaimed deposit to a user.  Nothing   *)
(* is awaited from outside before it looks at the tables.                   *)
BeginClaim(p, k, u) ==
  /\ Arrive(p)
  /\ Batching \/ ready = {}
  /\ Known(k) /\ rows[k].owner = Unclaimed
  /\ claimed[k] = 0
  /\ Start(p, "claim", k, u, "readFrom")

ClaimReadFrom(p) ==
  /\ CommandAt(p, "readFrom")
  /\ \/ /\ Sufficient(bal[Unclaimed], 1)
        /\ ReadFrom(p, Unclaimed)
        /\ CommandGoto(p, "readTo")
     \/ /\ ~Sufficient(bal[Unclaimed], 1)
        /\ Forget(p)
        /\ CommandEnd(p)
  /\ UNCHANGED << mined, depositVars, lastCheckedHeight, monitor, used >>

ClaimReadTo(p) ==
  /\ CommandAt(p, "readTo")
  /\ ReadTo(p, command[p].user)
  /\ CommandGoto(p, "writeFrom")
  /\ UNCHANGED << mined, depositVars, lastCheckedHeight, monitor, used >>

ClaimWriteFrom(p) ==
  /\ CommandAt(p, "writeFrom")
  /\ WriteFrom(p, Unclaimed, 1)
  /\ CommandGoto(p, "writeTo")
  /\ UNCHANGED << mined, depositVars, lastCheckedHeight, monitor, used >>

ClaimWriteTo(p) ==
  /\ CommandAt(p, "writeTo")
  /\ WriteTo(p, command[p].user, 1)
  /\ CommandGoto(p, "record")
  /\ UNCHANGED << mined, depositVars, lastCheckedHeight, monitor, used >>

ClaimRecord(p) ==
  /\ CommandAt(p, "record")
  /\ RecordTransfer(p, Unclaimed, command[p].user, 1)
  /\ claimed' = [claimed EXCEPT ![command[p].key] = @ + 1]
  /\ CommandGoto(p, "assign")
  /\ UNCHANGED << mined, rows, deposited, credits, lastCheckedHeight, monitor,
                  used >>

(* Mutant: the owner of the row stays UNCLAIMED.                            *)
ClaimAssignNothing(p) ==
  /\ CommandAt(p, "assign")
  /\ CommandEnd(p)
  /\ UNCHANGED << ledgerVars, mined, depositVars, lastCheckedHeight, monitor,
                  used >>

ClaimAssign(p) ==
  /\ CommandAt(p, "assign")
  /\ rows' = [rows EXCEPT ![command[p].key].owner = command[p].user]
  /\ CommandEnd(p)
  /\ UNCHANGED << ledgerVars, mined, deposited, claimed, credits,
                  lastCheckedHeight, monitor, used >>

(* A statement throws: the two statements of processDeposit are reported as *)
(* a failure, everything else ends the command.                             *)
CommandError(p) ==
  /\ p \in ready
  /\ used.errors < MaxErrors
  /\ used' = [used EXCEPT !.errors = @ + 1]
  /\ Forget(p)
  /\ IF command[p].step \in {"credit", "log"}
     THEN CommandGoto(p, "failed")
     ELSE CommandEnd(p)
  /\ UNCHANGED << mined, depositVars, lastCheckedHeight, monitor >>

Begin(p) ==
  \E k \in Key :
    \/ \E kind \in {"verify", "process"} : BeginCredit(p, kind, k)
    \/ \E u \in Users : BeginClaim(p, k, u)

Proceed(p) ==
  \/ CommandCredit(p)
  \/ CommandRecord(p)
  \/ CommandMark(p)
  \/ ClaimReadFrom(p)
  \/ ClaimReadTo(p)
  \/ ClaimWriteFrom(p)
  \/ ClaimWriteTo(p)
  \/ ClaimRecord(p)
  \/ ClaimAssign(p)

------------------------------------------------------------------------------
(* The process dies and is started again: the tables stay.                  *)
Crash ==
  /\ used.crashes < MaxCrashes
  /\ used' = [used EXCEPT !.crashes = @ + 1]
  /\ Halt
  /\ monitor' = Booting
  /\ command' = [p \in Commands |-> IdleCommand]
  /\ snap' = [p \in Commands |-> NoSnap]
  /\ lastCheckedHeight' = 0
  /\ UNCHANGED << bal, audit, mined, depositVars >>

Next ==
  \/ Mine
  \/ Monitoring
  \/ MonitorError
  \/ \E p \in Commands : Begin(p) \/ Proceed(p) \/ CommandError(p)
  \/ Crash

Spec == Init /\ [][Next]_vars

(* The timer of the monitor fires, the node answers, and drains end.        *)
FairSpec ==
  /\ Spec
  /\ SF_vars(Monitoring)
  /\ \A p \in Commands : WF_vars(Proceed(p))

------------------------------------------------------------------------------
RowStates == {"none", "open", "failed", "done"}
MonitorSteps == {"look", "credit", "record", "done", "failed"}
ClaimSteps == {"readFrom", "readTo", "writeFrom", "writeTo", "record"}
CommandSteps == {"idle", "credit", "log", "done", "failed", "assign"}
                  \cup ClaimSteps

RowType == [state: RowStates, owner: Accounts, height: Nat]
MonitorType == [step: {"boot", "wait"} \cup MonitorSteps, todo: Seq(Deposit)]
CommandType == [step: CommandSteps, kind: Kinds \cup {"none"}, key: Key,
                user: Accounts, known: BOOLEAN]

TablesTypeOK ==
  /\ rows \in [Key -> RowType]
  /\ deposited \in [Key -> Nat]
  /\ claimed \in [Key -> Nat]
  /\ credits \in [Key -> [monitor: Nat, command: Nat]]

MonitorTypeOK ==
  /\ monitor \in MonitorType
  /\ monitor.step \in MonitorSteps <=> monitor.todo # << >>

CommandTypeOK == command \in [Commands -> CommandType]

UsedTypeOK == used \in [commands: Nat, crashes: Nat, errors: Nat]

(* Every variable keeps its type.                                           *)
TypeOK ==
  /\ LoopTypeOK
  /\ LedgerTypeOK
  /\ TablesTypeOK
  /\ MonitorTypeOK
  /\ CommandTypeOK
  /\ UsedTypeOK
  /\ mined \in 0 .. Len(Chain)
  /\ lastCheckedHeight \in Nat

TimesCredited(k) == credits[k].monitor + credits[k].command

(* "Ensures idempotent deposit handling" (LEDGER.md, processed_deposits):   *)
(* under one spelling of its hash a deposit is credited at most once.       *)
CreditedOnce == \A k \in Key : TimesCredited(k) <= 1

(* What the code keeps of it whatever crashes or fails between any two      *)
(* statements, and however users spell hashes: the monitor credits a        *)
(* deposit at most once, and never one that the log has under the node's    *)
(* spelling, whoever entered it.                                            *)
MonitorCreditsOnce ==
  /\ \A k \in Key : credits[k].monitor <= 1
  /\ MonitorAt("credit") => deposited[seen] = 0

(* A deposit that is marked as processed was credited under that spelling:  *)
(* "already processed" is never the answer to a user who got nothing.       *)
DoneMeansCredited ==
  \A k \in Key : rows[k].state = "done" => TimesCredited(k) > 0

(* Between drains, without faults: under each spelling of its hash a        *)
(* deposit is credited at most once, and then, and only then, it has its    *)
(* log entry, its row, and its unit on the account that the row names; no   *)
(* account holds anything else.  With one spelling, that is once for each   *)
(* deposit; a deposit may have two rows and two units if its user spells    *)
(* its hash in another way than the node.                                   *)
Settled ==
  used.crashes = 0 /\ used.errors = 0 /\ ready = {} =>
    /\ \A k \in Key :
         /\ TimesCredited(k) = deposited[k]
         /\ deposited[k] = IF rows[k].state = "done" THEN 1 ELSE 0
    /\ \A a \in Accounts :
         bal[a] = Cardinality({k \in Key :
                                 rows[k].state = "done" /\ rows[k].owner = a})

(* "SAFEGUARD: Check if this deposit was already claimed": no deposit is    *)
(* claimed twice, nor under any spelling but the node's.                    *)
ClaimedOnce ==
  \A k \in Key : claimed[k] <= IF k = AsNode(k[1]) THEN 1 ELSE 0

(* Every deposit that reaches the chain is found: it gets a row under the   *)
(* node's spelling, whatever users have verified before.                    *)
EveryDepositFound ==
  \A i \in DOMAIN Chain : mined >= i ~> Known(AsNode(Chain[i]))

=============================================================================
