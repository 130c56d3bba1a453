----------------------------- MODULE DepositProofs -----------------------------
(***************************************************************************)
(* Theorems about Deposits for every value of its constants: any chain,    *)
(* any number of users, commands, crashes and failing statements.          *)
(***************************************************************************)
EXTENDS Deposits, FiniteSetTheorems, SequenceTheorems, TLAPS

------------------------------------------------------------------------------
(* The chain, and the pages the node returns of it.                         *)

LEMMA ChainFacts ==
  /\ Chain \in Seq(Deposit) /\ Chain[1] \in Deposit
  /\ Len(Chain) \in Nat /\ DOMAIN Chain = 1 .. Len(Chain)
  /\ IsFiniteSet(Deposit)
<1>1. Chain \in Seq(Deposit) /\ Chain # << >>
  BY DepositsAssumption
<1>2. Len(Chain) \in Nat /\ DOMAIN Chain = 1 .. Len(Chain) /\ Len(Chain) > 0
  BY <1>1
<1>3. Chain[1] \in Deposit
  BY <1>2 DEF Deposit
<1>4. IsFiniteSet(1 .. Len(Chain))
  BY <1>2, FS_Interval
<1>5. Chain \in Surjection(1 .. Len(Chain), Deposit)
  BY <1>1, <1>2 DEF Surjection, Deposit
<1> QED
  BY <1>1, <1>2, <1>3, <1>4, <1>5, FS_Surjection

(* The tables: a key for every deposit and spelling.                        *)
LEMMA KeyFacts ==
  /\ \A t \in Deposit : AsNode(t) \in Key /\ AsNode(t)[1] = t
  /\ \A k \in Key : k[1] \in Deposit
  /\ IsFiniteSet(Key)
<1>1. IsFiniteSet(Deposit) /\ IsFiniteSet(Spellings) /\ NodeSpelling \in Spellings
  BY ChainFacts, DepositsAssumption
<1> QED
  BY <1>1, FS_Product DEF Key, AsNode

LEMMA PageType ==
  ASSUME mined \in 0 .. Len(Chain), NEW size \in Nat
  PROVE  OldestPage(size) \in Seq(Deposit)
BY ChainFacts DEF OldestPage

LEMMA NewerType ==
  ASSUME NEW page \in Seq(Deposit), NEW height \in Nat
  PROVE  Newer(page, height) \in Seq(Deposit)
<1> DEFINE below == {i \in DOMAIN page : Height[page[i]] <= height}
<1>1. Len(page) \in Nat /\ DOMAIN page = 1 .. Len(page)
  OBVIOUS
<1>2. IsFiniteSet(1 .. Len(page)) /\ below \in SUBSET (1 .. Len(page))
  BY <1>1, FS_Interval
<1> HIDE DEF below
<1>3. Cardinality(below) \in Nat
  BY <1>2, FS_Subset, FS_CardinalityType
<1>4. SubSeq(page, Cardinality(below) + 1, Len(page)) \in Seq(Deposit)
  BY <1>1, <1>3
<1> QED
  BY <1>4 DEF Newer, below

(* A finite set of heights has a greatest one: of the sets that had none    *)
(* the smallest could not lose an element.                                  *)
LEMMA FiniteHasMax ==
  ASSUME NEW H \in SUBSET Nat, IsFiniteSet(H), H # {}
  PROVE  \E h \in H : \A g \in H : g <= h
<1> DEFINE HasMax(S) == \E h \in S : \A g \in S : g <= h
           Bad == {S \in FiniteSubsetsOf(Nat) : S # {} /\ ~HasMax(S)}
<1>1. SUFFICES ASSUME Bad # {} PROVE FALSE
  BY DEF FiniteSubsetsOf
<1>2. PICK S \in Bad :
        \A T \in Bad : << T, S >> \notin StrictSubsetOrdering(Nat)
  BY <1>1, FS_StrictSubsetOrderingWellFounded, WFMin
<1>3. PICK x \in S : TRUE
  BY <1>2
<1>4. S \ {x} \in FiniteSubsetsOf(Nat)
  BY <1>2, FS_Subset DEF FiniteSubsetsOf
<1>5. << S \ {x}, S >> \in StrictSubsetOrdering(Nat)
  BY <1>2, <1>3 DEF StrictSubsetOrdering, FiniteSubsetsOf
<1>6. S \ {x} = {} \/ HasMax(S \ {x})
  BY <1>2, <1>4, <1>5
<1>7. S \subseteq Nat /\ ~HasMax(S)
  BY <1>2 DEF FiniteSubsetsOf
<1>8. CASE S \ {x} = {}
  <2>1. \A g \in S : g = x
    BY <1>8
  <2> QED
    BY <1>3, <1>7, <2>1
<1>9. CASE HasMax(S \ {x})
  BY <1>3, <1>7, <1>9
<1> QED
  BY <1>6, <1>8, <1>9

LEMMA MaxHeightType ==
  ASSUME TypeOK
  PROVE  MaxHeight \in Nat
<1> DEFINE H == {rows[t].height : t \in Key}
           f == [t \in Key |-> rows[t].height]
<1>1. H \cup {0} \subseteq Nat
  BY DEF TypeOK, TablesTypeOK, RowType
<1>2. f \in Surjection(Key, H)
  BY DEF Surjection
<1>3. IsFiniteSet(H \cup {0})
  BY <1>2, KeyFacts, FS_Surjection, FS_AddElement
<1> HIDE DEF H
<1>4. \E h \in H \cup {0} : \A g \in H \cup {0} : g <= h
  BY <1>1, <1>3, FiniteHasMax
<1>5. (CHOOSE h \in H \cup {0} : \A g \in H \cup {0} : g <= h) \in H \cup {0}
  BY <1>4
<1> QED
  BY <1>1, <1>5 DEF MaxHeight, H


LEMMA MinedType ==
  ASSUME mined \in 0 .. Len(Chain), Mine
  PROVE  mined' \in 0 .. Len(Chain)
<1> DEFINE block == {i \in DOMAIN Chain :
                       Height[Chain[i]] <= Height[Chain[mined + 1]]}
<1>1. block \in SUBSET (1 .. Len(Chain)) /\ IsFiniteSet(1 .. Len(Chain))
  BY ChainFacts, FS_Interval
<1>2. mined' = Cardinality(block)
  BY DEF Mine
<1> HIDE DEF block
<1>3. Cardinality(block) \in Nat
        /\ Cardinality(block) <= Cardinality(1 .. Len(Chain))
  BY <1>1, FS_Subset, FS_CardinalityType
<1>4. Cardinality(1 .. Len(Chain)) = Len(Chain)
  <2>1. ASSUME NEW n \in Nat PROVE Cardinality(1 .. n) = n
    BY FS_Interval
  <2> QED
    BY <2>1, ChainFacts
<1> QED
  BY <1>2, <1>3, <1>4, ChainFacts

------------------------------------------------------------------------------
(* Typing.                                                                  *)

LEMMA IdleCommandType == IdleCommand \in CommandType
BY ChainFacts, KeyFacts DEF IdleCommand, CommandType, CommandSteps, Accounts

LEMMA NoSnapType == NoSnap \in [from: Int, to: Int]
BY DEF NoSnap

LEMMA RestingTypes ==
  /\ Booting \in MonitorType /\ Booting.step = "boot" /\ Booting.todo = << >>
  /\ Waiting \in MonitorType /\ Waiting.step = "wait" /\ Waiting.todo = << >>
<1>1. << >> \in Seq(Deposit)
  OBVIOUS
<1> QED
  BY <1>1 DEF Booting, Waiting, MonitorType

LEMMA InitType ==
  ASSUME Init
  PROVE  TypeOK
<1>1. MonitorTypeOK
  BY RestingTypes DEF Init, MonitorTypeOK, MonitorSteps
<1>2. CommandTypeOK
  BY IdleCommandType DEF Init, CommandTypeOK
<1>3. LedgerTypeOK
  BY NoSnapType DEF Init, LedgerTypeOK
<1>4. NoRow \in RowType
  BY DEF NoRow, RowType, RowStates, Accounts
<1>5. TablesTypeOK
  BY <1>4 DEF Init, TablesTypeOK
<1>6. LoopTypeOK /\ lastCheckedHeight \in Nat
  BY DEF Init, LoopInit, LoopTypeOK
<1>7. mined \in 0 .. Len(Chain)
  BY ChainFacts DEF Init
<1>8. UsedTypeOK
  BY DEF Init, UsedTypeOK
<1> QED
  BY <1>1, <1>2, <1>3, <1>5, <1>6, <1>7, <1>8 DEF TypeOK

(* The deposit the monitor is at.                                           *)
LEMMA TxType ==
  ASSUME MonitorTypeOK, monitor.step \in MonitorSteps
  PROVE  /\ tx \in Deposit /\ Memo[tx] \in Accounts /\ Height[tx] \in Nat
         /\ seen \in Key
<1>1. monitor.todo \in Seq(Deposit) /\ monitor.todo # << >>
  BY DEF MonitorTypeOK, MonitorType
<1>2. tx \in Deposit
  BY <1>1 DEF tx
<1> QED
  BY <1>2, DepositsAssumption, KeyFacts DEF seen

LEMMA TailFacts ==
  ASSUME NEW S, NEW s \in Seq(S), s # << >>, Len(s) # 1
  PROVE  Tail(s) \in Seq(S) /\ Tail(s) # << >>
<1>1. Len(s) \in Nat \ {0}
  BY EmptySeq
<1>2. Tail(s) \in Seq(S) /\ Len(Tail(s)) = Len(s) - 1
  BY HeadTailProperties
<1>3. Len(Tail(s)) # 0 /\ Len(<< >>) = 0
  BY <1>1, <1>2
<1> QED
  BY <1>2, <1>3

(* The ways the monitor goes on.                                            *)
LEMMA LoadType ==
  ASSUME NEW list \in Seq(Deposit), Load(list)
  PROVE  LoopTypeOK' /\ MonitorTypeOK'
BY DEF Load, Wake, LoopTypeOK, MonitorTypeOK, MonitorType, MonitorSteps

LEMMA RestType ==
  ASSUME monitor' \in {Waiting, Booting}
  PROVE  MonitorTypeOK'
BY RestingTypes DEF MonitorTypeOK, MonitorSteps

LEMMA MonitorGotoType ==
  ASSUME LoopTypeOK, MonitorTypeOK, monitor.step \in MonitorSteps,
         NEW step \in MonitorSteps, MonitorGoto(step)
  PROVE  LoopTypeOK' /\ MonitorTypeOK'
BY DEF MonitorGoto, Tick, LoopTypeOK, MonitorTypeOK, MonitorType

LEMMA MonitorNextType ==
  ASSUME LoopTypeOK, MonitorTypeOK, monitor.step \in MonitorSteps, MonitorNext
  PROVE  LoopTypeOK' /\ MonitorTypeOK'
<1>1. monitor.todo \in Seq(Deposit) /\ monitor.todo # << >>
  BY DEF MonitorTypeOK, MonitorType
<1>2. LoopTypeOK'
  BY DEF MonitorNext, Suspend, Tick, LoopTypeOK
<1>3. CASE Len(monitor.todo) = 1
  BY <1>2, <1>3, RestType DEF MonitorNext
<1>4. CASE Len(monitor.todo) # 1
  <2>2. Tail(monitor.todo) \in Seq(Deposit) /\ Tail(monitor.todo) # << >>
    BY <1>1, <1>4, TailFacts
  <2>5. monitor' = [step |-> "look", todo |-> Tail(monitor.todo)]
    BY <1>4 DEF MonitorNext
  <2> QED
    BY <1>2, <2>2, <2>5 DEF MonitorTypeOK, MonitorType, MonitorSteps
<1> QED
  BY <1>3, <1>4

(* What is written into the tables keeps their types.                       *)
LEMMA SkipRowType ==
  ASSUME TablesTypeOK, UNCHANGED << deposited, claimed, credits >>,
         NEW t \in Key, NEW row \in RowType,
         rows' \in {rows, [rows EXCEPT ![t] = row]}
  PROVE  TablesTypeOK'
BY DEF TablesTypeOK

LEMMA RowIsRow ==
  ASSUME NEW state \in RowStates, NEW owner \in Accounts, NEW height \in Nat
  PROVE  Row(state, owner, height) \in RowType
BY DEF Row, RowType

LEMMA FieldIsRow ==
  ASSUME TablesTypeOK, NEW t \in Key, NEW state \in RowStates,
         NEW owner \in Accounts
  PROVE  /\ [rows[t] EXCEPT !.state = state] \in RowType
         /\ [rows[t] EXCEPT !.owner = owner] \in RowType
<1>1. rows[t] \in RowType
  BY DEF TablesTypeOK
<1> QED
  BY <1>1 DEF RowType

LEMMA CreditType ==
  ASSUME LedgerTypeOK, TablesTypeOK, NEW t \in Key, NEW owner \in Accounts,
         NEW by \in {"monitor", "command"}, CreditDeposit(t, owner, by),
         UNCHANGED << rows, deposited, claimed >>
  PROVE  LedgerTypeOK' /\ TablesTypeOK'
<1>1. LedgerTypeOK'
  BY DEF CreditDeposit, Credit, Add, LedgerTypeOK
<1>2. TablesTypeOK'
  <2>1. CASE by = "monitor"
    BY <2>1 DEF CreditDeposit, TablesTypeOK
  <2>2. CASE by = "command"
    BY <2>2 DEF CreditDeposit, TablesTypeOK
  <2> QED
    BY <2>1, <2>2
<1> QED
  BY <1>1, <1>2

LEMMA RecordDepositType ==
  ASSUME LedgerTypeOK, TablesTypeOK, NEW t \in Key, NEW owner \in Accounts,
         RecordDeposit(t, owner), UNCHANGED << rows, claimed, credits >>
  PROVE  LedgerTypeOK' /\ TablesTypeOK'
<1>1. LedgerTypeOK'
  BY DEF RecordDeposit, RecordCredit, LedgerTypeOK
<1>2. TablesTypeOK'
  BY DEF RecordDeposit, TablesTypeOK
<1> QED
  BY <1>1, <1>2

LEMMA Frames ==
  /\ LedgerTypeOK /\ UNCHANGED ledgerVars => LedgerTypeOK'
  /\ TablesTypeOK /\ UNCHANGED depositVars => TablesTypeOK'
  /\ CommandTypeOK /\ UNCHANGED command => CommandTypeOK'
  /\ MonitorTypeOK /\ UNCHANGED monitor => MonitorTypeOK'
  /\ LoopTypeOK /\ UNCHANGED loopVars => LoopTypeOK'
  /\ UsedTypeOK /\ UNCHANGED used => UsedTypeOK'
BY DEF UsedTypeOK, LedgerTypeOK, TablesTypeOK, CommandTypeOK, MonitorTypeOK, LoopTypeOK,
       ledgerVars, depositVars, loopVars

(* The steps of the monitor.                                                *)
LEMMA CountType ==
  ASSUME UsedTypeOK,
         \/ used' = [used EXCEPT !.commands = @ + 1]
         \/ used' = [used EXCEPT !.crashes = @ + 1]
         \/ used' = [used EXCEPT !.errors = @ + 1]
  PROVE  UsedTypeOK'
BY DEF UsedTypeOK

LEMMA MonitorType1 ==
  ASSUME TypeOK, Startup \/ Check
  PROVE  TypeOK'
<1>1. OldestPage(StartupPage) \in Seq(Deposit)
        /\ OldestPage(PageSize) \in Seq(Deposit)
  BY PageType, DepositsAssumption DEF TypeOK
<1>2. CASE Startup
  <2>1. lastCheckedHeight' \in Nat
    BY <1>2, MaxHeightType DEF Startup
  <2>2. LoopTypeOK' /\ MonitorTypeOK'
    BY <1>1, <1>2, LoadType, RestType, Frames DEF Startup, TypeOK
  <2> QED
    BY <1>2, <2>1, <2>2, Frames DEF Startup, TypeOK
<1>3. CASE Check
  <2>1. Newer(OldestPage(PageSize), lastCheckedHeight) \in Seq(Deposit)
    BY <1>1, NewerType DEF TypeOK
  <2>2. LoopTypeOK' /\ MonitorTypeOK'
    BY <1>3, <2>1, LoadType DEF Check
  <2> QED
    BY <1>3, <2>2, Frames DEF Check, TypeOK
<1> QED
  BY <1>2, <1>3

LEMMA MonitorType2 ==
  ASSUME TypeOK, Monitor \in ready => monitor.step \in MonitorSteps,
         \/ MonitorSkip \/ MonitorInsert \/ MonitorCredit \/ MonitorRecord
         \/ MonitorMark \/ MonitorError
  PROVE  TypeOK'
<1> USE Frames DEF MonitorAt
<1>a. Monitor \in ready => /\ tx \in Deposit /\ Memo[tx] \in Accounts
                           /\ Height[tx] \in Nat /\ seen \in Key
  BY TxType DEF TypeOK
<1>b. {"look", "credit", "record", "done", "failed"} \subseteq MonitorSteps
  BY DEF MonitorSteps
<1>c. {"open", "done", "failed"} \subseteq RowStates
  BY DEF RowStates
<1> USE DEF TypeOK
<1>1. CASE MonitorSkip
  <2>1. Row("done", Memo[tx], Height[tx]) \in RowType
    BY <1>1, <1>a, <1>c, RowIsRow DEF MonitorSkip
  <2>2. TablesTypeOK'
    BY <1>1, <1>a, <2>1, SkipRowType DEF MonitorSkip
  <2> QED
    BY <1>1, <1>b, <2>2, MonitorNextType DEF MonitorSkip
<1>2. CASE MonitorInsert
  <2>1. Row("open", Memo[tx], Height[tx]) \in RowType
    BY <1>2, <1>a, <1>c, RowIsRow DEF MonitorInsert
  <2>2. TablesTypeOK'
    BY <1>2, <1>a, <2>1, SkipRowType DEF MonitorInsert
  <2>3. lastCheckedHeight' \in Nat
    BY <1>2, <1>a DEF MonitorInsert
  <2> QED
    BY <1>2, <1>b, <2>2, <2>3, MonitorGotoType DEF MonitorInsert
<1>3. CASE MonitorCredit
  <2>1. LedgerTypeOK' /\ TablesTypeOK'
    BY <1>3, <1>a, CreditType DEF MonitorCredit
  <2> QED
    BY <1>3, <1>b, <2>1, MonitorGotoType DEF MonitorCredit
<1>4. CASE MonitorRecord
  <2>1. LedgerTypeOK' /\ TablesTypeOK'
    BY <1>4, <1>a, RecordDepositType DEF MonitorRecord
  <2> QED
    BY <1>4, <1>b, <2>1, MonitorGotoType DEF MonitorRecord
<1>5. CASE MonitorMark
  <2>1. PICK state \in {"done", "failed"} : MonitorAt(state) /\ SetState(seen, state)
    BY <1>5 DEF MonitorMark
  <2>2. [rows[seen] EXCEPT !.state = state] \in RowType
    BY <1>a, <1>c, <2>1, FieldIsRow, Unclaimed \in Accounts DEF Accounts
  <2>3. rows' = [rows EXCEPT ![seen] = [rows[seen] EXCEPT !.state = state]]
    BY <2>1 DEF SetState
  <2>4. TablesTypeOK'
    BY <1>5, <1>a, <2>1, <2>2, <2>3, SkipRowType DEF MonitorMark
  <2> QED
    BY <1>5, <1>b, <2>1, <2>4, MonitorNextType DEF MonitorMark
<1>6. CASE MonitorError
  <2>1. LoopTypeOK' /\ MonitorTypeOK'
    <3>1. CASE monitor.step \in {"credit", "record"}
      BY <1>6, <1>b, <3>1, MonitorGotoType DEF MonitorError
    <3>2. CASE monitor.step \notin {"credit", "record"}
      BY <1>6, <3>2, RestType DEF MonitorError, Suspend, LoopTypeOK
    <3> QED
      BY <3>1, <3>2
  <2> QED
    BY <1>6, <2>1, CountType DEF MonitorError
<1> QED
  BY <1>1, <1>2, <1>3, <1>4, <1>5, <1>6

(* The ways a command goes on.                                              *)
LEMMA CommandGotoType ==
  ASSUME LoopTypeOK, CommandTypeOK, NEW p \in Commands,
         NEW step \in CommandSteps, CommandGoto(p, step)
  PROVE  LoopTypeOK' /\ CommandTypeOK'
BY DEF CommandGoto, Tick, LoopTypeOK, CommandTypeOK, CommandType

LEMMA CommandEndType ==
  ASSUME LoopTypeOK, CommandTypeOK, NEW p \in Commands, CommandEnd(p)
  PROVE  LoopTypeOK' /\ CommandTypeOK'
BY IdleCommandType DEF CommandEnd, Suspend, LoopTypeOK, CommandTypeOK

LEMMA BeginType ==
  ASSUME TypeOK, NEW p \in Commands, Begin(p)
  PROVE  TypeOK'
<1> USE DEF TypeOK
<1>1. ASSUME NEW kind \in {"verify", "process", "claim"}, NEW t \in Key,
             NEW u \in Accounts, NEW step \in {"credit", "readFrom"},
             Start(p, kind, t, u, step), LoopTypeOK'
      PROVE  TypeOK'
  <2>1. Known(t) \in BOOLEAN
    BY DEF Known
  <2>2. CommandTypeOK'
    BY <1>1, <2>1
       DEF Start, CommandTypeOK, CommandType, CommandSteps, ClaimSteps
  <2> QED
    BY <1>1, <2>2, Frames, CountType DEF Start
<1>2. ASSUME NEW t \in Key, NEW kind \in {"verify", "process"},
             BeginCredit(p, kind, t)
      PROVE  TypeOK'
  <2>1. Memo[t[1]] \in Accounts
    BY DepositsAssumption, KeyFacts
  <2>2. LoopTypeOK'
    BY <1>2 DEF BeginCredit, Wake, LoopTypeOK
  <2> QED
    BY <1>1, <1>2, <2>1, <2>2 DEF BeginCredit
<1>3. ASSUME NEW t \in Key, NEW u \in Users, BeginClaim(p, t, u)
      PROVE  TypeOK'
  BY <1>1, <1>3 DEF BeginClaim, Arrive, LoopTypeOK, Accounts
<1> QED
  BY <1>2, <1>3 DEF Begin

LEMMA ProceedType ==
  ASSUME TypeOK, NEW p \in Commands, Proceed(p) \/ CommandError(p)
  PROVE  TypeOK'
<1> USE Frames DEF CommandAt, TypeOK
<1>a. /\ command[p].key \in Key /\ command[p].user \in Accounts
      /\ Height[command[p].key[1]] \in Nat
  BY DepositsAssumption, KeyFacts DEF CommandTypeOK, CommandType
<1>b. Unclaimed \in Accounts
  BY DEF Accounts
<1>c. {"log", "done", "failed", "readTo", "writeFrom", "writeTo", "record",
       "assign"} \subseteq CommandSteps
  BY DEF CommandSteps, ClaimSteps
<1>1. CASE CommandCredit(p)
  <2>1. LedgerTypeOK' /\ TablesTypeOK'
    BY <1>1, <1>a, CreditType DEF CommandCredit
  <2> QED
    BY <1>1, <1>c, <2>1, CommandGotoType DEF CommandCredit
<1>2. CASE CommandRecord(p)
  <2>1. LedgerTypeOK' /\ TablesTypeOK'
    BY <1>2, <1>a, RecordDepositType DEF CommandRecord
  <2> QED
    BY <1>2, <1>c, <2>1, CommandGotoType DEF CommandRecord
<1>3. CASE CommandMark(p)
  <2> DEFINE t == command[p].key
  <2>1. rows[t].owner \in Accounts /\ rows[t].height \in Nat
    BY <1>a DEF TablesTypeOK, RowType
  <2>2. \E state \in {"done", "failed"}, owner \in Accounts, height \in Nat :
          rows' = [rows EXCEPT ![t] = Row(state, owner, height)]
    <3> DEFINE h == IF command[p].known THEN rows[t].height
                    ELSE IF command[p].kind = "verify" THEN 0
                    ELSE Height[t[1]]
               o(state) == IF command[p].known /\ state = "failed"
                           THEN rows[t].owner ELSE command[p].user
    <3>1. PICK state \in {"done", "failed"} :
            rows' = [rows EXCEPT ![t] = Row(state, o(state), h)]
      BY <1>3 DEF CommandMark
    <3>2. o(state) \in Accounts /\ h \in Nat
      BY <1>a, <2>1
    <3> QED
      BY <3>1, <3>2
  <2>3. TablesTypeOK'
    <3>1. PICK state \in {"done", "failed"}, owner \in Accounts, height \in Nat :
            rows' = [rows EXCEPT ![t] = Row(state, owner, height)]
      BY <2>2
    <3>2. Row(state, owner, height) \in RowType
      BY RowIsRow DEF RowStates
    <3> QED
      BY <1>3, <1>a, <3>1, <3>2, SkipRowType DEF CommandMark
  <2> QED
    BY <1>3, <2>3, CommandEndType DEF CommandMark
<1>4. CASE ClaimReadFrom(p)
  <2>1. LedgerTypeOK'
    <3>1. CASE ReadFrom(p, Unclaimed)
      BY <3>1, <1>b DEF ReadFrom, LedgerTypeOK
    <3>2. CASE Forget(p)
      BY <3>2, NoSnapType DEF Forget, LedgerTypeOK
    <3> QED
      BY <1>4, <3>1, <3>2 DEF ClaimReadFrom
  <2> QED
    BY <1>4, <1>c, <2>1, CommandGotoType, CommandEndType DEF ClaimReadFrom
<1>5. CASE ClaimReadTo(p)
  <2>1. LedgerTypeOK'
    BY <1>5, <1>a DEF ClaimReadTo, ReadTo, LedgerTypeOK
  <2> QED
    BY <1>5, <1>c, <2>1, CommandGotoType DEF ClaimReadTo
<1>6. CASE ClaimWriteFrom(p)
  <2>1. LedgerTypeOK'
    BY <1>6, <1>b DEF ClaimWriteFrom, WriteFrom, Subtract, LedgerTypeOK
  <2> QED
    BY <1>6, <1>c, <2>1, CommandGotoType DEF ClaimWriteFrom
<1>7. CASE ClaimWriteTo(p)
  <2>1. LedgerTypeOK'
    BY <1>7, <1>a DEF ClaimWriteTo, WriteTo, Add, LedgerTypeOK
  <2> QED
    BY <1>7, <1>c, <2>1, CommandGotoType DEF ClaimWriteTo
<1>8. CASE ClaimRecord(p)
  <2> DEFINE part(a, b) == IF a = b THEN 1 ELSE 0
             net == [a \in Accounts |-> audit[a] - part(a, Unclaimed)
                                          + part(a, command[p].user)]
  <2>0. audit' = net /\ bal' = bal /\ snap' = [snap EXCEPT ![p] = NoSnap]
    BY <1>8 DEF ClaimRecord, RecordTransfer
  <2>a. net \in [Accounts -> Int]
    <3>1. ASSUME NEW a \in Accounts
          PROVE  audit[a] - part(a, Unclaimed) + part(a, command[p].user) \in Int
      <4>1. audit[a] \in Int
        BY DEF LedgerTypeOK
      <4> QED
        BY <4>1
    <3> QED
      BY <3>1
  <2>1. LedgerTypeOK'
    BY <2>0, <2>a, NoSnapType DEF LedgerTypeOK
  <2>2. TablesTypeOK'
    BY <1>8, <1>a DEF ClaimRecord, TablesTypeOK
  <2> QED
    BY <1>8, <1>c, <2>1, <2>2, CommandGotoType DEF ClaimRecord
<1>9. CASE ClaimAssign(p)
  <2> DEFINE t == command[p].key
             row == [rows[t] EXCEPT !.owner = command[p].user]
  <2>1. row \in RowType
    BY <1>a, FieldIsRow DEF RowStates
  <2>2. rows' = [rows EXCEPT ![t] = row]
    BY <1>9 DEF ClaimAssign
  <2>3. TablesTypeOK'
    BY <1>9, <1>a, <2>1, <2>2, SkipRowType DEF ClaimAssign
  <2> QED
    BY <1>9, <2>3, CommandEndType DEF ClaimAssign
<1>10. CASE CommandError(p)
  <2>1. LedgerTypeOK'
    BY <1>10, NoSnapType DEF CommandError, Forget, LedgerTypeOK
  <2> QED
    BY <1>10, <1>c, <2>1, CommandGotoType, CommandEndType, CountType
       DEF CommandError
<1> QED
  BY <1>1, <1>2, <1>3, <1>4, <1>5, <1>6, <1>7, <1>8, <1>9, <1>10 DEF Proceed

LEMMA CrashType ==
  ASSUME TypeOK, Crash
  PROVE  TypeOK'
<1>1. LoopTypeOK' /\ MonitorTypeOK'
  BY RestType DEF Crash, Halt, LoopTypeOK
<1>2. LedgerTypeOK'
  BY NoSnapType DEF Crash, TypeOK, LedgerTypeOK
<1>3. CommandTypeOK'
  BY IdleCommandType DEF Crash, CommandTypeOK
<1> QED
  BY <1>1, <1>2, <1>3, Frames, CountType DEF Crash, TypeOK

LEMMA NextType ==
  ASSUME TypeOK, Monitor \in ready => monitor.step \in MonitorSteps, [Next]_vars
  PROVE  TypeOK'
<1>1. CASE Mine
  BY <1>1, MinedType, Frames DEF Mine, TypeOK
<1>2. CASE UNCHANGED vars
  BY <1>2, Frames DEF vars, TypeOK, loopVars, ledgerVars, depositVars
<1> QED
  BY <1>1, <1>2, MonitorType1, MonitorType2, BeginType, ProceedType, CrashType
     DEF Next, Monitoring

------------------------------------------------------------------------------
(* The inductive invariant.                                                 *)

(* What is runnable is under way, and the other way round; the monitor and  *)
(* the commands that wait for the node run alone in their drain.            *)
Schedule ==
  /\ Monitor \in ready <=> monitor.step \notin {"boot", "wait"}
  /\ \A p \in Commands : p \in ready <=> command[p].step # "idle"
  /\ ~batch => \A h, g \in ready : h = g
  /\ batch => \A p \in ready : /\ p # Monitor
                               /\ command[p].step \in ClaimSteps \cup {"assign"}

(* A row precedes every credit of the monitor, and a credit precedes every  *)
(* log entry and every mark, in the tables and in what is under way.        *)
TablesHistory ==
  \A t \in Key :
    /\ credits[t].monitor <= 1
    /\ credits[t].monitor > 0 => Known(t)
    /\ deposited[t] > 0 => TimesCredited(t) > 0
    /\ rows[t].state = "done" => TimesCredited(t) > 0

MonitorHistory ==
  /\ monitor.step = "credit" =>
       Known(seen) /\ credits[seen].monitor = 0 /\ deposited[seen] = 0
  /\ monitor.step \in {"record", "done"} => TimesCredited(seen) > 0

CommandHistory ==
  \A p \in Commands :
    command[p].step \in {"log", "done"} => TimesCredited(command[p].key) > 0

History == TablesHistory /\ MonitorHistory /\ CommandHistory

DepositInv == TypeOK /\ Schedule /\ History

(* A row without a user is one that the monitor wrote, so that what is       *)
(* claimed is spelled as the node does.                                     *)
Owned ==
  /\ \A k \in Key : Known(k) /\ rows[k].owner = Unclaimed => k = AsNode(k[1])
  /\ \A p \in Commands :
       command[p].step # "idle" =>
         /\ command[p].user # Unclaimed
         /\ command[p].known => Known(command[p].key)
         /\ command[p].step \in ClaimSteps =>
              command[p].key = AsNode(command[p].key[1])

(* Without batches one handler runs at a time, and what the claim looked at *)
(* is still so when it writes its log entry.                                *)
Claims ==
  /\ \A h, g \in ready : h = g
  /\ ClaimedOnce
  /\ Owned
  /\ \A p \in Commands :
       command[p].step \in ClaimSteps => claimed[command[p].key] = 0

LEMMA InitInv == Init => DepositInv
<1>1. ASSUME Init PROVE Schedule
  BY <1>1, DepositsAssumption
     DEF Init, Schedule, LoopInit, Booting, IdleCommand
<1>2. ASSUME Init PROVE History
  <2>1. credits = [t \in Key |-> [monitor |-> 0, command |-> 0]]
          /\ deposited = [t \in Key |-> 0]
          /\ rows = [t \in Key |-> NoRow]
          /\ monitor.step = "boot"
          /\ \A p \in Commands : command[p].step = "idle"
    BY <1>2 DEF Init, Booting, IdleCommand
  <2> QED
    BY <2>1 DEF History, TablesHistory, MonitorHistory, CommandHistory, NoRow
<1> QED
  BY <1>1, <1>2, InitType DEF DepositInv

(* How the scheduler's steps keep the schedule.                             *)
LEMMA MonitorSchedule ==
  ASSUME TypeOK, Schedule, Monitoring \/ MonitorError
  PROVE  Schedule'
<1> USE DepositsAssumption
<1>0. /\ MonitorSteps \cap {"boot", "wait"} = {}
      /\ Monitor \notin Commands /\ ready \subseteq Commands \cup {Monitor}
  BY DEF MonitorSteps, TypeOK, LoopTypeOK
<1>1. ASSUME NEW list, Load(list), command' = command
      PROVE  Schedule'
  BY <1>0, <1>1 DEF Schedule, Load, Wake
<1>2. ASSUME monitor' = Waiting, UNCHANGED << ready, batch, command >>,
             Monitor \notin ready
      PROVE  Schedule'
  BY <1>0, <1>2 DEF Schedule, Waiting
<1>3. ASSUME NEW step \in MonitorSteps, MonitorGoto(step), command' = command
      PROVE  Schedule'
  <2>1. monitor'.step = step
    BY <1>3 DEF MonitorGoto, TypeOK, MonitorTypeOK, MonitorType
  <2> QED
    BY <1>0, <1>3, <2>1 DEF Schedule, MonitorGoto, Tick
<1>4. ASSUME Suspend(Monitor), monitor' = Waiting, command' = command
      PROVE  Schedule'
  BY <1>0, <1>4 DEF Schedule, Suspend, Waiting
<1>5. ASSUME MonitorNext, command' = command
      PROVE  Schedule'
  <2>1. CASE monitor' = [step |-> "look", todo |-> Tail(monitor.todo)]
               /\ Tick(Monitor)
    BY <1>0, <1>5, <2>1 DEF Schedule, Tick
  <2> QED
    BY <1>4, <1>5, <2>1 DEF MonitorNext
<1>6. {"credit", "record", "done", "failed"} \subseteq MonitorSteps
  BY DEF MonitorSteps
<1>7. CASE Startup
  <2>1. Monitor \notin ready
    BY <1>7 DEF Startup, Schedule, Booting
  <2> QED
    BY <1>1, <1>2, <1>7, <2>1 DEF Startup, loopVars
<1>8. CASE Check
  BY <1>1, <1>8 DEF Check
<1>9. CASE MonitorSkip
  BY <1>5, <1>9 DEF MonitorSkip
<1>10. CASE MonitorInsert
  BY <1>3, <1>6, <1>10 DEF MonitorInsert
<1>11. CASE MonitorCredit
  BY <1>3, <1>6, <1>11 DEF MonitorCredit
<1>12. CASE MonitorRecord
  BY <1>3, <1>6, <1>12 DEF MonitorRecord
<1>13. CASE MonitorMark
  BY <1>5, <1>13 DEF MonitorMark
<1>14. CASE MonitorError
  BY <1>3, <1>4, <1>6, <1>14 DEF MonitorError
<1> QED
  BY <1>7, <1>8, <1>9, <1>10, <1>11, <1>12, <1>13, <1>14 DEF Monitoring

LEMMA CommandSchedule ==
  ASSUME TypeOK, Schedule, NEW p \in Commands,
         Begin(p) \/ Proceed(p) \/ CommandError(p)
  PROVE  Schedule'
<1> USE DepositsAssumption
<1>0. /\ Monitor \notin Commands /\ ready \subseteq Commands \cup {Monitor}
      /\ "credit" \notin ClaimSteps \cup {"assign"}
      /\ command \in [Commands -> CommandType]
  BY DEF TypeOK, LoopTypeOK, CommandTypeOK, ClaimSteps
<1>1. ASSUME NEW step, step # "idle", CommandGoto(p, step), monitor' = monitor,
             batch => step \in ClaimSteps \cup {"assign"}
      PROVE  Schedule'
  <2>1. /\ command'[p].step = step
        /\ \A q \in Commands \ {p} : command'[q] = command[q]
    BY <1>0, <1>1 DEF CommandGoto, CommandType
  <2> QED
    BY <1>0, <1>1, <2>1 DEF Schedule, CommandGoto, Tick
<1>2. ASSUME CommandEnd(p), monitor' = monitor
      PROVE  Schedule'
  <2>1. /\ command'[p].step = "idle"
        /\ \A q \in Commands \ {p} : command'[q] = command[q]
    BY <1>0, <1>2 DEF CommandEnd, IdleCommand
  <2> QED
    BY <1>0, <1>2, <2>1 DEF Schedule, CommandEnd, Suspend
<1>3. ASSUME NEW kind, NEW t, NEW u, NEW step, step # "idle",
             Start(p, kind, t, u, step),
             Wake(p) \/ (Arrive(p) /\ step \in ClaimSteps \cup {"assign"})
      PROVE  Schedule'
  <2>1. /\ command'[p].step = step
        /\ \A q \in Commands \ {p} : command'[q] = command[q]
        /\ monitor' = monitor
    BY <1>0, <1>3 DEF Start
  <2>2. CASE Wake(p)
    BY <1>0, <1>3, <2>1, <2>2 DEF Schedule, Wake
  <2>3. CASE Arrive(p) /\ step \in ClaimSteps \cup {"assign"}
    BY <1>0, <1>3, <2>1, <2>3 DEF Schedule, Arrive
  <2> QED
    BY <1>3, <2>2, <2>3
<1>4. CASE Begin(p)
  <2>1. "readFrom" \in ClaimSteps
    BY DEF ClaimSteps
  <2> QED
    BY <1>3, <1>4, <2>1 DEF Begin, BeginCredit, BeginClaim
<1>5. /\ {"readTo", "writeFrom", "writeTo", "record"} \subseteq ClaimSteps
      /\ \A s \in ClaimSteps \cup {"assign"} :
           s \notin {"idle", "credit", "log", "done", "failed"}
  BY DEF ClaimSteps
<1>6. CASE CommandError(p)
  <2>1. CASE command[p].step \in {"credit", "log"}
    <3>1. p \in ready /\ ~batch
      BY <1>5, <1>6, <2>1 DEF CommandError, Schedule
    <3> QED
      BY <1>1, <1>6, <2>1, <3>1 DEF CommandError
  <2> QED
    BY <1>2, <1>6, <2>1 DEF CommandError
<1>7. CASE CommandCredit(p) \/ CommandRecord(p)
  <2>1. ~batch
    BY <1>5, <1>7 DEF CommandCredit, CommandRecord, CommandAt, Schedule
  <2> QED
    BY <1>1, <1>7, <2>1 DEF CommandCredit, CommandRecord
<1>8. CASE CommandMark(p) \/ ClaimAssign(p)
  BY <1>2, <1>8 DEF CommandMark, ClaimAssign
<1>9. CASE ClaimReadFrom(p) \/ ClaimReadTo(p) \/ ClaimWriteFrom(p)
             \/ ClaimWriteTo(p) \/ ClaimRecord(p)
  BY <1>1, <1>2, <1>5, <1>9
     DEF ClaimReadFrom, ClaimReadTo, ClaimWriteFrom, ClaimWriteTo, ClaimRecord
<1> QED
  BY <1>4, <1>6, <1>7, <1>8, <1>9 DEF Proceed

LEMMA NextSchedule ==
  ASSUME TypeOK, Schedule, [Next]_vars
  PROVE  Schedule'
<1>1. CASE Crash
  BY <1>1, DepositsAssumption
     DEF Crash, Halt, Schedule, Booting, IdleCommand
<1>2. CASE Mine
  BY <1>2 DEF Mine, Schedule, loopVars
<1>3. CASE UNCHANGED vars
  BY <1>3 DEF vars, Schedule
<1> QED
  BY <1>1, <1>2, <1>3, MonitorSchedule, CommandSchedule DEF Next

(* How the history grows: nothing that was credited or entered in the log   *)
(* is taken back, and no row disappears.                                    *)
LEMMA CreditHistory ==
  ASSUME TypeOK, NEW t \in Key, NEW owner,
         NEW by \in {"monitor", "command"}, CreditDeposit(t, owner, by)
  PROVE  /\ \A d \in Key : TimesCredited(d) > 0 => TimesCredited(d)' > 0
         /\ TimesCredited(t)' > 0
         /\ \A d \in Key : d # t \/ by = "command" =>
              credits'[d].monitor = credits[d].monitor
         /\ by = "monitor" => credits'[t].monitor = credits[t].monitor + 1
<1>1. /\ credits \in [Key -> [monitor: Nat, command: Nat]]
      /\ credits' = [credits EXCEPT ![t][by] = @ + 1]
  BY DEF TypeOK, TablesTypeOK, CreditDeposit
<1>2. CASE by = "monitor"
  BY <1>1, <1>2 DEF TimesCredited
<1>3. CASE by = "command"
  BY <1>1, <1>3 DEF TimesCredited
<1> QED
  BY <1>2, <1>3

LEMMA SameCredits ==
  ASSUME credits' = credits
  PROVE  \A d \in Key : TimesCredited(d)' = TimesCredited(d)
BY DEF TimesCredited

(* The monitor at work is on a deposit, and stays on it until the next one. *)
LEMMA MonitorTx ==
  ASSUME TypeOK, Schedule, Monitor \in ready
  PROVE  /\ tx \in Deposit /\ seen \in Key
         /\ \A step \in MonitorSteps :
              MonitorGoto(step) =>
                monitor'.step = step /\ tx' = tx /\ seen' = seen
         /\ MonitorNext => monitor'.step \in {"look", "wait"}
<1>1. monitor.todo \in Seq(Deposit) /\ monitor.todo # << >>
  BY DEF Schedule, TypeOK, MonitorTypeOK, MonitorType, MonitorSteps
<1>2. tx \in Deposit
  BY <1>1, HeadTailProperties DEF tx
<1>3. ASSUME NEW step, MonitorGoto(step)
      PROVE  monitor'.step = step /\ monitor'.todo = monitor.todo
  <2>1. monitor \in MonitorType
    BY DEF TypeOK, MonitorTypeOK
  <2> QED
    BY <1>3, <2>1 DEF MonitorGoto, MonitorType
<1>4. ASSUME MonitorNext PROVE monitor'.step \in {"look", "wait"}
  BY <1>4 DEF MonitorNext, Waiting
<1> QED
  BY <1>2, <1>3, <1>4, KeyFacts DEF tx, seen

LEMMA CommandHistoryKept ==
  ASSUME TypeOK, CommandHistory, command' = command,
         \A d \in Key : TimesCredited(d) > 0 => TimesCredited(d)' > 0
  PROVE  CommandHistory'
<1>1. \A p \in Commands : command[p].key \in Key
  BY DEF TypeOK, CommandTypeOK, CommandType
<1> QED
  BY <1>1 DEF CommandHistory

LEMMA MonitorHistory1 ==
  ASSUME TypeOK, Schedule, History, Monitoring \/ MonitorError
  PROVE  History'
<1> USE DEF History
<1>a. \A t \in Key : rows[t] \in RowType /\ deposited[t] \in Nat
                           /\ credits[t] \in [monitor: Nat, command: Nat]
  BY DEF TypeOK, TablesTypeOK
<1>b. rows \in [Key -> RowType] /\ deposited \in [Key -> Nat]
  BY DEF TypeOK, TablesTypeOK
<1>c. {"look", "credit", "record", "done", "failed"} = MonitorSteps
  BY DEF MonitorSteps
<1>1. CASE Startup \/ Check
  <2>1. rows' = rows /\ credits' = credits /\ deposited' = deposited
          /\ command' = command
    BY <1>1 DEF Startup, Check, depositVars
  <2>2. monitor'.step \in {"look", "wait"}
    BY <1>1 DEF Startup, Check, Load, Waiting
  <2>3. TablesHistory' /\ MonitorHistory'
    BY <2>1, <2>2, SameCredits DEF TablesHistory, MonitorHistory, Known
  <2> QED
    BY <2>1, <2>3, SameCredits, CommandHistoryKept
<1>2. CASE MonitorSkip
  <2>1. credits' = credits /\ deposited' = deposited /\ command' = command
          /\ seen \in Key /\ monitor'.step \in {"look", "wait"}
    BY <1>2, MonitorTx DEF MonitorSkip, MonitorAt
  <2>2. TablesHistory'
    <3>1. CASE Known(seen)
      BY <1>2, <2>1, <3>1, SameCredits DEF MonitorSkip, TablesHistory, Known
    <3>2. CASE ~Known(seen)
      <4>1. rows' = [rows EXCEPT ![seen] = Row("done", Memo[tx], Height[tx])]
              /\ deposited[seen] > 0
        BY <1>2, <3>2 DEF MonitorSkip
      <4> QED
        BY <1>b, <2>1, <4>1, SameCredits DEF TablesHistory, Known, Row
    <3> QED
      BY <3>1, <3>2
  <2>3. MonitorHistory'
    BY <2>1 DEF MonitorHistory
  <2> QED
    BY <2>1, <2>2, <2>3, SameCredits, CommandHistoryKept
<1>3. CASE MonitorInsert
  <2>1. credits' = credits /\ deposited' = deposited /\ command' = command
          /\ seen \in Key /\ monitor'.step = "credit" /\ seen' = seen
          /\ ~Known(seen) /\ deposited[seen] = 0
          /\ rows' = [rows EXCEPT ![seen] = Row("open", Memo[tx], Height[tx])]
    BY <1>3, <1>c, MonitorTx DEF MonitorInsert, MonitorAt
  <2>2. TablesHistory' /\ Known(seen)'
    BY <1>b, <2>1, SameCredits DEF TablesHistory, Known, Row
  <2>3. credits[seen].monitor = 0
    BY <1>a, <2>1 DEF TablesHistory
  <2>4. MonitorHistory'
    BY <2>1, <2>2, <2>3 DEF MonitorHistory
  <2> QED
    BY <2>1, <2>2, <2>4, SameCredits, CommandHistoryKept
<1>4. CASE MonitorCredit
  <2>1. rows' = rows /\ deposited' = deposited /\ command' = command
          /\ seen \in Key /\ monitor'.step = "record" /\ seen' = seen
          /\ Known(seen) /\ credits[seen].monitor = 0
    BY <1>4, <1>c, MonitorTx DEF MonitorCredit, MonitorAt, MonitorHistory
  <2>2. CreditDeposit(seen, Memo[tx], "monitor")
    BY <1>4 DEF MonitorCredit
  <2> DEFINE owner == Memo[tx]
  <2> HIDE DEF owner
  <2>3. /\ \A d \in Key : TimesCredited(d) > 0 => TimesCredited(d)' > 0
        /\ TimesCredited(seen)' > 0
        /\ \A d \in Key : d # seen => credits'[d].monitor = credits[d].monitor
        /\ credits'[seen].monitor = 1
    BY <2>1, <2>2, CreditHistory
  <2>4. TablesHistory'
    BY <2>1, <2>3 DEF TablesHistory, Known
  <2>5. MonitorHistory'
    BY <2>1, <2>3 DEF MonitorHistory
  <2> QED
    BY <2>1, <2>3, <2>4, <2>5, CommandHistoryKept
<1>5. CASE MonitorRecord
  <2>1. rows' = rows /\ credits' = credits /\ command' = command
          /\ seen \in Key /\ monitor'.step = "done" /\ seen' = seen
          /\ TimesCredited(seen) > 0
          /\ deposited' = [deposited EXCEPT ![seen] = @ + 1]
    BY <1>5, <1>c, MonitorTx
       DEF MonitorRecord, MonitorAt, MonitorHistory, RecordDeposit
  <2>2. TablesHistory'
    BY <1>b, <2>1, SameCredits DEF TablesHistory, Known
  <2>3. MonitorHistory'
    BY <2>1, SameCredits DEF MonitorHistory
  <2> QED
    BY <2>1, <2>2, <2>3, SameCredits, CommandHistoryKept
<1>6. CASE MonitorMark
  <2>1. PICK state \in {"done", "failed"} : MonitorAt(state) /\ SetState(seen, state)
    BY <1>6 DEF MonitorMark
  <2>2. credits' = credits /\ deposited' = deposited /\ command' = command
          /\ seen \in Key /\ monitor'.step \in {"look", "wait"}
          /\ rows' = [rows EXCEPT ![seen].state = state]
          /\ (state = "done" => TimesCredited(seen) > 0)
    BY <1>6, <2>1, MonitorTx
       DEF MonitorMark, MonitorAt, SetState, MonitorHistory
  <2>3. /\ \A d \in Key : d # seen => rows'[d] = rows[d]
        /\ rows'[seen].state = state
    BY <1>b, <2>2 DEF RowType
  <2>4. TablesHistory'
    BY <2>2, <2>3, SameCredits DEF TablesHistory, Known
  <2>5. MonitorHistory'
    BY <2>2 DEF MonitorHistory
  <2> QED
    BY <2>2, <2>4, <2>5, SameCredits, CommandHistoryKept
<1>7. CASE MonitorError
  <2>1. rows' = rows /\ credits' = credits /\ deposited' = deposited
          /\ command' = command
    BY <1>7 DEF MonitorError, depositVars
  <2>2. monitor'.step \in {"failed", "wait"}
    BY <1>7, <1>c, MonitorTx DEF MonitorError, Waiting
  <2>3. TablesHistory' /\ MonitorHistory'
    BY <2>1, <2>2, SameCredits DEF TablesHistory, MonitorHistory, Known
  <2> QED
    BY <2>1, <2>3, SameCredits, CommandHistoryKept
<1> QED
  BY <1>1, <1>2, <1>3, <1>4, <1>5, <1>6, <1>7 DEF Monitoring

(* While a command acts the monitor waits.                                  *)
LEMMA MonitorIsOut ==
  ASSUME TypeOK, Schedule, NEW p \in Commands,
         Begin(p) \/ Proceed(p) \/ CommandError(p)
  PROVE  /\ monitor.step \notin {"credit", "record", "done"}
         /\ monitor' = monitor
<1>1. ASSUME p \in ready PROVE Monitor \notin ready
  BY <1>1, DepositsAssumption DEF Schedule
<1>2. ASSUME Wake(p) \/ Arrive(p) PROVE Monitor \notin ready
  BY <1>2 DEF Schedule, Wake, Arrive
<1>3. Monitor \notin ready
  BY <1>1, <1>2
     DEF Begin, BeginCredit, BeginClaim, Proceed, CommandCredit, CommandRecord,
         CommandMark, ClaimReadFrom, ClaimReadTo, ClaimWriteFrom, ClaimWriteTo,
         ClaimRecord, ClaimAssign, CommandError, CommandAt
<1>4. monitor' = monitor
  BY DEF Begin, BeginCredit, BeginClaim, Start, Proceed, CommandCredit,
         CommandRecord, CommandMark, ClaimReadFrom, ClaimReadTo,
         ClaimWriteFrom, ClaimWriteTo, ClaimRecord, ClaimAssign, CommandError
<1> QED
  BY <1>3, <1>4 DEF Schedule

LEMMA CommandHistory1 ==
  ASSUME TypeOK, Schedule, History, NEW p \in Commands,
         Begin(p) \/ Proceed(p) \/ CommandError(p)
  PROVE  History'
<1> USE DEF History
<1>a. MonitorHistory'
  BY MonitorIsOut DEF MonitorHistory
<1>b. /\ rows \in [Key -> RowType] /\ deposited \in [Key -> Nat]
      /\ command \in [Commands -> CommandType]
      /\ command[p] \in CommandType /\ command[p].key \in Key
      /\ \A q \in Commands : command[q].key \in Key
  BY DEF TypeOK, TablesTypeOK, CommandTypeOK, CommandType
<1>0. PICK t \in Key, owner \in Accounts :
        t = command[p].key /\ owner = command[p].user
  BY <1>b DEF CommandType
<1>1. ASSUME \/ CommandEnd(p)
             \/ \E kind, d, u : Start(p, kind, d, u, "credit")
             \/ \E kind, d, u : Start(p, kind, d, u, "readFrom")
             \/ \E step : CommandGoto(p, step) /\ step \notin {"log", "done"},
             \A d \in Key : TimesCredited(d) > 0 => TimesCredited(d)' > 0
      PROVE  CommandHistory'
  <2>1. /\ command'[p].step \notin {"log", "done"}
        /\ \A q \in Commands \ {p} : command'[q] = command[q]
    BY <1>b, <1>1 DEF CommandEnd, IdleCommand, Start, CommandGoto, CommandType
  <2> QED
    BY <1>b, <1>1, <2>1 DEF CommandHistory
<1>2. ASSUME NEW step, CommandGoto(p, step),
             TimesCredited(t)' > 0,
             \A d \in Key : TimesCredited(d) > 0 => TimesCredited(d)' > 0
      PROVE  CommandHistory'
  <2>1. /\ command'[p].key = t
        /\ \A q \in Commands \ {p} : command'[q] = command[q]
    BY <1>0, <1>b, <1>2 DEF CommandGoto, CommandType
  <2> QED
    BY <1>b, <1>2, <2>1 DEF CommandHistory
<1>3. CASE Begin(p) \/ CommandError(p) \/ ClaimReadFrom(p) \/ ClaimReadTo(p)
             \/ ClaimWriteFrom(p) \/ ClaimWriteTo(p) \/ ClaimRecord(p)
  <2>1. rows' = rows /\ credits' = credits /\ deposited' = deposited
    BY <1>3
       DEF Begin, BeginCredit, BeginClaim, Start, CommandError, ClaimReadFrom,
           ClaimReadTo, ClaimWriteFrom, ClaimWriteTo, ClaimRecord, depositVars
  <2>2. TablesHistory'
    BY <2>1, SameCredits DEF TablesHistory, Known
  <2>3. CommandHistory'
    BY <1>1, <1>3, <2>1, SameCredits
       DEF Begin, BeginCredit, BeginClaim, CommandError, ClaimReadFrom,
           ClaimReadTo, ClaimWriteFrom, ClaimWriteTo, ClaimRecord
  <2> QED
    BY <1>a, <2>2, <2>3
<1>4. CASE CommandCredit(p)
  <2>1. rows' = rows /\ deposited' = deposited
          /\ CreditDeposit(t, owner, "command")
          /\ CommandGoto(p, "log")
    BY <1>0, <1>4 DEF CommandCredit
  <2>2. /\ \A d \in Key : TimesCredited(d) > 0 => TimesCredited(d)' > 0
        /\ TimesCredited(t)' > 0
        /\ \A d \in Key : credits'[d].monitor = credits[d].monitor
    BY <1>b, <2>1, CreditHistory
  <2>3. TablesHistory'
    BY <2>1, <2>2 DEF TablesHistory, Known
  <2> QED
    BY <1>2, <1>a, <2>1, <2>2, <2>3
<1>5. CASE CommandRecord(p)
  <2>1. rows' = rows /\ credits' = credits /\ CommandGoto(p, "done")
          /\ deposited' = [deposited EXCEPT ![t] = @ + 1]
          /\ TimesCredited(t) > 0
    BY <1>0, <1>5 DEF CommandRecord, RecordDeposit, CommandAt, CommandHistory
  <2>2. TablesHistory'
    BY <1>b, <2>1, SameCredits DEF TablesHistory, Known
  <2>3. TimesCredited(t)' > 0
    BY <1>b, <2>1, SameCredits
  <2> QED
    BY <1>2, <1>a, <1>b, <2>1, <2>2, <2>3, SameCredits
<1>6. CASE CommandMark(p)
  <2>1. PICK state \in {"done", "failed"} :
          /\ CommandAt(p, state)
          /\ \E o, height : rows' = [rows EXCEPT ![t] = Row(state, o, height)]
    BY <1>0, <1>6 DEF CommandMark
  <2>2. credits' = credits /\ deposited' = deposited /\ CommandEnd(p)
    BY <1>6 DEF CommandMark
  <2>3. state = "done" => TimesCredited(t) > 0
    BY <1>0, <2>1 DEF CommandAt, CommandHistory
  <2>4. /\ \A d \in Key : d # t => rows'[d] = rows[d]
        /\ rows'[t].state = state
    BY <1>b, <2>1 DEF Row
  <2>5. TablesHistory'
    BY <2>2, <2>3, <2>4, SameCredits DEF TablesHistory, Known
  <2> QED
    BY <1>1, <1>a, <2>2, <2>5, SameCredits
<1>7. CASE ClaimAssign(p)
  <2>1. credits' = credits /\ deposited' = deposited /\ CommandEnd(p)
          /\ rows' = [rows EXCEPT ![t].owner = command[p].user]
    BY <1>0, <1>7 DEF ClaimAssign
  <2>2. \A d \in Key : rows'[d].state = rows[d].state
    BY <1>b, <2>1 DEF RowType
  <2>3. TablesHistory'
    BY <2>1, <2>2, SameCredits DEF TablesHistory, Known
  <2> QED
    BY <1>1, <1>a, <2>1, <2>3, SameCredits
<1> QED
  BY <1>3, <1>4, <1>5, <1>6, <1>7 DEF Proceed

LEMMA NextHistory ==
  ASSUME TypeOK, Schedule, History, [Next]_vars
  PROVE  History'
<1>1. CASE Crash
  <2>1. /\ rows' = rows /\ credits' = credits /\ deposited' = deposited
        /\ monitor'.step = "boot"
        /\ \A p \in Commands : command'[p].step = "idle"
    BY <1>1 DEF Crash, depositVars, Booting, IdleCommand
  <2> QED
    BY <2>1, SameCredits
       DEF History, TablesHistory, MonitorHistory, CommandHistory, Known
<1>2. CASE Mine \/ UNCHANGED vars
  <2>1. UNCHANGED << rows, credits, deposited, monitor, command >>
    BY <1>2 DEF Mine, vars, depositVars
  <2> QED
    BY <2>1
       DEF History, TablesHistory, MonitorHistory, CommandHistory, Known,
           TimesCredited, tx, seen
<1> QED
  BY <1>1, <1>2, MonitorHistory1, CommandHistory1 DEF Next

LEMMA DepositInductive == DepositInv /\ [Next]_vars => DepositInv'
<1>1. SUFFICES ASSUME DepositInv, [Next]_vars PROVE DepositInv'
  OBVIOUS
<1>2. Monitor \in ready => monitor.step \in MonitorSteps
  BY <1>1 DEF DepositInv, TypeOK, Schedule, MonitorTypeOK, MonitorType
<1> QED
  BY <1>1, <1>2, NextType, NextSchedule, NextHistory DEF DepositInv

LEMMA DepositInvariant == Spec => []DepositInv
BY InitInv, DepositInductive, PTL DEF Spec

(* Deposits: every variable keeps its type, whatever crashes or fails.      *)
THEOREM DepositsTypeCorrect == Spec => []TypeOK
<1>1. DepositInv => TypeOK
  BY DEF DepositInv
<1> QED
  BY <1>1, DepositInvariant, PTL

(* The monitor credits a deposit at most once and never one that a command  *)
(* has entered in the log, for any chain, crashes and failing statements.   *)
THEOREM MonitorCreditsEachDepositOnce == Spec => []MonitorCreditsOnce
<1>1. DepositInv => MonitorCreditsOnce
  BY DEF DepositInv, History, TablesHistory, MonitorHistory,
         MonitorCreditsOnce, MonitorAt
<1> QED
  BY <1>1, DepositInvariant, PTL

(* A row that says "processed" always stands for a credit.                  *)
THEOREM ProcessedMeansCredited == Spec => []DoneMeansCredited
<1>1. DepositInv => DoneMeansCredited
  BY DEF DepositInv, History, TablesHistory, DoneMeansCredited
<1> QED
  BY <1>1, DepositInvariant, PTL

------------------------------------------------------------------------------
(* Claims.                                                                  *)

LEMMA OwnedStep ==
  ASSUME TypeOK, Schedule, Owned, [Next]_vars
  PROVE  Owned'
<1>a. /\ rows \in [Key -> RowType] /\ command \in [Commands -> CommandType]
      /\ \A p \in Commands : command[p].key \in Key
      /\ \A k \in Key : rows[k] \in RowType
  BY DEF TypeOK, TablesTypeOK, CommandTypeOK, CommandType
<1>b. /\ \A s \in {"idle", "credit", "log", "done", "failed", "assign"} :
           s \notin ClaimSteps
      /\ "idle" \notin ClaimSteps
      /\ Unclaimed \notin Users
  BY DepositsAssumption DEF ClaimSteps
<1>1. ASSUME UNCHANGED << rows, command >> PROVE Owned'
  BY <1>1 DEF Owned, Known
<1>2. CASE Mine \/ UNCHANGED vars
  BY <1>1, <1>2 DEF Mine, vars, depositVars
<1>3. CASE Crash
  BY <1>3 DEF Crash, Owned, Known, IdleCommand, depositVars
<1>4. CASE Monitoring \/ MonitorError
  <2>0. command' = command
    BY <1>4 DEF Monitoring, MonitorError, Startup, Check, MonitorSkip,
                MonitorInsert, MonitorCredit, MonitorRecord, MonitorMark
  <2>1. ASSUME Monitor \in ready PROVE seen \in Key /\ seen = AsNode(seen[1])
    BY <2>1, MonitorTx, KeyFacts DEF seen
  <2>2. ASSUME NEW row, row.state # "none", Monitor \in ready,
               rows' = [rows EXCEPT ![seen] = row]
        PROVE  Owned'
    BY <1>a, <2>0, <2>1, <2>2 DEF Owned, Known
  <2>3. CASE MonitorSkip \/ MonitorInsert
    BY <1>1, <2>0, <2>2, <2>3 DEF MonitorSkip, MonitorInsert, MonitorAt, Row
  <2>4. CASE MonitorMark
    <3>1. PICK state \in {"done", "failed"} :
            MonitorAt(state) /\ SetState(seen, state)
      BY <2>4 DEF MonitorMark
    <3>2. /\ rows' = [rows EXCEPT ![seen] = [rows[seen] EXCEPT !.state = state]]
          /\ Monitor \in ready
      BY <3>1 DEF SetState, MonitorAt
    <3>3. [rows[seen] EXCEPT !.state = state].state # "none"
      BY <1>a, <2>1, <3>2 DEF RowType
    <3> QED
      BY <2>2, <3>2, <3>3
  <2> QED
    BY <1>1, <1>4, <2>0, <2>3, <2>4
       DEF Monitoring, MonitorError, Startup, Check, MonitorCredit,
           MonitorRecord, depositVars
<1>5. ASSUME NEW p \in Commands, Begin(p) \/ Proceed(p) \/ CommandError(p)
      PROVE  Owned'
  <2>1. ASSUME NEW step, CommandGoto(p, step), rows' = rows,
               command[p].step # "idle",
               step \in ClaimSteps => command[p].step \in ClaimSteps
        PROVE  Owned'
    <3>1. /\ command'[p] = [command[p] EXCEPT !.step = step]
          /\ \A q \in Commands \ {p} : command'[q] = command[q]
      BY <1>a, <2>1 DEF CommandGoto
    <3>2. /\ command'[p].key = command[p].key /\ command'[p].step = step
          /\ command'[p].user = command[p].user
          /\ command'[p].known = command[p].known
      BY <1>a, <3>1 DEF CommandType
    <3>3. \A k : Known(k)' <=> Known(k)
      BY <2>1 DEF Known
    <3>4. \A k \in Key : Known(k)' /\ rows'[k].owner = Unclaimed => k = AsNode(k[1])
      BY <2>1, <3>3 DEF Owned
    <3>5. ASSUME NEW q \in Commands, command'[q].step # "idle"
          PROVE  /\ command'[q].user # Unclaimed
                 /\ command'[q].known => Known(command[q].key)'
                 /\ command'[q].step \in ClaimSteps =>
                      command'[q].key = AsNode(command'[q].key[1])
      <4>1. CASE q = p
        BY <2>1, <3>2, <3>3, <3>5, <4>1 DEF Owned
      <4>2. CASE q # p
        BY <3>1, <3>3, <3>5, <4>2 DEF Owned
      <4> QED
        BY <4>1, <4>2
    <3> QED
      BY <3>4, <3>5 DEF Owned
  <2>2. ASSUME CommandEnd(p), NEW row, row.state # "none",
               row.owner = Unclaimed => command[p].key = AsNode(command[p].key[1]),
               rows' \in {rows, [rows EXCEPT ![command[p].key] = row]}
        PROVE  Owned'
    <3>1. /\ command'[p].step = "idle"
          /\ \A q \in Commands \ {p} : command'[q] = command[q]
      BY <1>a, <2>2 DEF CommandEnd, IdleCommand
    <3> QED
      BY <1>a, <2>2, <3>1 DEF Owned, Known
  <2>3. ASSUME NEW kind, NEW k \in Key, NEW u, u # Unclaimed, NEW step,
               Start(p, kind, k, u, step),
               step \in ClaimSteps => k = AsNode(k[1])
        PROVE  Owned'
    <3>1. /\ command'[p] = [step |-> step, kind |-> kind, key |-> k, user |-> u,
                            known |-> Known(k)]
          /\ \A q \in Commands \ {p} : command'[q] = command[q]
          /\ rows' = rows
      BY <1>a, <2>3 DEF Start, depositVars
    <3>2. \A k2 : Known(k2)' <=> Known(k2)
      BY <3>1 DEF Known
    <3>3. \A k2 \in Key : Known(k2)' /\ rows'[k2].owner = Unclaimed
                           => k2 = AsNode(k2[1])
      BY <3>1, <3>2 DEF Owned
    <3>4. /\ command'[p].step = step /\ command'[p].key = k
          /\ command'[p].user = u /\ command'[p].known = Known(k)
      BY <3>1
    <3>5. ASSUME NEW q \in Commands, command'[q].step # "idle"
          PROVE  /\ command'[q].user # Unclaimed
                 /\ command'[q].known => Known(command[q].key)'
                 /\ command'[q].step \in ClaimSteps =>
                      command'[q].key = AsNode(command'[q].key[1])
      <4>1. CASE q = p
        BY <2>3, <3>2, <3>4, <4>1
      <4>2. CASE q # p
        BY <3>1, <3>2, <3>5, <4>2 DEF Owned
      <4> QED
        BY <4>1, <4>2
    <3> QED
      BY <3>3, <3>5 DEF Owned
  <2>4. CASE Begin(p)
    BY <1>b, <2>3, <2>4 DEF Begin, BeginCredit, BeginClaim, Owned
  <2>5. ASSUME CommandEnd(p), rows' = rows PROVE Owned'
    BY <1>a, <2>5 DEF Owned, Known, CommandEnd, IdleCommand
  <2>6. ASSUME p \in ready PROVE command[p].step # "idle"
    BY <2>6 DEF Schedule
  <2>7. CASE CommandMark(p)
    <3> DEFINE k == command[p].key
               owner(state) == IF command[p].known /\ state = "failed"
                               THEN rows[k].owner ELSE command[p].user
    <3>1. PICK state \in {"done", "failed"} :
            /\ CommandAt(p, state)
            /\ \E h : rows' = [rows EXCEPT ![k] = Row(state, owner(state), h)]
            /\ CommandEnd(p)
      BY <2>7 DEF CommandMark
    <3>2. PICK h : rows' = [rows EXCEPT ![k] = Row(state, owner(state), h)]
      BY <3>1
    <3>3. owner(state) = Unclaimed => k = AsNode(k[1])
      BY <1>a, <2>6, <3>1 DEF Owned, CommandAt
    <3>4. /\ Row(state, owner(state), h).state # "none"
          /\ Row(state, owner(state), h).owner = owner(state)
      BY DEF Row
    <3> HIDE DEF owner
    <3> QED
      BY <2>2, <3>1, <3>2, <3>3, <3>4
  <2>8. CASE ClaimAssign(p)
    <3>1. /\ rows' = [rows EXCEPT ![command[p].key].owner = command[p].user]
          /\ command[p].user # Unclaimed /\ CommandEnd(p)
      BY <2>6, <2>8 DEF ClaimAssign, CommandAt, Owned
    <3>2. \A k \in Key : /\ rows'[k].state = rows[k].state
                         /\ rows'[k].owner = Unclaimed => rows[k].owner = Unclaimed
      BY <1>a, <3>1 DEF RowType
    <3>3. /\ command'[p].step = "idle"
          /\ \A q \in Commands \ {p} : command'[q] = command[q]
      BY <1>a, <3>1 DEF CommandEnd, IdleCommand
    <3> QED
      BY <1>a, <3>2, <3>3 DEF Owned, Known
  <2>9. CASE CommandCredit(p) \/ CommandRecord(p) \/ CommandError(p)
    BY <1>b, <2>1, <2>5, <2>6, <2>9
       DEF CommandCredit, CommandRecord, CommandError, CommandAt, depositVars
  <2>10. CASE ClaimReadFrom(p) \/ ClaimReadTo(p) \/ ClaimWriteFrom(p)
                \/ ClaimWriteTo(p) \/ ClaimRecord(p)
    <3>1. rows' = rows /\ p \in ready /\ command[p].step \in ClaimSteps
      BY <2>10 DEF ClaimReadFrom, ClaimReadTo, ClaimWriteFrom, ClaimWriteTo,
                   ClaimRecord, CommandAt, ClaimSteps, depositVars
    <3> QED
      BY <2>1, <2>5, <2>6, <2>10, <3>1
         DEF ClaimReadFrom, ClaimReadTo, ClaimWriteFrom, ClaimWriteTo, ClaimRecord
  <2> QED
    BY <1>5, <2>4, <2>7, <2>8, <2>9, <2>10 DEF Proceed
<1> QED
  BY <1>2, <1>3, <1>4, <1>5 DEF Next

LEMMA ClaimsInit == Init => Claims
BY DEF Init, Claims, ClaimedOnce, Owned, Known, NoRow, ClaimSteps, LoopInit,
       IdleCommand

LEMMA ClaimsStep ==
  ASSUME ~Batching, TypeOK, Schedule, Claims, [Next]_vars
  PROVE  Claims'
<1>0. Owned'
  BY OwnedStep DEF Claims
<1>a. /\ claimed \in [Key -> Nat] /\ command \in [Commands -> CommandType]
      /\ \A p \in Commands : command[p].key \in Key
  BY DEF TypeOK, TablesTypeOK, CommandTypeOK, CommandType
<1>b. /\ ClaimSteps \subseteq CommandSteps \ {"idle"}
      /\ \A s \in {"idle", "credit", "log", "done", "failed", "assign"} :
           s \notin ClaimSteps
  BY DEF CommandSteps, ClaimSteps
<1>1. CASE UNCHANGED << claimed, command >>
             /\ \A h, g \in ready' : h = g
  BY <1>0, <1>1 DEF Claims, ClaimedOnce
<1>2. CASE Mine \/ UNCHANGED vars
  BY <1>1, <1>2 DEF Mine, vars, loopVars, depositVars, Claims
<1>3. CASE Crash
  BY <1>0, <1>3 DEF Crash, Halt, Claims, ClaimedOnce, IdleCommand, depositVars,
              ClaimSteps
<1>4. CASE Monitoring \/ MonitorError
  <2>1. UNCHANGED << claimed, command >>
    BY <1>4 DEF Monitoring, MonitorError, Startup, Check, MonitorSkip,
                MonitorInsert, MonitorCredit, MonitorRecord, MonitorMark,
                depositVars
  <2>2. \A h, g \in ready' : h = g
    BY <1>4
       DEF Claims, Monitoring, MonitorError, Startup, Check, MonitorSkip,
           MonitorInsert, MonitorCredit, MonitorRecord, MonitorMark,
           MonitorNext, MonitorGoto, Load, Wake, Tick, Suspend, loopVars
  <2> QED
    BY <1>1, <2>1, <2>2
<1>5. ASSUME NEW p \in Commands, Begin(p) \/ Proceed(p) \/ CommandError(p)
      PROVE  Claims'
  <2>1. ASSUME NEW step, CommandGoto(p, step), claimed' = claimed,
               step \in ClaimSteps => command[p].step \in ClaimSteps
        PROVE  Claims'
    <3>1. /\ command'[p].key = command[p].key /\ command'[p].step = step
          /\ \A q \in Commands \ {p} : command'[q] = command[q]
      BY <1>a, <2>1 DEF CommandGoto, CommandType
    <3> QED
      BY <1>0, <1>a, <2>1, <3>1 DEF Claims, ClaimedOnce, CommandGoto, Tick
  <2>2. ASSUME CommandEnd(p), claimed' = claimed
        PROVE  Claims'
    <3>1. /\ command'[p].step = "idle"
          /\ \A q \in Commands \ {p} : command'[q] = command[q]
      BY <1>a, <2>2 DEF CommandEnd, IdleCommand
    <3> QED
      BY <1>0, <1>a, <1>b, <2>2, <3>1 DEF Claims, ClaimedOnce, CommandEnd, Suspend
  <2>3. ASSUME NEW kind, NEW t \in Key, NEW u, NEW step, Start(p, kind, t, u, step),
               ready = {}, ready' = {p}, step \in ClaimSteps => claimed[t] = 0
        PROVE  Claims'
    <3>1. /\ command'[p].key = t /\ command'[p].step = step
          /\ \A q \in Commands \ {p} : command'[q] = command[q]
          /\ claimed' = claimed
      BY <1>a, <2>3 DEF Start, depositVars
    <3> QED
      BY <1>0, <1>a, <2>3, <3>1 DEF Claims, ClaimedOnce
  <2>4. CASE Begin(p)
    BY <1>b, <2>3, <2>4 DEF Begin, BeginCredit, BeginClaim, Wake, Arrive
  <2>5. CASE CommandError(p)
    BY <1>b, <2>1, <2>2, <2>5 DEF CommandError, depositVars
  <2>6. CASE CommandCredit(p) \/ CommandRecord(p)
    BY <1>b, <2>1, <2>6 DEF CommandCredit, CommandRecord
  <2>7. CASE CommandMark(p) \/ ClaimAssign(p)
    BY <2>2, <2>7 DEF CommandMark, ClaimAssign
  <2>8. CASE ClaimReadFrom(p) \/ ClaimReadTo(p) \/ ClaimWriteFrom(p)
               \/ ClaimWriteTo(p)
    BY <2>1, <2>2, <2>8
       DEF ClaimReadFrom, ClaimReadTo, ClaimWriteFrom, ClaimWriteTo,
           depositVars, CommandAt, ClaimSteps
  <2>9. CASE ClaimRecord(p)
    <3> DEFINE t == command[p].key
    <3>1. /\ p \in ready /\ command[p].step \in ClaimSteps
          /\ claimed' = [claimed EXCEPT ![t] = @ + 1]
          /\ CommandGoto(p, "assign")
      BY <2>9 DEF ClaimRecord, CommandAt, ClaimSteps
    <3>2. claimed[t] = 0 /\ t = AsNode(t[1])
      BY <1>b, <3>1 DEF Claims, Owned
    <3>3. ClaimedOnce'
      BY <1>a, <3>1, <3>2 DEF Claims, ClaimedOnce
    <3>4. \A q \in Commands \ {p} : command[q].step \notin ClaimSteps
      BY <1>b, <3>1 DEF Claims, Schedule
    <3>5. /\ command'[p].step = "assign" /\ ready' = ready
          /\ \A q \in Commands \ {p} : command'[q] = command[q]
      BY <1>a, <3>1 DEF CommandGoto, CommandType, Tick
    <3> QED
      BY <1>0, <1>b, <3>3, <3>4, <3>5, <3>1 DEF Claims
  <2> QED
    BY <1>5, <2>4, <2>5, <2>6, <2>7, <2>8, <2>9 DEF Proceed
<1> QED
  BY <1>2, <1>3, <1>4, <1>5 DEF Next

(* "SAFEGUARD: Check if this deposit was already claimed" is enough, even   *)
(* after crashes and failing statements, as long as no two /claimdeposit    *)
(* come in one batch of updates.                                            *)
THEOREM NoDepositIsClaimedTwice ==
  ASSUME ~Batching
  PROVE  Spec => []ClaimedOnce
<1>1. DepositInv /\ Claims /\ [Next]_vars => Claims'
  BY ClaimsStep DEF DepositInv
<1>2. Claims => ClaimedOnce
  BY DEF Claims
<1> QED
  BY <1>1, <1>2, ClaimsInit, DepositInvariant, PTL DEF Spec

------------------------------------------------------------------------------
(* Drains without faults: where the unit of every deposit is.               *)

Phase(t) == << rows[t].state, TimesCredited(t), deposited[t] >>

(* The command that has credited t and not yet written its row, or that     *)
(* gives t to a user.                                                       *)
Paying(t) ==
  {p \in Commands :
     /\ command[p].key = t
     /\ command[p].step \in {"log", "done", "writeTo", "record", "assign"}}

(* Whose balance the unit of t is in: nobody's between the two UPDATEs of a *)
(* claim.                                                                   *)
Holders(t) ==
  IF TimesCredited(t) = 0 THEN {}
  ELSE IF Paying(t) = {} THEN {rows[t].owner}
  ELSE {command[p].user : p \in {q \in Paying(t) : command[q].step # "writeTo"}}

Units(a) == {t \in Key : a \in Holders(t)}

Resting(t) == Phase(t) \in {<< "none", 0, 0 >>, << "done", 1, 1 >>}

(* A deposit that is not at rest is the one a drain works on.               *)
MonitorClean ==
  \/ monitor.step \in {"boot", "wait", "look"} /\ \A t \in Key : Resting(t)
  \/ /\ monitor.step \in {"credit", "record", "done"}
     /\ \A t \in Key \ {seen} : Resting(t)
     /\ Phase(seen) = CASE monitor.step = "credit" -> << "open", 0, 0 >>
                      [] monitor.step = "record" -> << "open", 1, 0 >>
                      [] monitor.step = "done" -> << "open", 1, 1 >>
     /\ rows[seen].owner = Memo[tx]

CommandClean(p) ==
  LET c == command[p]
  IN  /\ \A t \in Key \ {c.key} : Resting(t)
      /\ \/ c.step = "credit" /\ Phase(c.key) = << "none", 0, 0 >>
         \/ c.step = "log" /\ Phase(c.key) = << "none", 1, 0 >>
         \/ c.step = "done" /\ Phase(c.key) = << "none", 1, 1 >>
         \/ /\ c.step \in ClaimSteps \cup {"assign"}
            /\ Phase(c.key) = << "done", 1, 1 >>
            /\ rows[c.key].owner = Unclaimed
            /\ c.user \in Users
            /\ c.step \in {"readTo", "writeFrom"} =>
                 snap[p].from = bal[Unclaimed]
            /\ c.step \in {"writeFrom", "writeTo"} => snap[p].to = bal[c.user]

Clean ==
  /\ \A h, g \in ready : h = g
  /\ (\A p \in Commands : p \notin ready) => MonitorClean
  /\ \A p \in Commands : p \in ready => CommandClean(p)
  /\ \A a \in Accounts : bal[a] = Cardinality(Units(a))

CleanInv == used.crashes = 0 /\ used.errors = 0 => Clean

LEMMA CardSteps ==
  ASSUME NEW S \in SUBSET Key, NEW t \in Key
  PROVE  /\ Cardinality(S) \in Nat
         /\ t \notin S => Cardinality(S \cup {t}) = Cardinality(S) + 1
         /\ t \in S => Cardinality(S \ {t}) = Cardinality(S) - 1
<1>1. IsFiniteSet(S)
  BY KeyFacts, FS_Subset
<1> QED
  BY <1>1, FS_CardinalityType, FS_AddElement, FS_RemoveElement

(* A step moves the unit of at most one deposit, into a balance or out.     *)
LEMMA Moves ==
  ASSUME TypeOK, NEW t \in Key, NEW u \in Accounts,
         \A a \in Accounts : bal[a] = Cardinality(Units(a)),
         \A d \in Key \ {t} : Holders(d)' = Holders(d),
         \/ Holders(t)' = Holders(t) /\ bal' = bal
         \/ /\ Holders(t) = {} /\ Holders(t)' = {u}
            /\ bal' = [bal EXCEPT ![u] = @ + 1]
         \/ /\ Holders(t) = {u} /\ Holders(t)' = {}
            /\ bal' = [bal EXCEPT ![u] = @ - 1]
  PROVE  \A a \in Accounts : (bal[a] = Cardinality(Units(a)))'
<1>1. ASSUME NEW a \in Accounts PROVE (bal[a] = Cardinality(Units(a)))'
  <2>1. bal \in [Accounts -> Int] /\ bal[a] = Cardinality(Units(a))
    BY DEF TypeOK, LedgerTypeOK
  <2>2. Units(a) \in SUBSET Key
    BY DEF Units
  <2>3. CASE Units(a)' = Units(a) /\ bal'[a] = bal[a]
    BY <2>1, <2>3
  <2>4. CASE Holders(t)' = Holders(t) /\ bal' = bal
    BY <2>3, <2>4 DEF Units
  <2>5. CASE Holders(t) = {} /\ Holders(t)' = {u}
               /\ bal' = [bal EXCEPT ![u] = @ + 1]
    <3>1. CASE a = u
      <4>1. t \notin Units(a) /\ Units(a)' = Units(a) \cup {t}
        BY <2>5, <3>1 DEF Units
      <4> QED
        BY <2>1, <2>2, <2>5, <3>1, <4>1, CardSteps
    <3>2. CASE a # u
      BY <2>1, <2>3, <2>5, <3>2 DEF Units
    <3> QED
      BY <3>1, <3>2
  <2>6. CASE Holders(t) = {u} /\ Holders(t)' = {}
               /\ bal' = [bal EXCEPT ![u] = @ - 1]
    <3>1. CASE a = u
      <4>1. t \in Units(a) /\ Units(a)' = Units(a) \ {t}
        BY <2>6, <3>1 DEF Units
      <4> QED
        BY <2>1, <2>2, <2>6, <3>1, <4>1, CardSteps
    <3>2. CASE a # u
      BY <2>1, <2>3, <2>6, <3>2 DEF Units
    <3> QED
      BY <3>1, <3>2
  <2> QED
    BY <2>4, <2>5, <2>6
<1> QED
  BY <1>1

LEMMA CreditCounts ==
  ASSUME TypeOK, NEW t \in Key, NEW u \in Accounts,
         NEW by \in {"monitor", "command"}, CreditDeposit(t, u, by)
  PROVE  /\ TimesCredited(t)' = TimesCredited(t) + 1
         /\ \A d \in Key \ {t} : TimesCredited(d)' = TimesCredited(d)
         /\ bal' = [bal EXCEPT ![u] = @ + 1]
<1>1. /\ credits \in [Key -> [monitor: Nat, command: Nat]]
      /\ credits' = [credits EXCEPT ![t][by] = @ + 1]
  BY DEF TypeOK, TablesTypeOK, CreditDeposit
<1>2. bal' = [bal EXCEPT ![u] = @ + 1]
  BY DEF CreditDeposit, Credit, Add
<1>3. CASE by = "monitor"
  BY <1>1, <1>2, <1>3 DEF TimesCredited
<1>4. CASE by = "command"
  BY <1>1, <1>2, <1>4 DEF TimesCredited
<1> QED
  BY <1>3, <1>4

LEMMA CleanInit == Init => CleanInv
<1>1. SUFFICES ASSUME Init PROVE Clean
  BY DEF CleanInv
<1>2. \A t \in Key : Phase(t) = << "none", 0, 0 >> /\ TimesCredited(t) = 0
  BY <1>1 DEF Init, Phase, TimesCredited, NoRow
<1>3. ready = {} /\ monitor.step = "boot"
  BY <1>1 DEF Init, LoopInit, Booting
<1>4. \A a \in Accounts : bal[a] = 0 /\ Units(a) = {}
  BY <1>1, <1>2 DEF Init, Units, Holders
<1>5. Cardinality({}) = 0
  BY FS_EmptySet
<1> QED
  BY <1>2, <1>3, <1>4, <1>5 DEF Clean, MonitorClean, Resting

LEMMA MonitorCleanStep ==
  ASSUME TypeOK, Schedule, Clean, Monitoring
  PROVE  Clean'
<1>a. /\ \A d \in Deposit : Memo[d] \in Accounts
      /\ rows \in [Key -> RowType] /\ deposited \in [Key -> Nat]
      /\ \A d \in Key : rows[d] \in RowType
      /\ Unclaimed \in Accounts /\ AsNode(Chain[1]) \in Key
  BY DepositsAssumption, ChainFacts, KeyFacts DEF TypeOK, TablesTypeOK, Accounts
<1>1. CASE Startup /\ UNCHANGED loopVars
  <2>1. /\ UNCHANGED << ready, bal, snap, rows, deposited, credits, command >>
        /\ monitor.step = "boot" /\ monitor'.step = "wait"
    BY <1>1 DEF Startup, Load, Wake, loopVars, ledgerVars, depositVars,
                Booting, Waiting
  <2>2. \A d \in Key : /\ Phase(d)' = Phase(d)
                       /\ Holders(d)' = Holders(d)
                       /\ Resting(d)' <=> Resting(d)
    BY <2>1 DEF Phase, Holders, Paying, TimesCredited, Resting
  <2>3. MonitorClean => MonitorClean'
    BY <2>1, <2>2 DEF MonitorClean
  <2>4. ASSUME NEW p \in Commands, CommandClean(p) PROVE CommandClean(p)'
    BY <2>1, <2>4
       DEF CommandClean, Resting, Phase, TimesCredited
  <2>5. \A a \in Accounts : Units(a)' = Units(a)
    BY <2>2 DEF Units
  <2> QED
    BY <2>1, <2>3, <2>4, <2>5 DEF Clean
<1>2. CASE ~(Startup /\ UNCHANGED loopVars)
  <2>1. /\ ready = {} \/ Monitor \in ready
        /\ ready' = {} \/ ready' = {Monitor}
        /\ command' = command
    BY <1>2
       DEF Clean, Monitoring, Startup, Check, Load, Wake, MonitorSkip,
           MonitorInsert, MonitorCredit, MonitorRecord, MonitorMark, MonitorAt,
           MonitorNext, MonitorGoto, Suspend, Tick
  <2>2. /\ \A p \in Commands : p \notin ready /\ p \notin ready'
        /\ \A h, g \in ready' : h = g
    BY <2>1, DepositsAssumption DEF Clean
  <2>3. \A d \in Key : Paying(d) = {} /\ Paying(d)' = {}
    BY <2>1, <2>2 DEF Paying, Schedule
  <2>4. \A d \in Key :
          /\ Holders(d) = IF TimesCredited(d) = 0 THEN {} ELSE {rows[d].owner}
          /\ Holders(d)' = IF TimesCredited(d)' = 0 THEN {}
                           ELSE {rows'[d].owner}
    BY <2>3 DEF Holders
  <2>5. MonitorClean /\ \A a \in Accounts : bal[a] = Cardinality(Units(a))
    BY <2>2 DEF Clean
  <2>6. SUFFICES MonitorClean'
                   /\ \A a \in Accounts : (bal[a] = Cardinality(Units(a)))'
    BY <2>2 DEF Clean
  <2>7. ASSUME bal' = bal,
               \A d \in Key : TimesCredited(d)' = TimesCredited(d)
                                    /\ rows'[d].owner = rows[d].owner
        PROVE  \A a \in Accounts : (bal[a] = Cardinality(Units(a)))'
    <3>1. \A d \in Key : Holders(d)' = Holders(d)
      BY <2>4, <2>7
    <3> QED
      BY <1>a, <2>5, <2>7, <3>1, Moves
  <2>8. CASE Startup \/ Check
    <3>1. UNCHANGED << bal, rows, deposited, credits >>
            /\ monitor.step \in {"boot", "wait"}
            /\ monitor'.step = "look"
      BY <1>2, <2>8 DEF Startup, Check, Load, ledgerVars, depositVars, Booting,
                        Waiting
    <3>2. MonitorClean'
      BY <2>5, <3>1 DEF MonitorClean, Resting, Phase, TimesCredited
    <3> QED
      BY <2>7, <3>1, <3>2, SameCredits
  <2>9. CASE ~(Startup \/ Check)
    <3>1. Monitor \in ready
      BY <2>9 DEF Monitoring, MonitorSkip, MonitorInsert, MonitorCredit,
                  MonitorRecord, MonitorMark, MonitorAt
    <3>2. PICK t \in Key, m \in Deposit : t = seen /\ m = tx
      BY <3>1, MonitorTx
    <3>3. /\ \A step \in MonitorSteps :
               MonitorGoto(step) => monitor'.step = step /\ seen' = t /\ tx' = m
          /\ MonitorNext => monitor'.step \in {"look", "wait"}
      BY <3>1, <3>2, MonitorTx
    <3>4. {"credit", "record", "done"} \subseteq MonitorSteps
      BY DEF MonitorSteps
    <3>5. CASE MonitorSkip
      <4>1. Resting(t) /\ \A d \in Key : Resting(d)
        BY <2>5, <3>2, <3>5 DEF MonitorSkip, MonitorAt, MonitorClean
      <4>2. Known(t) \/ deposited[t] > 0
        BY <3>2, <3>5 DEF MonitorSkip
      <4>3. Known(t)
        BY <4>1, <4>2 DEF Resting, Phase, Known
      <4>4. UNCHANGED << bal, rows, deposited, credits >>
              /\ monitor'.step \in {"look", "wait"}
        BY <3>2, <3>3, <3>5, <4>3 DEF MonitorSkip, ledgerVars
      <4>5. MonitorClean'
        BY <4>1, <4>4 DEF MonitorClean, Resting, Phase, TimesCredited
      <4> QED
        BY <2>7, <4>4, <4>5, SameCredits
    <3>6. CASE MonitorInsert
      <4>1. Resting(t) /\ \A d \in Key : Resting(d)
        BY <2>5, <3>2, <3>6 DEF MonitorInsert, MonitorAt, MonitorClean
      <4>2. /\ ~Known(t) /\ UNCHANGED << bal, deposited, credits >>
            /\ rows' = [rows EXCEPT ![t] = Row("open", Memo[m], Height[m])]
            /\ monitor'.step = "credit" /\ seen' = t /\ tx' = m
        BY <3>2, <3>3, <3>4, <3>6 DEF MonitorInsert, ledgerVars
      <4>3. Phase(t) = << "none", 0, 0 >>
        BY <4>1, <4>2 DEF Resting, Phase, Known
      <4>4. /\ rows'[t].state = "open" /\ rows'[t].owner = Memo[m]
            /\ \A d \in Key \ {t} : rows'[d] = rows[d]
        BY <1>a, <4>2 DEF Row
      <4>5. Phase(t)' = << "open", 0, 0 >>
              /\ \A d \in Key \ {t} : Resting(d)'
        BY <4>1, <4>2, <4>3, <4>4, SameCredits DEF Phase, Resting
      <4>6. MonitorClean'
        BY <4>2, <4>4, <4>5 DEF MonitorClean
      <4>7. \A d \in Key : Holders(d)' = Holders(d)
        BY <2>4, <4>2, <4>3, <4>4, SameCredits DEF Phase
      <4> QED
        BY <1>a, <2>5, <4>2, <4>6, <4>7, Moves
    <3>7. CASE MonitorCredit
      <4>1. /\ Phase(t) = << "open", 0, 0 >> /\ rows[t].owner = Memo[m]
            /\ \A d \in Key \ {t} : Resting(d)
        BY <2>5, <3>2, <3>7 DEF MonitorCredit, MonitorAt, MonitorClean
      <4>2. /\ CreditDeposit(t, Memo[m], "monitor")
            /\ UNCHANGED << rows, deposited >>
            /\ monitor'.step = "record" /\ seen' = t /\ tx' = m
        BY <3>2, <3>3, <3>4, <3>7 DEF MonitorCredit
      <4>3. PICK u \in Accounts : u = Memo[m]
        BY <1>a
      <4>4. /\ TimesCredited(t)' = TimesCredited(t) + 1
            /\ \A d \in Key \ {t} : TimesCredited(d)' = TimesCredited(d)
            /\ bal' = [bal EXCEPT ![u] = @ + 1]
        BY <4>2, <4>3, CreditCounts
      <4>5. Phase(t)' = << "open", 1, 0 >>
              /\ \A d \in Key \ {t} : Resting(d)'
        BY <4>1, <4>2, <4>4 DEF Phase, Resting
      <4>6. MonitorClean'
        BY <4>1, <4>2, <4>5 DEF MonitorClean
      <4>7. /\ \A d \in Key \ {t} : Holders(d)' = Holders(d)
            /\ Holders(t) = {} /\ Holders(t)' = {u}
        BY <2>4, <4>1, <4>2, <4>3, <4>4, <4>5 DEF Phase
      <4> QED
        BY <2>5, <4>4, <4>6, <4>7, Moves
    <3>8. CASE MonitorRecord
      <4>1. /\ Phase(t) = << "open", 1, 0 >> /\ rows[t].owner = Memo[m]
            /\ \A d \in Key \ {t} : Resting(d)
        BY <2>5, <3>2, <3>8 DEF MonitorRecord, MonitorAt, MonitorClean
      <4>2. /\ deposited' = [deposited EXCEPT ![t] = @ + 1]
            /\ UNCHANGED << bal, rows, credits >>
            /\ monitor'.step = "done" /\ seen' = t /\ tx' = m
        BY <3>2, <3>3, <3>4, <3>8
           DEF MonitorRecord, RecordDeposit, RecordCredit
      <4>3. Phase(t)' = << "open", 1, 1 >>
              /\ \A d \in Key \ {t} : Resting(d)'
        BY <1>a, <4>1, <4>2, SameCredits DEF Phase, Resting
      <4>4. MonitorClean'
        BY <4>1, <4>2, <4>3 DEF MonitorClean
      <4> QED
        BY <2>7, <4>2, <4>4, SameCredits
    <3>9. CASE MonitorMark
      <4>1. MonitorAt("done") /\ SetState(t, "done")
        BY <2>5, <3>2, <3>9 DEF MonitorMark, MonitorAt, MonitorClean
      <4>2. /\ Phase(t) = << "open", 1, 1 >>
            /\ \A d \in Key \ {t} : Resting(d)
        BY <2>5, <3>2, <4>1 DEF MonitorAt, MonitorClean
      <4>3. /\ UNCHANGED << bal, deposited, credits >>
            /\ rows' = [rows EXCEPT ![t].state = "done"]
            /\ monitor'.step \in {"look", "wait"}
        BY <3>3, <3>9, <4>1 DEF MonitorMark, SetState, ledgerVars
      <4>4. /\ rows'[t].state = "done"
            /\ \A d \in Key \ {t} : rows'[d] = rows[d]
            /\ \A d \in Key : rows'[d].owner = rows[d].owner
        BY <1>a, <4>3 DEF RowType
      <4>5. \A d \in Key : Resting(d)'
        BY <4>2, <4>3, <4>4, SameCredits DEF Phase, Resting
      <4>6. MonitorClean'
        BY <4>3, <4>5 DEF MonitorClean
      <4> QED
        BY <2>7, <4>3, <4>4, <4>6, SameCredits
    <3> QED
      BY <2>9, <3>5, <3>6, <3>7, <3>8, <3>9 DEF Monitoring
  <2> QED
    BY <2>8, <2>9
<1> QED
  BY <1>1, <1>2

(* A command that runs alone: only its deposit is in the air.               *)
LEMMA PayingAlone ==
  ASSUME NEW p \in Commands, NEW d,
         \A q \in Commands \ {p} : command[q].step = "idle"
  PROVE  /\ command[p].key # d => Paying(d) = {}
         /\ command[p].step \notin {"log", "done", "writeTo", "record", "assign"}
              => Paying(d) = {}
         /\ command[p].key = d
              /\ command[p].step \in {"log", "done", "writeTo", "record", "assign"}
              => Paying(d) = {p}
BY DEF Paying

LEMMA PayingAloneNext ==
  ASSUME NEW p \in Commands, NEW d,
         \A q \in Commands \ {p} : command'[q].step = "idle"
  PROVE  /\ command'[p].key # d => Paying(d)' = {}
         /\ command'[p].step \notin {"log", "done", "writeTo", "record", "assign"}
              => Paying(d)' = {}
         /\ command'[p].key = d
              /\ command'[p].step \in {"log", "done", "writeTo", "record", "assign"}
              => Paying(d)' = {p}
BY DEF Paying

(* Whose the unit of t is, by the step of the command p that works on t.    *)
LEMMA HoldersAlone ==
  ASSUME NEW p \in Commands, NEW t,
         \A q \in Commands \ {p} : command[q].step = "idle",
         \A q \in Commands \ {p} : command'[q].step = "idle",
         command[p].step = "idle" \/ command[p].key = t,
         command'[p].step = "idle" \/ command'[p].key = t,
         \A d \in Key \ {t} : TimesCredited(d)' = TimesCredited(d)
                                    /\ rows'[d] = rows[d]
  PROVE  /\ \A d \in Key \ {t} : Holders(d)' = Holders(d)
         /\ Holders(t) =
              IF TimesCredited(t) = 0 \/ command[p].step = "writeTo" THEN {}
              ELSE IF command[p].step \in {"log", "done", "record", "assign"}
              THEN {command[p].user} ELSE {rows[t].owner}
         /\ Holders(t)' =
              IF TimesCredited(t)' = 0 \/ command'[p].step = "writeTo" THEN {}
              ELSE IF command'[p].step \in {"log", "done", "record", "assign"}
              THEN {command'[p].user} ELSE {rows'[t].owner}
<1>1. ASSUME NEW d \in Key \ {t} PROVE Holders(d)' = Holders(d)
  <2>1. Paying(d) = {} /\ Paying(d)' = {}
    BY <1>1, PayingAlone, PayingAloneNext
  <2> QED
    BY <1>1, <2>1 DEF Holders
<1>2. Holders(t) =
        IF TimesCredited(t) = 0 \/ command[p].step = "writeTo" THEN {}
        ELSE IF command[p].step \in {"log", "done", "record", "assign"}
        THEN {command[p].user} ELSE {rows[t].owner}
  <2>1. CASE command[p].step \in {"log", "done", "writeTo", "record", "assign"}
    <3>1. Paying(t) = {p}
      BY <2>1, PayingAlone
    <3>2. {command[q].user : q \in {r \in {p} : command[r].step # "writeTo"}}
            = IF command[p].step = "writeTo" THEN {} ELSE {command[p].user}
      OBVIOUS
    <3>3. command[p].step # "writeTo" =>
            command[p].step \in {"log", "done", "record", "assign"}
      BY <2>1
    <3> QED
      BY <3>1, <3>2, <3>3 DEF Holders
  <2>2. CASE command[p].step
               \notin {"log", "done", "writeTo", "record", "assign"}
    <3>1. Paying(t) = {}
      BY <2>2, PayingAlone
    <3> QED
      BY <2>2, <3>1 DEF Holders
  <2> QED
    BY <2>1, <2>2
<1>3. Holders(t)' =
        IF TimesCredited(t)' = 0 \/ command'[p].step = "writeTo" THEN {}
        ELSE IF command'[p].step \in {"log", "done", "record", "assign"}
        THEN {command'[p].user} ELSE {rows'[t].owner}
  <2>1. CASE command'[p].step
               \in {"log", "done", "writeTo", "record", "assign"}
    <3>1. Paying(t)' = {p}
      BY <2>1, PayingAloneNext
    <3>2. {command'[q].user : q \in {r \in {p} : command'[r].step # "writeTo"}}
            = IF command'[p].step = "writeTo" THEN {} ELSE {command'[p].user}
      OBVIOUS
    <3>3. command'[p].step # "writeTo" =>
            command'[p].step \in {"log", "done", "record", "assign"}
      BY <2>1
    <3> QED
      BY <3>1, <3>2, <3>3 DEF Holders
  <2>2. CASE command'[p].step
               \notin {"log", "done", "writeTo", "record", "assign"}
    <3>1. Paying(t)' = {}
      BY <2>2, PayingAloneNext
    <3> QED
      BY <2>2, <3>1 DEF Holders
  <2> QED
    BY <2>1, <2>2
<1> QED
  BY <1>1, <1>2, <1>3

LEMMA CommandCleanStep ==
  ASSUME ~Batching, TypeOK, Schedule, Clean, NEW p \in Commands,
         Begin(p) \/ Proceed(p)
  PROVE  Clean'
<1>a. /\ rows \in [Key -> RowType] /\ deposited \in [Key -> Nat]
      /\ command \in [Commands -> CommandType] /\ command[p] \in CommandType
      /\ bal \in [Accounts -> Int] /\ snap \in [Commands -> [from: Int, to: Int]]
      /\ Unclaimed \in Accounts /\ Users \subseteq Accounts
      /\ Unclaimed \notin Users /\ Monitor \notin Commands
      /\ ready \subseteq Commands \cup {Monitor}
  BY DepositsAssumption
     DEF TypeOK, TablesTypeOK, CommandTypeOK, LedgerTypeOK, LoopTypeOK, Accounts
<1>b. \A a \in Accounts : bal[a] = Cardinality(Units(a))
  BY DEF Clean
<1>1. ASSUME ready' = {p}, CommandClean(p)',
             \A a \in Accounts : (bal[a] = Cardinality(Units(a)))'
      PROVE  Clean'
  BY <1>1 DEF Clean
<1>2. ASSUME ready' = {}, \A d \in Key : Resting(d)',
             monitor' = monitor, monitor.step \in {"boot", "wait"},
             \A a \in Accounts : (bal[a] = Cardinality(Units(a)))'
      PROVE  Clean'
  BY <1>2 DEF Clean, MonitorClean
<1>3. CASE Begin(p)
  <2>1. PICK t \in Key :
          \/ \E kind \in {"verify", "process"} : BeginCredit(p, kind, t)
          \/ \E u \in Users : BeginClaim(p, t, u)
    BY <1>3 DEF Begin
  <2>2. ready = {} /\ ready' = {p}
    BY <2>1 DEF BeginCredit, BeginClaim, Wake, Arrive
  <2>3. /\ monitor.step \notin MonitorSteps
        /\ \A q \in Commands : command[q].step = "idle"
    BY <2>2 DEF Schedule, TypeOK, MonitorTypeOK, MonitorType, MonitorSteps
  <2>4. \A d \in Key : Resting(d)
    BY <2>2, <2>3 DEF Clean, MonitorClean, MonitorSteps
  <2>5. PICK u \in Accounts, step \in {"credit", "readFrom"} :
          /\ command' = [command EXCEPT ![p] =
                           [step |-> step, kind |-> command'[p].kind, key |-> t,
                            user |-> u, known |-> Known(t)]]
          /\ UNCHANGED << bal, audit, snap, rows, deposited, credits >>
          /\ step = "credit" => rows[t].state # "done"
          /\ step = "readFrom" =>
               Known(t) /\ rows[t].owner = Unclaimed /\ u \in Users
    <3>1. ASSUME NEW kind, NEW u \in Accounts, NEW step \in {"credit", "readFrom"},
                 Start(p, kind, t, u, step)
          PROVE  /\ command' = [command EXCEPT ![p] =
                                  [step |-> step, kind |-> command'[p].kind,
                                   key |-> t, user |-> u, known |-> Known(t)]]
                 /\ UNCHANGED << bal, audit, snap, rows, deposited, credits >>
      BY <1>a, <3>1 DEF Start, ledgerVars, depositVars
    <3>2. Memo[t[1]] \in Accounts
      BY DepositsAssumption, KeyFacts
    <3> QED
      BY <1>a, <2>1, <3>1, <3>2 DEF BeginCredit, BeginClaim
  <2>6. /\ command'[p].step = step /\ command'[p].key = t /\ command'[p].user = u
        /\ \A q \in Commands \ {p} : command'[q] = command[q]
    BY <1>a, <2>5
  <2>7. \A d \in Key : /\ Phase(d)' = Phase(d)
                       /\ Resting(d)' = Resting(d)
                       /\ TimesCredited(d)' = TimesCredited(d)
    BY <2>5, SameCredits DEF Phase, Resting
  <2>8. CommandClean(p)'
    <3>1. CASE step = "credit"
      <4>1. Phase(t) = << "none", 0, 0 >>
        BY <2>4, <2>5, <3>1 DEF Resting, Phase
      <4> QED
        BY <2>4, <2>6, <2>7, <3>1, <4>1 DEF CommandClean
    <3>2. CASE step = "readFrom"
      <4>1. Phase(t) = << "done", 1, 1 >>
        BY <2>4, <2>5, <3>2 DEF Resting, Phase, Known
      <4>2. rows'[t].owner = Unclaimed /\ u \in Users
        BY <2>5, <3>2
      <4> QED
        BY <2>4, <2>6, <2>7, <3>2, <4>1, <4>2 DEF CommandClean, ClaimSteps
    <3> QED
      BY <3>1, <3>2
  <2>9. \A d \in Key : Holders(d)' = Holders(d)
    <3>1. /\ \A q \in Commands \ {p} : command[q].step = "idle"
                                         /\ command'[q].step = "idle"
          /\ command[p].step = "idle" /\ rows' = rows
          /\ command'[p].step \in {"credit", "readFrom"}
      BY <2>3, <2>5, <2>6
    <3> QED
      BY <2>6, <2>7, <3>1, HoldersAlone
  <2>10. \A a \in Accounts : (bal[a] = Cardinality(Units(a)))'
    BY <1>a, <1>b, <2>5, <2>9, Moves
  <2> QED
    BY <1>1, <2>2, <2>8, <2>10
<1>4. CASE Proceed(p)
  <2>0. PICK t \in Key, u \in Accounts :
          t = command[p].key /\ u = command[p].user
    BY <1>a DEF CommandType
  <2>1. /\ p \in ready /\ monitor' = monitor
    BY <1>4 DEF Proceed, CommandCredit, CommandRecord, CommandMark,
                ClaimReadFrom, ClaimReadTo, ClaimWriteFrom, ClaimWriteTo,
                ClaimRecord, ClaimAssign, CommandAt
  <2>2. ready = {p} /\ CommandClean(p)
    BY <2>1 DEF Clean
  <2>3. /\ monitor.step \in {"boot", "wait"}
        /\ \A q \in Commands \ {p} : command[q].step = "idle"
    BY <1>a, <2>2 DEF Schedule
  <2>4. /\ \A d \in Key \ {t} : Resting(d)
        /\ command[p].step = "credit" => Phase(t) = << "none", 0, 0 >>
        /\ command[p].step = "log" => Phase(t) = << "none", 1, 0 >>
        /\ command[p].step = "done" => Phase(t) = << "none", 1, 1 >>
        /\ command[p].step # "failed"
    BY <2>0, <2>2 DEF CommandClean, ClaimSteps
  <2>5. command[p].step \in ClaimSteps \cup {"assign"} =>
          /\ Phase(t) = << "done", 1, 1 >>
          /\ rows[t].owner = Unclaimed /\ u \in Users
          /\ command[p].step \in {"readTo", "writeFrom"} =>
               snap[p].from = bal[Unclaimed]
          /\ command[p].step \in {"writeFrom", "writeTo"} =>
               snap[p].to = bal[u]
    BY <2>0, <2>2 DEF CommandClean, ClaimSteps
  <2>6. ASSUME NEW step, CommandGoto(p, step)
        PROVE  /\ ready' = {p} /\ command'[p].step = step
               /\ command'[p].key = t /\ command'[p].user = u
               /\ \A q \in Commands \ {p} : command'[q].step = "idle"
    BY <1>a, <2>0, <2>2, <2>3, <2>6 DEF CommandGoto, Tick, CommandType
  <2>7. ASSUME CommandEnd(p)
        PROVE  /\ ready' = {} /\ command'[p].step = "idle"
               /\ \A q \in Commands \ {p} : command'[q].step = "idle"
    BY <1>a, <2>2, <2>3, <2>7 DEF CommandEnd, Suspend, IdleCommand
  <2>8. CASE CommandCredit(p)
    <3>1. /\ command[p].step = "credit" /\ CommandGoto(p, "log")
          /\ CreditDeposit(t, u, "command")
          /\ UNCHANGED << rows, deposited >>
      BY <2>0, <2>8 DEF CommandCredit, CommandAt
    <3>2. /\ TimesCredited(t)' = TimesCredited(t) + 1
          /\ \A d \in Key \ {t} : TimesCredited(d)' = TimesCredited(d)
          /\ bal' = [bal EXCEPT ![u] = @ + 1]
      BY <3>1, CreditCounts
    <3>3. /\ Phase(t) = << "none", 0, 0 >> /\ Phase(t)' = << "none", 1, 0 >>
          /\ \A d \in Key \ {t} : Resting(d)'
      BY <2>4, <3>1, <3>2 DEF Phase, Resting
    <3>4. CommandClean(p)'
      BY <2>6, <3>1, <3>3 DEF CommandClean
    <3>5. /\ \A d \in Key \ {t} : Holders(d)' = Holders(d)
          /\ Holders(t) = {} /\ Holders(t)' = {u}
      BY <2>0, <2>3, <2>6, <3>1, <3>2, <3>3, HoldersAlone DEF Phase
    <3> QED
      BY <1>1, <1>b, <2>6, <3>1, <3>2, <3>4, <3>5, Moves
  <2>9. CASE CommandRecord(p)
    <3>1. /\ command[p].step = "log" /\ CommandGoto(p, "done")
          /\ deposited' = [deposited EXCEPT ![t] = @ + 1]
          /\ UNCHANGED << bal, rows, credits >>
      BY <2>0, <2>9 DEF CommandRecord, CommandAt, RecordDeposit, RecordCredit
    <3>2. /\ Phase(t) = << "none", 1, 0 >> /\ Phase(t)' = << "none", 1, 1 >>
          /\ \A d \in Key \ {t} : Resting(d)'
      BY <1>a, <2>4, <3>1, SameCredits DEF Phase, Resting
    <3>3. CommandClean(p)'
      BY <2>6, <3>1, <3>2 DEF CommandClean
    <3>4. \A d \in Key : Holders(d)' = Holders(d)
      BY <2>0, <2>3, <2>6, <3>1, <3>2, SameCredits, HoldersAlone DEF Phase
    <3> QED
      BY <1>1, <1>b, <2>6, <3>1, <3>3, <3>4, Moves
  <2>10. CASE CommandMark(p)
    <3>1. /\ command[p].step = "done" /\ CommandEnd(p)
          /\ \E h : rows' = [rows EXCEPT ![t] = Row("done", u, h)]
          /\ UNCHANGED << bal, deposited, credits >>
      BY <2>0, <2>4, <2>10 DEF CommandMark, CommandAt, ledgerVars
    <3>2. /\ rows'[t].state = "done" /\ rows'[t].owner = u
          /\ \A d \in Key \ {t} : rows'[d] = rows[d]
      BY <1>a, <3>1 DEF Row
    <3>3. /\ Phase(t) = << "none", 1, 1 >> /\ \A d \in Key : Resting(d)'
      BY <2>4, <3>1, <3>2, SameCredits DEF Phase, Resting
    <3>4. \A d \in Key : Holders(d)' = Holders(d)
      BY <2>0, <2>3, <2>7, <3>1, <3>2, <3>3, SameCredits, HoldersAlone
         DEF Phase
    <3> QED
      BY <1>2, <1>b, <2>1, <2>3, <2>7, <3>1, <3>3, <3>4, Moves
  <2>11. CASE command[p].step \in ClaimSteps \cup {"assign"}
    <3>1. /\ Phase(t) = << "done", 1, 1 >> /\ TimesCredited(t) = 1
          /\ rows[t].owner = Unclaimed /\ u \in Users
      BY <2>5, <2>11 DEF Phase
    <3>2. \A d \in Key : Resting(d)
      BY <2>4, <3>1 DEF Resting
    <3>3. ASSUME UNCHANGED << rows, deposited, credits >>
          PROVE  /\ \A d \in Key : TimesCredited(d)' = TimesCredited(d)
                 /\ \A d \in Key : Resting(d)' /\ Phase(d)' = Phase(d)
                 /\ rows'[t].owner = Unclaimed
      BY <3>1, <3>2, <3>3, SameCredits DEF Resting, Phase
    <3>4. ASSUME NEW step \in ClaimSteps \cup {"assign"},
                 CommandGoto(p, step), UNCHANGED << rows, deposited, credits >>,
                 step \in {"readTo", "writeFrom"} =>
                   snap'[p].from = bal'[Unclaimed],
                 step \in {"writeFrom", "writeTo"} => snap'[p].to = bal'[u],
                 \A a \in Accounts : (bal[a] = Cardinality(Units(a)))'
          PROVE  Clean'
      <4>1. CommandClean(p)'
        BY <2>6, <3>1, <3>3, <3>4 DEF CommandClean
      <4> QED
        BY <1>1, <2>6, <3>4, <4>1
    <3>5. ASSUME NEW step, CommandGoto(p, step),
                 UNCHANGED << rows, deposited, credits >>
          PROVE  /\ \A d \in Key \ {t} : Holders(d)' = Holders(d)
                 /\ Holders(t) =
                      IF command[p].step = "writeTo" THEN {}
                      ELSE IF command[p].step \in {"log", "done", "record", "assign"}
                      THEN {u} ELSE {Unclaimed}
                 /\ Holders(t)' =
                      IF step = "writeTo" THEN {}
                      ELSE IF step \in {"log", "done", "record", "assign"}
                      THEN {u} ELSE {Unclaimed}
      <4>1. /\ \A d \in Key \ {t} : TimesCredited(d)' = TimesCredited(d)
                                          /\ rows'[d] = rows[d]
            /\ TimesCredited(t)' = 1 /\ rows'[t].owner = Unclaimed
        BY <3>1, <3>3, <3>5
      <4>2. /\ command'[p].step = step /\ command'[p].key = t
            /\ command'[p].user = u
            /\ \A q \in Commands \ {p} : command'[q].step = "idle"
        BY <2>6, <3>5
      <4>3. \A d \in Key \ {t} : Holders(d)' = Holders(d)
        BY <2>0, <2>3, <4>1, <4>2, HoldersAlone
      <4>4. Holders(t) =
              IF TimesCredited(t) = 0 \/ command[p].step = "writeTo" THEN {}
              ELSE IF command[p].step \in {"log", "done", "record", "assign"}
              THEN {command[p].user} ELSE {rows[t].owner}
        BY <2>0, <2>3, <4>1, <4>2, HoldersAlone
      <4>5. Holders(t)' =
              IF TimesCredited(t)' = 0 \/ command'[p].step = "writeTo" THEN {}
              ELSE IF command'[p].step \in {"log", "done", "record", "assign"}
              THEN {command'[p].user} ELSE {rows'[t].owner}
        BY <2>0, <2>3, <4>1, <4>2, HoldersAlone
      <4> QED
        BY <2>0, <3>1, <4>1, <4>2, <4>3, <4>4, <4>5
    <3>6. CASE ClaimReadFrom(p)
      <4>1. /\ command[p].step = "readFrom" /\ bal' = bal
            /\ UNCHANGED << rows, deposited, credits >>
        BY <3>6 DEF ClaimReadFrom, CommandAt, ReadFrom, Forget, depositVars
      <4>2. CASE CommandGoto(p, "readTo") /\ ReadFrom(p, Unclaimed)
        <5>1. \A d \in Key : Holders(d)' = Holders(d)
          BY <3>5, <4>1, <4>2
        <5>2. snap'[p].from = bal'[Unclaimed]
          BY <1>a, <4>1, <4>2 DEF ReadFrom
        <5>3. \A a \in Accounts : (bal[a] = Cardinality(Units(a)))'
          BY <1>b, <4>1, <5>1, Moves
        <5> QED
          BY <3>4, <4>1, <4>2, <5>2, <5>3 DEF ClaimSteps
      <4>3. CASE CommandEnd(p)
        <5>1. /\ \A d \in Key \ {t} : TimesCredited(d)' = TimesCredited(d)
                                            /\ rows'[d] = rows[d]
              /\ TimesCredited(t)' = 1 /\ rows'[t].owner = Unclaimed
          BY <3>1, <3>3, <4>1
        <5>2. \A d \in Key : Holders(d)' = Holders(d)
          BY <2>0, <2>3, <2>7, <3>1, <4>1, <4>3, <5>1, HoldersAlone
        <5>3. \A a \in Accounts : (bal[a] = Cardinality(Units(a)))'
          BY <1>b, <4>1, <5>2, Moves
        <5> QED
          BY <1>2, <2>1, <2>3, <2>7, <3>3, <4>1, <4>3, <5>3
      <4> QED
        BY <3>6, <4>2, <4>3 DEF ClaimReadFrom
    <3>7. CASE ClaimReadTo(p)
      <4>1. /\ command[p].step = "readTo" /\ bal' = bal
            /\ snap' = [snap EXCEPT ![p].to = bal[u]]
            /\ UNCHANGED << rows, deposited, credits >>
            /\ CommandGoto(p, "writeFrom")
        BY <2>0, <3>7 DEF ClaimReadTo, CommandAt, ReadTo, depositVars
      <4>2. \A d \in Key : Holders(d)' = Holders(d)
        BY <3>5, <4>1
      <4>3. snap'[p].from = bal'[Unclaimed] /\ snap'[p].to = bal'[u]
        BY <1>a, <2>5, <2>11, <4>1
      <4>4. \A a \in Accounts : (bal[a] = Cardinality(Units(a)))'
        BY <1>b, <4>1, <4>2, Moves
      <4> QED
        BY <3>4, <4>1, <4>3, <4>4 DEF ClaimSteps
    <3>8. CASE ClaimWriteFrom(p)
      <4>1. /\ command[p].step = "writeFrom" /\ snap' = snap
            /\ bal' = [bal EXCEPT ![Unclaimed] = snap[p].from - 1]
            /\ UNCHANGED << rows, deposited, credits >>
            /\ CommandGoto(p, "writeTo")
        BY <3>8 DEF ClaimWriteFrom, CommandAt, WriteFrom, Subtract, depositVars
      <4>2. /\ bal' = [bal EXCEPT ![Unclaimed] = @ - 1]
            /\ snap'[p].to = bal'[u]
        BY <1>a, <2>5, <2>11, <3>1, <4>1
      <4>3. /\ \A d \in Key \ {t} : Holders(d)' = Holders(d)
            /\ Holders(t) = {Unclaimed} /\ Holders(t)' = {}
        BY <3>5, <4>1
      <4>4. \A a \in Accounts : (bal[a] = Cardinality(Units(a)))'
        BY <1>a, <1>b, <4>2, <4>3, Moves
      <4> QED
        BY <3>4, <4>1, <4>2, <4>4 DEF ClaimSteps
    <3>9. CASE ClaimWriteTo(p)
      <4>1. /\ command[p].step = "writeTo"
            /\ bal' = [bal EXCEPT ![u] = snap[p].to + 1]
            /\ UNCHANGED << rows, deposited, credits >>
            /\ CommandGoto(p, "record")
        BY <2>0, <3>9 DEF ClaimWriteTo, CommandAt, WriteTo, Add, depositVars
      <4>2. bal' = [bal EXCEPT ![u] = @ + 1]
        BY <1>a, <2>5, <2>11, <4>1
      <4>3. /\ \A d \in Key \ {t} : Holders(d)' = Holders(d)
            /\ Holders(t) = {} /\ Holders(t)' = {u}
        BY <3>5, <4>1
      <4>4. \A a \in Accounts : (bal[a] = Cardinality(Units(a)))'
        BY <1>b, <4>2, <4>3, Moves
      <4> QED
        BY <3>4, <4>1, <4>4 DEF ClaimSteps
    <3>10. CASE ClaimRecord(p)
      <4>1. /\ command[p].step = "record" /\ bal' = bal
            /\ UNCHANGED << rows, deposited, credits >>
            /\ CommandGoto(p, "assign")
        BY <3>10 DEF ClaimRecord, CommandAt, RecordTransfer
      <4>2. \A d \in Key : Holders(d)' = Holders(d)
        BY <3>5, <4>1
      <4>3. \A a \in Accounts : (bal[a] = Cardinality(Units(a)))'
        BY <1>b, <4>1, <4>2, Moves
      <4> QED
        BY <3>4, <4>1, <4>3
    <3>11. CASE ClaimAssign(p)
      <4>1. /\ command[p].step = "assign" /\ bal' = bal
            /\ rows' = [rows EXCEPT ![t].owner = u]
            /\ UNCHANGED << deposited, credits >> /\ CommandEnd(p)
        BY <2>0, <3>11 DEF ClaimAssign, CommandAt, ledgerVars
      <4>2. /\ \A d \in Key \ {t} : rows'[d] = rows[d]
            /\ rows'[t].owner = u /\ rows'[t].state = rows[t].state
        BY <1>a, <4>1 DEF RowType
      <4>3. \A d \in Key : TimesCredited(d)' = TimesCredited(d)
        BY <4>1, SameCredits
      <4>4. \A d \in Key : Resting(d)'
        BY <3>2, <4>1, <4>2, <4>3 DEF Resting, Phase
      <4>5. \A d \in Key : Holders(d)' = Holders(d)
        BY <2>0, <2>3, <2>7, <3>1, <4>1, <4>2, <4>3, HoldersAlone
      <4>6. \A a \in Accounts : (bal[a] = Cardinality(Units(a)))'
        BY <1>b, <4>1, <4>5, Moves
      <4> QED
        BY <1>2, <2>1, <2>3, <2>7, <4>1, <4>4, <4>6
    <3> QED
      BY <1>4, <2>11, <3>6, <3>7, <3>8, <3>9, <3>10, <3>11
         DEF Proceed, CommandCredit, CommandRecord, CommandMark, CommandAt,
             ClaimSteps
  <2> QED
    BY <1>4, <2>8, <2>9, <2>10, <2>11
       DEF Proceed, ClaimReadFrom, ClaimReadTo, ClaimWriteFrom, ClaimWriteTo,
           ClaimRecord, ClaimAssign, CommandAt, ClaimSteps
<1> QED
  BY <1>3, <1>4

LEMMA CleanStep ==
  ASSUME ~Batching, TypeOK, Schedule, CleanInv, [Next]_vars
  PROVE  CleanInv'
<1>a. used \in [commands: Nat, crashes: Nat, errors: Nat]
  BY DEF TypeOK, UsedTypeOK
<1>1. SUFFICES ASSUME used'.crashes = 0, used'.errors = 0 PROVE Clean'
  BY DEF CleanInv
<1>2. CASE Mine \/ UNCHANGED vars
  <2>1. UNCHANGED << ready, bal, snap, rows, deposited, credits, monitor,
                     command, used >>
    BY <1>2 DEF Mine, vars, loopVars, ledgerVars, depositVars
  <2>2. Clean
    BY <1>1, <2>1 DEF CleanInv
  <2>3. Clean => Clean'
    BY <2>1
       DEF Clean, MonitorClean, CommandClean, Resting, Phase, TimesCredited,
           Units, Holders, Paying, tx, seen
  <2> QED
    BY <2>2, <2>3
<1>3. CASE Monitoring
  <2>1. used' = used
    BY <1>3 DEF Monitoring, Startup, Check, MonitorSkip, MonitorInsert,
                MonitorCredit, MonitorRecord, MonitorMark
  <2> QED
    BY <1>1, <1>3, <2>1, MonitorCleanStep DEF CleanInv
<1>4. ASSUME NEW p \in Commands, Begin(p) \/ Proceed(p)
      PROVE  Clean'
  <2>1. used'.crashes = used.crashes /\ used'.errors = used.errors
    BY <1>a, <1>4
       DEF Begin, BeginCredit, BeginClaim, Start, Proceed, CommandCredit,
           CommandRecord, CommandMark, ClaimReadFrom, ClaimReadTo,
           ClaimWriteFrom, ClaimWriteTo, ClaimRecord, ClaimAssign
  <2> QED
    BY <1>1, <1>4, <2>1, CommandCleanStep DEF CleanInv
<1>5. CASE MonitorError \/ Crash \/ \E p \in Commands : CommandError(p)
  <2>1. used'.crashes # 0 \/ used'.errors # 0
    BY <1>a, <1>5 DEF MonitorError, CommandError, Crash
  <2> QED
    BY <1>1, <2>1
<1> QED
  BY <1>2, <1>3, <1>4, <1>5 DEF Next

LEMMA CleanBetweenDrains ==
  ASSUME TypeOK, Schedule, CleanInv
  PROVE  Settled
<1>1. SUFFICES ASSUME Clean, ready = {}
               PROVE  /\ \A t \in Key :
                           /\ TimesCredited(t) = deposited[t]
                           /\ deposited[t] = IF rows[t].state = "done" THEN 1
                                             ELSE 0
                      /\ \A a \in Accounts :
                           bal[a] = Cardinality({t \in Key :
                                                   /\ rows[t].state = "done"
                                                   /\ rows[t].owner = a})
  BY DEF CleanInv, Settled
<1>2. /\ monitor.step \notin {"credit", "record", "done"}
      /\ \A p \in Commands : command[p].step = "idle"
  BY <1>1 DEF Schedule
<1>3. \A t \in Key : Resting(t) /\ Paying(t) = {}
  BY <1>1, <1>2 DEF Clean, MonitorClean, Paying
<1>4. \A t \in Key : /\ TimesCredited(t) = deposited[t]
                     /\ deposited[t] = IF rows[t].state = "done" THEN 1
                                       ELSE 0
                     /\ TimesCredited(t) = 0 <=> rows[t].state # "done"
  BY <1>3 DEF Resting, Phase
<1>5. ASSUME NEW a \in Accounts
      PROVE  Units(a) = {t \in Key : rows[t].state = "done" /\ rows[t].owner = a}
  BY <1>3, <1>4 DEF Units, Holders
<1> QED
  BY <1>1, <1>4, <1>5 DEF Clean

(* Without faults, and without two claims in one batch, the books balance   *)
(* between drains: every deposit is credited at most once, its row and its  *)
(* log entry say so, and every balance is the number of deposits whose rows *)
(* name the account.                                                        *)
THEOREM BooksBalanceBetweenDrains ==
  ASSUME ~Batching
  PROVE  Spec => []Settled
<1>1. DepositInv /\ CleanInv /\ [Next]_vars => CleanInv'
  BY CleanStep DEF DepositInv
<1>2. DepositInv /\ CleanInv => Settled
  BY CleanBetweenDrains DEF DepositInv
<1> QED
  BY <1>1, <1>2, CleanInit, DepositInvariant, PTL DEF Spec

=============================================================================
