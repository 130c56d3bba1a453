--------------------------- MODULE DisciplineProofs ---------------------------
(***************************************************************************)
(* Who may speak, for all users, requests, rules, times, fines and modes:  *)
(* the tables keep their type, no time left is negative or longer than a   *)
(* sentence, the counter of warnings is the number of violations where no  *)
(* kill has cut them, a fine is marked paid when the log has its payment   *)
(* and, where updates do not come in batches, the treasury its money.      *)
(*                                                                         *)
(* The first invariant adds what a handler knows while it waits: the       *)
(* restriction it will write, the rule that was broken, the list of the    *)
(* sweep.  The second one, for fines, has what the listed rows are worth,  *)
(* and the third by how much the treasury is ahead of the log.             *)
(***************************************************************************)
EXTENDS Discipline, SumProofs

ViolationRow ==
  [user: Users, kind: Kinds \cup {"warning"}, fine: Fines \cup {0}, fresh: 0 .. Window,
   paid: BOOLEAN, gone: BOOLEAN]

FineSteps == {"fineBalance", "settle", "fineRefused"} \cup TransferSteps

(* The local variables of a handler at each of its awaits.                  *)
Knows(r) ==
  /\ pc[r] \in {"mute", "jail", "telegram"} =>
       job[r] \in [kind: {"telegram"}, user: Users, until: TimesLeft]
  /\ pc[r] = "delete" => job[r] \in [kind: {"message"}, user: Users, rule: RuleRow]
  /\ pc[r] \in {"price", "penalty"} =>
       job[r] \in [kind: {"violation"}, user: Users, rule: RuleRow, fine: Fines]
  /\ pc[r] = "verify" => job[r].kind = "bail" /\ job[r].user \in Users
  /\ pc[r] \in {"lift", "sweep"} =>
       job[r] \in [kind: {"sweep"}, user: Users, left: SUBSET Users]
  /\ pc[r] \in FineSteps => job[r].kind = "fines" /\ job[r].from \in Users

(* Where the handlers are, and the tables they write.                       *)
Handlers ==
  /\ LoopTypeOK
  /\ pc \in [Requests -> DisciplineSteps]
  /\ DOMAIN job = Requests
  /\ \A r \in Requests : Knows(r)

UsersFit == users \in [Users -> UserType(TimesLeft)]

ViolationsFit ==
  /\ DOMAIN violations = ViolationIds
  /\ \A i \in ViolationIds :
       violations[i] # NoViolation => violations[i] \in ViolationRow

Tables ==
  /\ UsersFit
  /\ tg \in [Users -> TimesLeft]
  /\ rules \subseteq RuleRow
  /\ fine \in Fines
  /\ ViolationsFit

DisciplineInv == Handlers /\ Tables /\ WarningsMatchViolations

------------------------------------------------------------------------------
(* Times.                                                                   *)

LEMMA DurationsAreInt ==
  \A d \in {MuteTime, JailTime, AutoTime} \cup MinutesTyped : d \in Int
<1>1. MuteTime \in Nat /\ JailTime \in Nat /\ AutoTime \in Nat
  BY DisciplineAssumption
<1>2. \A d \in MinutesTyped : d \in Int
  BY DisciplineAssumption
<1> QED
  BY <1>1, <1>2

LEMMA SentencesAreTimes ==
  /\ {0, MuteTime, JailTime, AutoTime} \subseteq TimesLeft
  /\ \A d \in MinutesTyped : d >= 1 => d \in TimesLeft
  /\ TimesLeft \subseteq Nat
<1>1. MuteTime \in Nat /\ JailTime \in Nat /\ AutoTime \in Nat
  BY DisciplineAssumption
<1>2. ASSUME NEW d \in {MuteTime, JailTime, AutoTime} \cup MinutesTyped, d >= 0
      PROVE  0 \in TimesLeft /\ d \in TimesLeft
  <2>1. d \in Int
    BY DurationsAreInt
  <2>2. 0 \in 0 .. d /\ d \in 0 .. d
    BY <1>2, <2>1
  <2> QED
    BY <2>2 DEF TimesLeft
<1>3. TimesLeft \subseteq Nat
  BY DurationsAreInt DEF TimesLeft
<1>4. \A d \in {MuteTime, JailTime, AutoTime} : 0 \in TimesLeft /\ d \in TimesLeft
  BY <1>1, <1>2
<1>5. \A d \in MinutesTyped : d >= 1 => d \in TimesLeft
  BY <1>2, DurationsAreInt
<1> QED
  BY <1>3, <1>4, <1>5

(* Time passes.                                                             *)
LEMMA LessIsTime ==
  /\ \A left \in TimesLeft : Less(left) \in TimesLeft
  /\ \A left \in TimesLeft \cup {NoMute} : Less(left) \in TimesLeft \cup {NoMute}
  /\ \A left \in {Forever, 0, 1} : Less(left) \in {Forever, 0, 1}
  /\ \A fresh \in 0 .. Window : Less(fresh) \in 0 .. Window
<1>1. ASSUME NEW left \in TimesLeft PROVE Less(left) \in TimesLeft
  <2>1. PICK d \in {MuteTime, JailTime, AutoTime} \cup MinutesTyped : left \in 0 .. d
    BY DEF TimesLeft
  <2>2. d \in Int
    BY DurationsAreInt
  <2>3. Less(left) \in 0 .. d
    BY <2>1, <2>2 DEF Less
  <2> QED
    BY <2>3 DEF TimesLeft
<1>2. Less(NoMute) = NoMute
  BY DEF Less, NoMute
<1>3. \A left \in {Forever, 0, 1} : Less(left) \in {Forever, 0, 1}
  BY DEF Less, Forever
<1>4. \A fresh \in 0 .. Window : Less(fresh) \in 0 .. Window
  BY DisciplineAssumption DEF Less
<1> QED
  BY <1>1, <1>2, <1>3, <1>4

------------------------------------------------------------------------------
(* Updates of one row of the table users.                                   *)

SameWarnings == \A u \in Users : users'[u].warnings = users[u].warnings

LEMMA MutedUpdate ==
  ASSUME UsersFit, NEW t \in Users, NEW left \in {NoMute} \cup TimesLeft,
         SetField(t, "muted", left)
  PROVE  UsersFit' /\ SameWarnings
<1>1. users' = [users EXCEPT ![t] = [users[t] EXCEPT !.muted = left]]
  BY DEF SetField
<1>2. [users[t] EXCEPT !.muted = left] \in UserType(TimesLeft)
  BY DEF UsersFit, UserType
<1>3. [users[t] EXCEPT !.muted = left].warnings = users[t].warnings
  BY DEF UsersFit, UserType
<1> QED
  BY <1>1, <1>2, <1>3 DEF UsersFit, SameWarnings

LEMMA RoleUpdate ==
  ASSUME UsersFit, NEW t \in Users, NEW role \in RoleNames, SetField(t, "role", role)
  PROVE  UsersFit' /\ SameWarnings
<1>1. users' = [users EXCEPT ![t] = [users[t] EXCEPT !.role = role]]
  BY DEF SetField
<1>2. [users[t] EXCEPT !.role = role] \in UserType(TimesLeft)
  BY DEF UsersFit, UserType
<1>3. [users[t] EXCEPT !.role = role].warnings = users[t].warnings
  BY DEF UsersFit, UserType
<1> QED
  BY <1>1, <1>2, <1>3 DEF UsersFit, SameWarnings

LEMMA WhitelistUpdate ==
  ASSUME UsersFit, NEW t \in Users, NEW b \in BOOLEAN, SetField(t, "whitelist", b)
  PROVE  UsersFit' /\ SameWarnings
<1>1. users' = [users EXCEPT ![t] = [users[t] EXCEPT !.whitelist = b]]
  BY DEF SetField
<1>2. [users[t] EXCEPT !.whitelist = b] \in UserType(TimesLeft)
  BY DEF UsersFit, UserType
<1>3. [users[t] EXCEPT !.whitelist = b].warnings = users[t].warnings
  BY DEF UsersFit, UserType
<1> QED
  BY <1>1, <1>2, <1>3 DEF UsersFit, SameWarnings

LEMMA BlacklistUpdate ==
  ASSUME UsersFit, NEW t \in Users, NEW b \in BOOLEAN, SetField(t, "blacklist", b)
  PROVE  UsersFit' /\ SameWarnings
<1>1. users' = [users EXCEPT ![t] = [users[t] EXCEPT !.blacklist = b]]
  BY DEF SetField
<1>2. [users[t] EXCEPT !.blacklist = b] \in UserType(TimesLeft)
  BY DEF UsersFit, UserType
<1>3. [users[t] EXCEPT !.blacklist = b].warnings = users[t].warnings
  BY DEF UsersFit, UserType
<1> QED
  BY <1>1, <1>2, <1>3 DEF UsersFit, SameWarnings

LEMMA WarningsUpdate ==
  ASSUME UsersFit, NEW t \in Users, NEW n \in Nat, SetField(t, "warnings", n)
  PROVE  /\ UsersFit'
         /\ users'[t].warnings = n
         /\ \A u \in Users \ {t} : users'[u].warnings = users[u].warnings
<1>1. users' = [users EXCEPT ![t] = [users[t] EXCEPT !.warnings = n]]
  BY DEF SetField
<1>2. [users[t] EXCEPT !.warnings = n] \in UserType(TimesLeft)
  BY DEF UsersFit, UserType
<1>3. [users[t] EXCEPT !.warnings = n].warnings = n
  BY DEF UsersFit, UserType
<1> QED
  BY <1>1, <1>2, <1>3 DEF UsersFit

------------------------------------------------------------------------------
(* The rows of violations.                                                  *)

RowsOf(u) == {i \in ViolationRows : violations[i].user = u}

LEMMA ViolationIsThere == \A row \in ViolationRow : row # NoViolation
BY DEF ViolationRow, NoViolation

LEMMA IdsAreFinite == IsFiniteSet(ViolationIds)
<1>1. MaxViolations \in Nat
  BY DisciplineAssumption
<1> QED
  BY <1>1, FS_Interval DEF ViolationIds

LEMMA RowsAreFinite == \A u : IsFiniteSet(RowsOf(u)) /\ Cardinality(RowsOf(u)) \in Nat
<1>2. \A u : RowsOf(u) \subseteq ViolationIds
  BY DEF RowsOf, ViolationRows
<1> QED
  BY <1>2, IdsAreFinite, FS_Subset, FS_CardinalityType

(* The counter of u follows its rows.                                       *)
Counted(u) == users[u].warnings = Cardinality(RowsOf(u))

LEMMA MatchIsCounted ==
  WarningsMatchViolations <=> \A u \in Users \ (ConfigOwners \cup torn) : Counted(u)
BY DEF WarningsMatchViolations, Counted, RowsOf

(* A counter that followed its rows still does.                             *)
CountsStay == \A u \in Users \ ConfigOwners : Counted(u) => Counted(u)'

LEMMA MatchStays ==
  ASSUME WarningsMatchViolations, CountsStay, torn' = torn
  PROVE  WarningsMatchViolations'
<1>1. \A u \in Users \ (ConfigOwners \cup torn) : Counted(u)'
  BY MatchIsCounted DEF CountsStay
<1> QED
  BY <1>1 DEF WarningsMatchViolations, Counted, RowsOf

(* A step that leaves every row with its user, and the counters.            *)
LEMMA CountsKept ==
  ASSUME \A u \in Users \ ConfigOwners :
           RowsOf(u)' = RowsOf(u) /\ users'[u].warnings = users[u].warnings
  PROVE  CountsStay
BY DEF CountsStay, Counted

LEMMA SameRows == UNCHANGED violations => \A u : RowsOf(u)' = RowsOf(u)
BY DEF RowsOf, ViolationRows

(* An INSERT.                                                               *)
LEMMA RowInserted ==
  ASSUME ViolationsFit, NEW t \in Users, NEW kind \in Kinds \cup {"warning"},
         NEW amount \in Fines \cup {0}, NEW i \in ViolationIds,
         InsertViolation(i, t, kind, amount)
  PROVE  /\ ViolationsFit'
         /\ Cardinality(RowsOf(t)') = Cardinality(RowsOf(t)) + 1
         /\ \A u \in Users \ {t} : RowsOf(u)' = RowsOf(u)
<1> DEFINE row == Violation(t, kind, amount)
<1>1. row \in ViolationRow /\ row.user = t /\ row.gone = FALSE
  BY DisciplineAssumption DEF Violation, ViolationRow
<1>2. violations' = [violations EXCEPT ![i] = row] /\ violations[i] = NoViolation
  BY DEF InsertViolation
<1>3. row # NoViolation
  BY <1>1, ViolationIsThere
<1> HIDE DEF row
<1>4. ViolationsFit'
  BY <1>1, <1>2 DEF ViolationsFit, ViolationIds
<1>5. \A k \in ViolationIds : violations'[k] = IF k = i THEN row ELSE violations[k]
  BY <1>2 DEF ViolationsFit
<1>6. ViolationRows' = ViolationRows \cup {i} /\ i \notin ViolationRows
  BY <1>1, <1>2, <1>3, <1>5 DEF ViolationRows, ViolationIds
<1>7. RowsOf(t)' = RowsOf(t) \cup {i} /\ i \notin RowsOf(t)
  BY <1>1, <1>5, <1>6 DEF RowsOf, ViolationRows
<1>8. \A u \in Users \ {t} : RowsOf(u)' = RowsOf(u)
  BY <1>1, <1>5, <1>6 DEF RowsOf, ViolationRows
<1>9. Cardinality(RowsOf(t)') = Cardinality(RowsOf(t)) + 1
  BY <1>7, RowsAreFinite, FS_AddElement
<1> QED
  BY <1>4, <1>8, <1>9

(* An INSERT, and the UPDATE of the counter.                                *)
LEMMA InsertCounts ==
  ASSUME ViolationsFit, NEW t \in Users, NEW kind \in Kinds \cup {"warning"},
         NEW amount \in Fines \cup {0}, NEW i \in ViolationIds,
         InsertViolation(i, t, kind, amount),
         users'[t].warnings = users[t].warnings + 1,
         \A u \in Users \ {t} : users'[u].warnings = users[u].warnings
  PROVE  ViolationsFit' /\ CountsStay
BY RowInserted DEF CountsStay, Counted

(* The DELETE of /clearviolations.                                          *)
GoneRow(i) == [violations[i] EXCEPT !.gone = TRUE, !.fresh = 0]

Deleted(t) ==
  /\ DOMAIN violations' = ViolationIds
  /\ \A i \in ViolationIds :
       violations'[i] = IF i \in ViolationRows /\ violations[i].user = t
                        THEN GoneRow(i) ELSE violations[i]

LEMMA ClearDeletes ==
  ASSUME NEW t, ClearRows(t)
  PROVE  Deleted(t)
BY Zenon DEF ClearRows, Deleted, GoneRow

LEMMA RowsDeleted ==
  ASSUME ViolationsFit, NEW t, Deleted(t)
  PROVE  /\ ViolationsFit'
         /\ RowsOf(t)' = {}
         /\ \A u \in Users \ {t} : RowsOf(u)' = RowsOf(u)
<1>2. ASSUME NEW i \in ViolationRows
      PROVE  GoneRow(i) \in ViolationRow /\ GoneRow(i).gone
  <2>1. violations[i] \in ViolationRow
    BY DEF ViolationsFit, ViolationRows
  <2>2. 0 \in 0 .. Window
    BY DisciplineAssumption
  <2> QED
    BY <2>1, <2>2 DEF ViolationRow, GoneRow
<1>3. \A i \in ViolationIds :
        violations'[i] = IF i \in ViolationRows /\ violations[i].user = t
                         THEN GoneRow(i) ELSE violations[i]
  BY DEF Deleted
<1>4. ViolationsFit'
  <2>1. DOMAIN violations' = ViolationIds
    BY DEF Deleted
  <2>2. \A i \in ViolationIds :
          violations'[i] # NoViolation => violations'[i] \in ViolationRow
    BY <1>2, <1>3 DEF ViolationsFit
  <2> QED
    BY <2>1, <2>2 DEF ViolationsFit, ViolationIds
<1>5. ViolationRows' = ViolationRows \ RowsOf(t)
  BY <1>2, <1>3, ViolationIsThere DEF ViolationRows, RowsOf, ViolationIds
<1>6. \A u \in Users \ {t} : RowsOf(u)' = RowsOf(u)
  BY <1>3, <1>5 DEF RowsOf, ViolationRows
<1>7. RowsOf(t)' = {}
  BY <1>3, <1>5 DEF RowsOf, ViolationRows
<1> QED
  BY <1>4, <1>6, <1>7

LEMMA ClearCounts ==
  ASSUME ViolationsFit, UsersFit, NEW t \in Users, Clear(t)
  PROVE  ViolationsFit' /\ UsersFit' /\ CountsStay
<1>1. /\ UsersFit'
      /\ users'[t].warnings = 0
      /\ \A u \in Users \ {t} : users'[u].warnings = users[u].warnings
  BY WarningsUpdate DEF Clear
<1>2. /\ ViolationsFit'
      /\ RowsOf(t)' = {}
      /\ \A u \in Users \ {t} : RowsOf(u)' = RowsOf(u)
  BY RowsDeleted, ClearDeletes DEF Clear
<1> QED
  BY <1>1, <1>2, FS_EmptySet DEF CountsStay, Counted

(* The UPDATEs of /payallfines: the rows stay with their users.             *)
LEMMA RowsMarked ==
  ASSUME ViolationsFit, NEW rows, MarkPaid(rows)
  PROVE  ViolationsFit' /\ \A u : RowsOf(u)' = RowsOf(u)
<1>2. \A i \in ViolationIds :
        violations'[i] = IF i \in rows \cap ViolationRows
                         THEN [violations[i] EXCEPT !.paid = TRUE] ELSE violations[i]
  BY DEF MarkPaid
<1>3. ASSUME NEW i \in ViolationRows
      PROVE  LET row == [violations[i] EXCEPT !.paid = TRUE]
             IN  /\ row \in ViolationRow /\ row.user = violations[i].user
                 /\ row.gone = violations[i].gone
  <2>1. violations[i] \in ViolationRow
    BY DEF ViolationsFit, ViolationRows
  <2> QED
    BY <2>1 DEF ViolationRow
<1>4. ViolationsFit'
  <2>1. DOMAIN violations' = ViolationIds
    BY DEF MarkPaid
  <2>2. \A i \in ViolationIds :
          violations'[i] # NoViolation => violations'[i] \in ViolationRow
    BY <1>2, <1>3 DEF ViolationsFit
  <2> QED
    BY <2>1, <2>2 DEF ViolationsFit, ViolationIds
<1>5. ViolationRows' = ViolationRows
  BY <1>2, <1>3, ViolationIsThere DEF ViolationRows, ViolationIds
<1>6. \A v : RowsOf(v)' = RowsOf(v)
  <2>1. \A i \in ViolationRows : violations'[i].user = violations[i].user
    BY <1>2, <1>3 DEF ViolationRows
  <2> QED
    BY <1>5, <2>1 DEF RowsOf
<1> QED
  BY <1>4, <1>6

------------------------------------------------------------------------------
(* What the handlers know.                                                  *)

(* A step moves r and no other request.                                     *)
Moved(r) ==
  /\ pc' \in [Requests -> DisciplineSteps]
  /\ DOMAIN job' = Requests
  /\ \A q \in Requests \ {r} : pc'[q] = pc[q] /\ job'[q] = job[q]

LEMMA MovedKeeps ==
  ASSUME Handlers, LoopTypeOK', NEW r \in Requests, Moved(r), Knows(r)'
  PROVE  Handlers'
<1>1. ASSUME NEW q \in Requests \ {r} PROVE Knows(q)'
  BY <1>1 DEF Handlers, Moved, Knows
<1> QED
  BY <1>1 DEF Handlers, Moved

LEMMA LoopKept ==
  ASSUME Handlers, NEW r \in Requests,
         Pass \/ Wake(r) \/ Drain \/ Arrive(r) \/ Tick(r) \/ Suspend(r)
  PROVE  LoopTypeOK'
BY DEF Handlers, LoopTypeOK, Pass, Wake, Drain, Arrive, Tick, Suspend

LEMMA NobodyMoved ==
  ASSUME Handlers, LoopTypeOK', UNCHANGED << pc, job >>
  PROVE  Handlers'
BY DEF Handlers, Knows

LEMMA StartMoved ==
  ASSUME Handlers, NEW r \in Requests, NEW step \in DisciplineSteps, NEW record,
         Start(r, step, record)
  PROVE  Moved(r) /\ pc[r] = "idle" /\ pc'[r] = step /\ job'[r] = record
BY DEF Handlers, Start, Moved

LEMMA ContinueMoved ==
  ASSUME Handlers, NEW r \in Requests, NEW step \in DisciplineSteps,
         Continue(r, step), UNCHANGED job
  PROVE  Moved(r) /\ pc'[r] = step /\ job'[r] = job[r]
BY DEF Handlers, Continue, Moved

LEMMA GoesOnMoved ==
  ASSUME Handlers, NEW r \in Requests, NEW step \in DisciplineSteps, NEW record,
         Continue(r, step), job' = [job EXCEPT ![r] = record]
  PROVE  Moved(r) /\ pc'[r] = step /\ job'[r] = record
BY DEF Handlers, Continue, Moved

LEMMA FinishMoved ==
  ASSUME Handlers, NEW r \in Requests, Finish(r)
  PROVE  Moved(r) /\ Knows(r)'
<1>1. Moved(r) /\ pc'[r] = "idle"
  BY DEF Handlers, Finish, Moved, DisciplineSteps
<1> QED
  BY <1>1 DEF Knows, FineSteps, TransferSteps

LEMMA TransferMoved ==
  ASSUME Handlers, NEW r \in Requests, NEW done \in FineSteps, NEW refused \in FineSteps,
         TransferStep(r, done, refused)
  PROVE  Moved(r) /\ Knows(r)'
<1>1. pc[r] \in TransferSteps /\ UNCHANGED job
  BY DEF TransferStep, TransferSteps
<1>2. \E step \in FineSteps : Continue(r, step)
  BY DEF TransferStep, FineSteps, TransferSteps
<1>3. PICK step \in FineSteps : Continue(r, step)
  BY <1>2
<1>4. step \in DisciplineSteps
  BY DEF FineSteps, DisciplineSteps
<1>5. Moved(r) /\ pc'[r] = step /\ job'[r] = job[r]
  BY <1>1, <1>3, <1>4, ContinueMoved
<1>6. job[r].kind = "fines" /\ job[r].from \in Users
  BY <1>1 DEF Handlers, Knows, FineSteps
<1> QED
  BY <1>5, <1>6 DEF Knows, FineSteps, TransferSteps

(* A handler that is about to tell Telegram of a restriction.               *)
LEMMA RestrictionKnows ==
  ASSUME NEW r \in Requests, NEW u \in Users, NEW left \in TimesLeft,
         pc'[r] \in {"mute", "jail", "telegram"}, job'[r] = Restriction(u, left)
  PROVE  Knows(r)'
BY DEF Knows, Restriction, FineSteps, TransferSteps

------------------------------------------------------------------------------
(* What the steps do to the tables.                                         *)

Kept == Tables' /\ CountsStay

LEMMA NothingWritten ==
  ASSUME Tables, UNCHANGED << users, tg, rules, violations, fine >>
  PROVE  Kept
BY SameRows, CountsKept DEF Tables, UsersFit, ViolationsFit, Kept

LEMMA OnlyMuted ==
  ASSUME Tables, UsersFit', SameWarnings, tg' \in [Users -> TimesLeft],
         UNCHANGED << rules, violations, fine >>
  PROVE  Kept
<1>1. CountsStay
  BY SameRows, CountsKept DEF SameWarnings
<1> QED
  BY <1>1 DEF Tables, ViolationsFit, Kept

LEMMA RulesWritten ==
  ASSUME Tables, rules' \subseteq RuleRow, UNCHANGED << users, tg, violations, fine >>
  PROVE  Kept
<1>1. CountsStay
  BY SameRows, CountsKept
<1> QED
  BY <1>1 DEF Tables, UsersFit, ViolationsFit, Kept

(* What a step of the running program preserves, from its two halves.       *)
Preserved == Handlers' /\ Kept

LEMMA Halves ==
  ASSUME DisciplineInv, NEW r \in Requests, Moved(r), Knows(r)', Kept,
         Pass \/ Wake(r) \/ Drain \/ Arrive(r) \/ Tick(r) \/ Suspend(r)
  PROVE  Preserved
BY LoopKept, MovedKeeps DEF DisciplineInv, Preserved

------------------------------------------------------------------------------
(* The message filter.                                                      *)

LEMMA MessageKeeps ==
  ASSUME DisciplineInv, NEW r \in Requests, NEW u \in Users, Message(r, u)
  PROVE  Preserved
<1>1. PICK kind \in Kinds : \E rule \in firstViolated(u, kind) :
        Start(r, "delete", [kind |-> "message", user |-> u, rule |-> rule])
  BY DEF Message
<1>6. PICK rule \in firstViolated(u, kind) :
        Start(r, "delete", [kind |-> "message", user |-> u, rule |-> rule])
  BY <1>1
<1>2. rule \in RuleRow
  BY DEF firstViolated, DisciplineInv, Tables
<1>3. /\ Moved(r) /\ pc'[r] = "delete"
      /\ job'[r] = [kind |-> "message", user |-> u, rule |-> rule]
  BY <1>6, StartMoved DEF DisciplineInv, DisciplineSteps
<1>4. Knows(r)'
  BY <1>2, <1>3 DEF Knows, FineSteps, TransferSteps
<1>5. Kept
  BY NothingWritten DEF Message, disciplineVars, DisciplineInv
<1> QED
  BY <1>3, <1>4, <1>5, Halves DEF Message

LEMMA MessageDeletedKeeps ==
  ASSUME DisciplineInv, NEW r \in Requests, MessageDeleted(r)
  PROVE  Preserved
<1>1. Kept
  BY NothingWritten DEF MessageDeleted, disciplineVars, DisciplineInv
<1>2. CASE Finish(r)
  BY <1>1, <1>2, FinishMoved, Halves DEF MessageDeleted, DisciplineInv
<1>3. CASE ~Finish(r)
  <2>1. job[r] \in [kind: {"message"}, user: Users, rule: RuleRow]
    BY DEF MessageDeleted, DisciplineInv, Handlers, Knows
  <2> DEFINE record == [kind |-> "violation", user |-> job[r].user,
                        rule |-> job[r].rule, fine |-> fine]
  <2>2. record \in [kind: {"violation"}, user: Users, rule: RuleRow, fine: Fines]
    BY <2>1 DEF DisciplineInv, Tables
  <2>3. Continue(r, "price") /\ job' = [job EXCEPT ![r] = record]
    BY <1>3 DEF MessageDeleted
  <2> HIDE DEF record
  <2>4. Moved(r) /\ pc'[r] = "price" /\ job'[r] = record
    BY <2>3, GoesOnMoved DEF DisciplineInv, DisciplineSteps
  <2>5. Knows(r)'
    BY <2>2, <2>4 DEF Knows, FineSteps, TransferSteps
  <2> QED
    BY <1>1, <2>4, <2>5, Halves DEF MessageDeleted
<1> QED
  BY <1>2, <1>3

LEMMA SentenceIsTime ==
  \A u, rule : sentence(u, rule) \in {NoMute} \cup TimesLeft
BY SentencesAreTimes DEF sentence

LEMMA MutedKeeps ==
  ASSUME DisciplineInv, NEW t \in Users, NEW left \in {NoMute} \cup TimesLeft,
         SetMuted(t, left), UNCHANGED << tg, rules, violations, fine >>
  PROVE  Kept
<1>1. UsersFit' /\ SameWarnings
  BY MutedUpdate DEF SetMuted, DisciplineInv, Tables
<1> QED
  BY <1>1, OnlyMuted DEF DisciplineInv, Tables

LEMMA InsertRowKeeps ==
  ASSUME DisciplineInv, NEW r \in Requests, pc[r] = "price", InsertRow(r)
  PROVE  \E u \in Users, kind \in Kinds, amount \in Fines, i \in ViolationIds :
           /\ u = job[r].user
           /\ InsertViolation(i, u, kind, amount)
<1>1. job[r] \in [kind: {"violation"}, user: Users, rule: RuleRow, fine: Fines]
  BY DEF DisciplineInv, Handlers, Knows
<1>2. PICK i \in ViolationIds :
        InsertViolation(i, job[r].user, job[r].rule.kind, job[r].fine)
  BY DEF InsertRow
<1>3. job[r].user \in Users /\ job[r].rule.kind \in Kinds /\ job[r].fine \in Fines
  BY <1>1 DEF RuleRow
<1> QED
  BY <1>2, <1>3

LEMMA CreateViolationKeeps ==
  ASSUME DisciplineInv, NEW r \in Requests, CreateViolation(r)
  PROVE  Preserved
<1>1. job[r] \in [kind: {"violation"}, user: Users, rule: RuleRow, fine: Fines]
  BY DEF CreateViolation, DisciplineInv, Handlers, Knows
<1>2. PICK u \in Users, kind \in Kinds, amount \in Fines, i \in ViolationIds :
        u = job[r].user /\ InsertViolation(i, u, kind, amount)
  BY InsertRowKeeps DEF CreateViolation
<1>3. /\ UsersFit'
      /\ users'[u].warnings = users[u].warnings + 1
      /\ \A v \in Users \ {u} : users'[v].warnings = users[v].warnings
  <2>1. users[u].warnings + 1 \in Nat
    BY DEF DisciplineInv, Tables, UsersFit, UserType
  <2>2. SetField(u, "warnings", users[u].warnings + 1)
    BY <1>2 DEF CreateViolation
  <2> QED
    BY <2>1, <2>2, WarningsUpdate DEF DisciplineInv, Tables
<1>4. ViolationsFit' /\ CountsStay
  BY <1>2, <1>3, InsertCounts DEF DisciplineInv, Tables
<1>5. Kept
  BY <1>3, <1>4 DEF CreateViolation, DisciplineInv, Tables, Kept
<1>6. Moved(r) /\ pc'[r] = "penalty" /\ job'[r] = job[r]
  BY ContinueMoved DEF CreateViolation, DisciplineInv, DisciplineSteps
<1>7. Knows(r)'
  BY <1>1, <1>6 DEF Knows, FineSteps, TransferSteps
<1> QED
  BY <1>5, <1>6, <1>7, Halves DEF CreateViolation

LEMMA HandleViolationKeeps ==
  ASSUME DisciplineInv, NEW r \in Requests, HandleViolation(r)
  PROVE  Preserved
<1>1. job[r] \in [kind: {"violation"}, user: Users, rule: RuleRow, fine: Fines]
  BY DEF HandleViolation, DisciplineInv, Handlers, Knows
<1>2. PICK u \in Users : u = job[r].user
  BY <1>1
<1>3. PICK rule \in RuleRow : rule = job[r].rule
  BY <1>1
<1>4. PICK left \in {NoMute} \cup TimesLeft : left = sentence(u, rule)
  BY SentenceIsTime
<1>5. CASE left # NoMute
  <2>1. /\ SetMuted(u, left) /\ Continue(r, "telegram")
        /\ job' = [job EXCEPT ![r] = Restriction(u, left)]
    BY <1>2, <1>3, <1>4, <1>5 DEF HandleViolation
  <2>2. Moved(r) /\ pc'[r] = "telegram" /\ job'[r] = Restriction(u, left)
    BY <2>1, GoesOnMoved DEF DisciplineInv, DisciplineSteps
  <2>3. Kept
    BY <2>1, MutedKeeps DEF HandleViolation
  <2> QED
    BY <1>5, <2>2, <2>3, RestrictionKnows, Halves DEF HandleViolation
<1>6. CASE left = NoMute
  <2>1. UNCHANGED users
    BY <1>2, <1>3, <1>4, <1>6 DEF HandleViolation
  <2>2. Kept
    BY <2>1, NothingWritten DEF HandleViolation, DisciplineInv
  <2>3. CASE rule.severity = "mute"
    <3>1. Continue(r, "mute") /\ job' = [job EXCEPT ![r] = Restriction(u, MuteTime)]
      BY <1>2, <1>3, <1>4, <1>6, <2>3 DEF HandleViolation
    <3>2. Moved(r) /\ pc'[r] = "mute" /\ job'[r] = Restriction(u, MuteTime)
      BY <3>1, GoesOnMoved DEF DisciplineInv, DisciplineSteps
    <3>3. Knows(r)'
      BY <3>2, RestrictionKnows, SentencesAreTimes
    <3> QED
      BY <2>2, <3>2, <3>3, Halves DEF HandleViolation
  <2>4. CASE rule.severity # "mute"
    <3>1. Finish(r)
      BY <1>2, <1>3, <1>4, <1>6, <2>4 DEF HandleViolation
    <3> QED
      BY <2>2, <3>1, FinishMoved, Halves DEF HandleViolation, DisciplineInv
  <2> QED
    BY <2>3, <2>4
<1> QED
  BY <1>5, <1>6

LEMMA MuteAnsweredKeeps ==
  ASSUME DisciplineInv, NEW r \in Requests, MuteAnswered(r)
  PROVE  Preserved
<1>1. job[r].user \in Users /\ job[r].until \in TimesLeft
  BY DEF MuteAnswered, DisciplineInv, Handlers, Knows
<1>2. Kept
  <2>1. CASE SetMuted(job[r].user, job[r].until) /\ tg' = [tg EXCEPT ![job[r].user] = job[r].until]
    <3>1. UsersFit' /\ SameWarnings
      BY <1>1, <2>1, MutedUpdate DEF SetMuted, DisciplineInv, Tables
    <3>2. tg' \in [Users -> TimesLeft]
      BY <1>1, <2>1 DEF DisciplineInv, Tables
    <3> QED
      BY <3>1, <3>2, OnlyMuted DEF MuteAnswered, DisciplineInv
  <2>2. CASE UNCHANGED << tg, users, quotes >>
    BY <2>2, NothingWritten DEF MuteAnswered, DisciplineInv
  <2> QED
    BY <2>1, <2>2 DEF MuteAnswered
<1> QED
  BY <1>2, FinishMoved, Halves DEF MuteAnswered, DisciplineInv

LEMMA TelegramAnswersKeeps ==
  ASSUME DisciplineInv, NEW r \in Requests, TelegramAnswers(r)
  PROVE  Preserved
<1>1. job[r].user \in Users /\ job[r].until \in TimesLeft
  BY DEF TelegramAnswers, DisciplineInv, Handlers, Knows
<1>2. tg' \in [Users -> TimesLeft]
  BY <1>1 DEF TelegramAnswers, DisciplineInv, Tables
<1>3. UsersFit' /\ SameWarnings
  BY DEF TelegramAnswers, DisciplineInv, Tables, UsersFit, SameWarnings
<1>4. Kept
  BY <1>2, <1>3, OnlyMuted DEF TelegramAnswers, DisciplineInv
<1> QED
  BY <1>4, FinishMoved, Halves DEF TelegramAnswers, DisciplineInv

------------------------------------------------------------------------------
(* The commands of admins.                                                  *)

LEMMA DurationIsTime == \A d \in validDurations : d \in TimesLeft
BY SentencesAreTimes DEF validDurations

LEMMA WriteMutedKeeps ==
  ASSUME DisciplineInv, NEW r \in Requests, NEW t \in Users,
         NEW left \in {NoMute} \cup TimesLeft, NEW until \in TimesLeft,
         WriteMuted(r, t, left, Restriction(t, until))
  PROVE  Preserved
<1>1. Kept
  BY MutedKeeps DEF WriteMuted
<1>2. CASE Start(r, "telegram", Restriction(t, until))
  <2>1. Moved(r) /\ pc'[r] = "telegram" /\ job'[r] = Restriction(t, until)
    BY <1>2, StartMoved DEF DisciplineInv, DisciplineSteps
  <2> QED
    BY <1>1, <2>1, RestrictionKnows, Halves DEF WriteMuted
<1>3. CASE UNCHANGED << pc, job >>
  BY <1>1, <1>3, LoopKept, NobodyMoved DEF WriteMuted, DisciplineInv, Kept, Preserved
<1> QED
  BY <1>2, <1>3 DEF WriteMuted

LEMMA SentenceKeeps ==
  ASSUME DisciplineInv, NEW r \in Requests, NEW a \in Users, NEW t \in Users,
         Sentence(r, a, t)
  PROVE  Preserved
<1>1. CASE JailCommand(r, a, t)
  <2>1. PICK d \in validDurations : Start(r, "jail", Restriction(t, d))
    BY <1>1 DEF JailCommand
  <2>2. d \in TimesLeft
    BY DurationIsTime
  <2>3. Moved(r) /\ pc'[r] = "jail" /\ job'[r] = Restriction(t, d)
    BY <2>1, StartMoved DEF DisciplineInv, DisciplineSteps
  <2>4. Kept
    BY <1>1, NothingWritten DEF JailCommand, disciplineVars, DisciplineInv
  <2> QED
    BY <1>1, <2>2, <2>3, <2>4, RestrictionKnows, Halves DEF JailCommand
<1>2. CASE CustomJail(r, a, t)
  <2>1. PICK d \in validDurations : WriteMuted(r, t, d, Restriction(t, d))
    BY <1>2 DEF CustomJail
  <2>2. d \in TimesLeft
    BY DurationIsTime
  <2> QED
    BY <2>1, <2>2, WriteMutedKeeps
<1>3. CASE Unjail(r, a, t)
  <2>1. WriteMuted(r, t, NoMute, Restriction(t, 0))
    BY <1>3 DEF Unjail
  <2> QED
    BY <2>1, WriteMutedKeeps, SentencesAreTimes
<1> QED
  BY <1>1, <1>2, <1>3 DEF Sentence

LEMMA ApplyJailKeeps ==
  ASSUME DisciplineInv, NEW r \in Requests, ApplyJail(r)
  PROVE  Preserved
<1>1. job[r] \in [kind: {"telegram"}, user: Users, until: TimesLeft]
  BY DEF ApplyJail, DisciplineInv, Handlers, Knows
<1>2. Kept
  BY <1>1, MutedKeeps DEF ApplyJail
<1>3. CASE Finish(r)
  BY <1>2, <1>3, FinishMoved, Halves DEF ApplyJail, DisciplineInv
<1>4. CASE Continue(r, "telegram") /\ UNCHANGED job
  <2>1. Moved(r) /\ pc'[r] = "telegram" /\ job'[r] = job[r]
    BY <1>4, ContinueMoved DEF DisciplineInv, DisciplineSteps
  <2>2. Knows(r)'
    BY <1>1, <2>1 DEF Knows, FineSteps, TransferSteps
  <2> QED
    BY <1>2, <2>1, <2>2, Halves DEF ApplyJail
<1> QED
  BY <1>3, <1>4 DEF ApplyJail

LEMMA WarnKeeps ==
  ASSUME DisciplineInv, NEW a \in Users, NEW t \in Users, Warn(a, t), UNCHANGED tg
  PROVE  Kept
<1>1. users[t].warnings + 1 \in Nat
  BY DEF DisciplineInv, Tables, UsersFit, UserType
<1>2. /\ UsersFit'
      /\ users'[t].warnings = users[t].warnings + 1
      /\ \A u \in Users \ {t} : users'[u].warnings = users[u].warnings
  BY <1>1, WarningsUpdate DEF Warn, DisciplineInv, Tables
<1>3. PICK i \in ViolationIds : InsertViolation(i, t, "warning", 0)
  BY DEF Warn, InsertWarning
<1>4. ViolationsFit' /\ CountsStay
  BY <1>2, <1>3, InsertCounts DEF DisciplineInv, Tables
<1> QED
  BY <1>2, <1>4 DEF Warn, DisciplineInv, Tables, Kept

LEMMA FinesKeep ==
  ASSUME DisciplineInv, NEW a \in Users, NEW t \in Users,
         ClearViolations(a, t) \/ SetFine(a), UNCHANGED tg
  PROVE  Kept
<1>1. CASE ClearViolations(a, t)
  BY <1>1, ClearCounts DEF ClearViolations, DisciplineInv, Tables, Kept
<1>2. CASE SetFine(a)
  <2>1. CountsStay
    BY <1>2, SameRows, CountsKept DEF SetFine, DisciplineInv
  <2> QED
    BY <1>2, <2>1 DEF SetFine, DisciplineInv, Tables, UsersFit, ViolationsFit, Kept
<1> QED
  BY <1>1, <1>2

LEMMA RulesKeep ==
  ASSUME DisciplineInv, NEW a \in Users, NEW t \in Users, UNCHANGED tg,
         \/ AddRestriction(a, t) \/ AddAction(a)
         \/ \E whom \in {t, Everyone} : RemoveRules(a, whom)
  PROVE  Kept
<1>1. CASE AddRestriction(a, t)
  <2>1. PICK kind \in Kinds, severity \in {"delete", "mute", "jail"},
             left \in {Forever, 1} : rules' = rules \cup {Rule(t, kind, severity, left)}
    BY <1>1 DEF AddRestriction
  <2>2. Rule(t, kind, severity, left) \in RuleRow
    BY DEF Rule, RuleRow
  <2> QED
    BY <1>1, <2>1, <2>2, RulesWritten DEF AddRestriction, DisciplineInv, Tables
<1>2. CASE AddAction(a)
  <2>1. PICK kind \in Kinds : rules' = rules \cup {Rule(Everyone, kind, "delete", Forever)}
    BY <1>2 DEF AddAction
  <2>2. Rule(Everyone, kind, "delete", Forever) \in RuleRow
    BY DEF Rule, RuleRow
  <2> QED
    BY <1>2, <2>1, <2>2, RulesWritten DEF AddAction, DisciplineInv, Tables
<1>3. CASE \E whom \in {t, Everyone} : RemoveRules(a, whom)
  BY <1>3, RulesWritten DEF RemoveRules, DisciplineInv, Tables
<1> QED
  BY <1>1, <1>2, <1>3

(* Commands that take no I/O: no handler is left behind.                    *)
LEMMA CommandKeeps ==
  ASSUME DisciplineInv, Pass, UNCHANGED << pc, job >>, Kept
  PROVE  Preserved
<1>1. LoopTypeOK'
  BY DEF DisciplineInv, Handlers, LoopTypeOK, Pass
<1> QED
  BY <1>1, NobodyMoved DEF DisciplineInv, Kept, Preserved

LEMMA AtOnceKeeps ==
  ASSUME DisciplineInv, NEW a \in Users, NEW t \in Users,
         AtOnce(a, t) \/ ChangeFines(a, t)
  PROVE  Preserved
<1>1. Kept
  BY WarnKeeps, FinesKeep, RulesKeep DEF AtOnce, ChangeFines
<1> QED
  BY <1>1, CommandKeeps DEF AtOnce, ChangeFines

(* The commands of roles.  /setowner starts a configured owner again.       *)
LEMMA ChangeRoleKeeps ==
  ASSUME DisciplineInv, NEW a \in Users, NEW t \in Users, ChangeRole(a, t)
  PROVE  Preserved
<1> USE DEF DisciplineInv
<1>1. UsersFit' /\ \A u \in Users \ ConfigOwners : users'[u].warnings = users[u].warnings
  <2>1. CASE SetOwner(a)
    <3>1. NewUser("owner") \in UserType(TimesLeft)
      BY DEF NewUser, UserType, RoleNames
    <3>2. a \in ConfigOwners /\ users' = [users EXCEPT ![a] = NewUser("owner")]
      BY <2>1 DEF SetOwner
    <3> QED
      BY <3>1, <3>2 DEF Tables, UsersFit
  <2>2. CASE GiveRole(a, t)
    <3>1. \E role \in RoleNames : SetField(t, "role", role)
      BY <2>2 DEF GiveRole, RoleNames
    <3> QED
      BY <3>1, RoleUpdate DEF SameWarnings, Tables
  <2>3. CASE Revoke(a, t)
    <3>1. "pleb" \in RoleNames /\ SetField(t, "role", "pleb")
      BY <2>3 DEF Revoke, RoleNames
    <3> QED
      BY <3>1, RoleUpdate DEF SameWarnings, Tables
  <2>4. CASE Whitelist(a, t)
    BY <2>4, WhitelistUpdate DEF Whitelist, SameWarnings, Tables
  <2>5. CASE Blacklist(a, t)
    BY <2>5, BlacklistUpdate DEF Blacklist, SameWarnings, Tables
  <2> QED
    BY <2>1, <2>2, <2>3, <2>4, <2>5 DEF ChangeRole, RoleCommand
<1>2. CountsStay
  BY <1>1, SameRows, CountsKept DEF ChangeRole
<1>3. Kept
  BY <1>1, <1>2 DEF ChangeRole, Tables, ViolationsFit, Kept
<1> QED
  BY <1>3, CommandKeeps DEF ChangeRole

------------------------------------------------------------------------------
(* Bail and fines.                                                          *)

LEMMA PayBailKeeps ==
  ASSUME DisciplineInv, NEW u \in Users, PayBail(u)
  PROVE  Preserved
<1>1. Kept
  BY NothingWritten DEF PayBail, DisciplineInv
<1> QED
  BY <1>1, CommandKeeps DEF PayBail

LEMMA VerifyBailKeeps ==
  ASSUME DisciplineInv, NEW r \in Requests, NEW u \in Users, VerifyBail(r, u)
  PROVE  Preserved
<1>1. PICK paid \in payments :
        Start(r, "verify", [kind |-> "bail", user |-> u, paid |-> paid,
                            amt |-> bail(users[u].muted)])
  BY DEF VerifyBail
<1>2. Moved(r) /\ pc'[r] = "verify" /\ job'[r].kind = "bail" /\ job'[r].user = u
  BY <1>1, StartMoved DEF DisciplineInv, DisciplineSteps
<1>3. Knows(r)'
  BY <1>2 DEF Knows, FineSteps, TransferSteps
<1>4. Kept
  BY NothingWritten DEF VerifyBail, disciplineVars, DisciplineInv
<1> QED
  BY <1>2, <1>3, <1>4, Halves DEF VerifyBail

LEMMA BailVerifiedKeeps ==
  ASSUME DisciplineInv, NEW r \in Requests, BailVerified(r)
  PROVE  Preserved
<1>1. PICK u \in Users : u = job[r].user
  BY DEF BailVerified, DisciplineInv, Handlers, Knows
<1>2. CASE Finish(r) /\ UNCHANGED << users, quotes >>
  <2>1. Kept
    BY <1>2, NothingWritten DEF BailVerified, DisciplineInv
  <2> QED
    BY <1>2, <2>1, FinishMoved, Halves DEF BailVerified, DisciplineInv
<1>3. CASE ~(Finish(r) /\ UNCHANGED << users, quotes >>)
  <2>1. /\ SetMuted(u, NoMute) /\ Continue(r, "telegram")
        /\ job' = [job EXCEPT ![r] = Restriction(u, 0)]
    BY <1>1, <1>3 DEF BailVerified
  <2>2. Moved(r) /\ pc'[r] = "telegram" /\ job'[r] = Restriction(u, 0)
    BY <2>1, GoesOnMoved DEF DisciplineInv, DisciplineSteps
  <2>3. Kept
    BY <2>1, MutedKeeps DEF BailVerified
  <2> QED
    BY <2>2, <2>3, RestrictionKnows, SentencesAreTimes, Halves DEF BailVerified
<1> QED
  BY <1>2, <1>3

LEMMA PayAllFinesKeeps ==
  ASSUME DisciplineInv, NEW r \in Requests, NEW u \in Users, PayAllFines(r, u)
  PROVE  Preserved
<1>1. PICK amt : amt = SumOfFines(Unpaid(u))
  OBVIOUS
<1>2. Start(r, "fineBalance", [kind |-> "fines", from |-> u, to |-> Treasury,
                               amt |-> amt, rows |-> Unpaid(u)])
  BY <1>1 DEF PayAllFines
<1>3. Moved(r) /\ pc'[r] = "fineBalance" /\ job'[r].kind = "fines" /\ job'[r].from = u
  BY <1>2, StartMoved DEF DisciplineInv, DisciplineSteps
<1>4. Knows(r)'
  BY <1>3 DEF Knows, FineSteps, TransferSteps
<1>5. Kept
  BY NothingWritten DEF PayAllFines, disciplineVars, DisciplineInv
<1> QED
  BY <1>3, <1>4, <1>5, Halves DEF PayAllFines

LEMMA PayingKeeps ==
  ASSUME DisciplineInv, NEW r \in Requests,
         FineBalance(r) \/ PayFine(r) \/ FineRefused(r)
  PROVE  Preserved
<1>1. Kept
  BY NothingWritten DEF FineBalance, PayFine, FineRefused, disciplineVars, DisciplineInv
<1>2. Moved(r) /\ Knows(r)' /\ (Tick(r) \/ Suspend(r))
  <2>1. CASE FineBalance(r) /\ ~Finish(r)
    <3>1. Continue(r, "readFrom") /\ UNCHANGED job /\ Tick(r)
      BY <2>1 DEF FineBalance
    <3>2. Moved(r) /\ pc'[r] = "readFrom" /\ job'[r] = job[r]
      BY <3>1, ContinueMoved DEF DisciplineInv, DisciplineSteps, TransferSteps
    <3>3. job[r].kind = "fines" /\ job[r].from \in Users
      BY <2>1 DEF FineBalance, DisciplineInv, Handlers, Knows, FineSteps
    <3> QED
      BY <3>1, <3>2, <3>3 DEF Knows, FineSteps, TransferSteps
  <2>2. CASE FineBalance(r) /\ Finish(r)
    BY <2>2, FinishMoved DEF FineBalance, DisciplineInv
  <2>3. CASE PayFine(r)
    <3>1. "settle" \in FineSteps /\ whenRefused \in FineSteps
      BY DEF FineSteps, whenRefused
    <3>2. Tick(r)
      BY <2>3 DEF PayFine, TransferStep
    <3> QED
      BY <2>3, <3>1, <3>2, TransferMoved DEF PayFine, DisciplineInv
  <2>4. CASE FineRefused(r)
    BY <2>4, FinishMoved DEF FineRefused, DisciplineInv
  <2> QED
    BY <2>1, <2>2, <2>3, <2>4
<1> QED
  BY <1>1, <1>2, Halves

LEMMA SettleKeeps ==
  ASSUME DisciplineInv, NEW r \in Requests, Settle(r)
  PROVE  Preserved
<1> USE DEF DisciplineInv, Tables
<1>1. PICK u \in Users : u = job[r].from
  BY DEF Settle, Handlers, Knows, FineSteps
<1>2. PICK rows : rows = job[r].rows
  OBVIOUS
<1>3. ViolationsFit' /\ \A v : RowsOf(v)' = RowsOf(v)
  BY <1>2, RowsMarked DEF Settle
<1>4. UsersFit' /\ SameWarnings
  <2>1. CASE SetMuted(u, NoMute)
    BY <2>1, MutedUpdate DEF SetMuted
  <2>2. CASE UNCHANGED users
    BY <2>2 DEF UsersFit, SameWarnings
  <2> QED
    BY <1>1, <2>1, <2>2 DEF Settle
<1>5. CountsStay
  BY <1>3, <1>4, CountsKept DEF SameWarnings
<1>6. Kept
  BY <1>3, <1>4, <1>5 DEF Settle, Kept
<1> QED
  BY <1>6, FinishMoved, Halves DEF Settle

------------------------------------------------------------------------------
(* Timers.                                                                  *)

LEMMA ReleaseKeeps ==
  ASSUME DisciplineInv, NEW r \in Requests, Drain, NEW left \in SUBSET Users,
         Release(r, left)
  PROVE  Preserved
<1>1. PICK u \in left :
        /\ ReleaseMute(u)
        /\ pc' = [pc EXCEPT ![r] = "lift"]
        /\ job' = [job EXCEPT ![r] = [kind |-> "sweep", user |-> u, left |-> left \ {u}]]
        /\ UNCHANGED << ledgerVars, tg, rules, violations, fine, payments >>
  BY DEF Release
<1>2. Kept
  BY <1>1, MutedKeeps DEF ReleaseMute
<1>3. PICK others \in SUBSET Users : others = left \ {u}
  OBVIOUS
<1>4. /\ Moved(r) /\ pc'[r] = "lift"
      /\ job'[r] = [kind |-> "sweep", user |-> u, left |-> others]
  BY <1>1, <1>3 DEF DisciplineInv, Handlers, Moved, DisciplineSteps
<1>5. Knows(r)'
  BY <1>4 DEF Knows, FineSteps, TransferSteps
<1> QED
  BY <1>2, <1>4, <1>5, Halves

LEMMA SweepKeeps ==
  ASSUME DisciplineInv, NEW r \in Requests, StartSweep(r) \/ NextRelease(r)
  PROVE  Preserved
<1>1. CASE StartSweep(r)
  BY <1>1, ReleaseKeeps DEF StartSweep
<1>2. CASE NextRelease(r)
  <2>1. PICK left \in SUBSET Users : left = job[r].left
    BY <1>2 DEF NextRelease, DisciplineInv, Handlers, Knows
  <2> QED
    BY <1>2, <2>1, ReleaseKeeps DEF NextRelease
<1> QED
  BY <1>1, <1>2

LEMMA LiftedKeeps ==
  ASSUME DisciplineInv, NEW r \in Requests, Lifted(r)
  PROVE  Preserved
<1>1. job[r] \in [kind: {"sweep"}, user: Users, left: SUBSET Users]
  BY DEF Lifted, DisciplineInv, Handlers, Knows
<1>2. tg' \in [Users -> TimesLeft]
  BY <1>1, SentencesAreTimes DEF Lifted, DisciplineInv, Tables
<1>3. UsersFit' /\ SameWarnings
  BY DEF Lifted, DisciplineInv, Tables, UsersFit, SameWarnings
<1>4. Kept
  BY <1>2, <1>3, OnlyMuted DEF Lifted, DisciplineInv
<1>5. Moved(r) /\ Knows(r)'
  <2>1. CASE Finish(r)
    BY <2>1, FinishMoved DEF DisciplineInv
  <2>2. CASE Continue(r, "sweep") /\ UNCHANGED job
    <3>1. Moved(r) /\ pc'[r] = "sweep" /\ job'[r] = job[r]
      BY <2>2, ContinueMoved DEF DisciplineInv, DisciplineSteps
    <3> QED
      BY <1>1, <3>1 DEF Knows, FineSteps, TransferSteps
  <2> QED
    BY <2>1, <2>2 DEF Lifted
<1> QED
  BY <1>4, <1>5, Halves DEF Lifted

LEMMA CleanKeeps ==
  ASSUME DisciplineInv, CleanExpiredRestrictions
  PROVE  Preserved
<1>1. Kept
  BY RulesWritten DEF CleanExpiredRestrictions, DisciplineInv, Tables
<1>2. LoopTypeOK'
  BY DEF CleanExpiredRestrictions, DisciplineInv, Handlers, LoopTypeOK, Drain
<1> QED
  BY <1>1, <1>2, NobodyMoved DEF CleanExpiredRestrictions, DisciplineInv, Kept, Preserved

(* Everything comes nearer to its end, also what a handler is about to      *)
(* write.                                                                   *)
LEMMA TimeKeepsTables ==
  ASSUME DisciplineInv, TimePasses
  PROVE  Kept
<1> USE DEF DisciplineInv, Tables
<1>1. ASSUME NEW u \in Users
      PROVE  LET row == [users[u] EXCEPT !.muted = Less(@)]
             IN  row \in UserType(TimesLeft) /\ row.warnings = users[u].warnings
  <2>1. users[u] \in UserType(TimesLeft)
    BY DEF UsersFit
  <2>2. Less(users[u].muted) \in {NoMute} \cup TimesLeft
    BY <2>1, LessIsTime DEF UserType
  <2> QED
    BY <2>1, <2>2 DEF UserType
<1>2. UsersFit' /\ SameWarnings
  BY <1>1 DEF TimePasses, UsersFit, SameWarnings
<1>3. tg' \in [Users -> TimesLeft]
  BY LessIsTime DEF TimePasses
<1>4. rules' \subseteq RuleRow
  <2>1. ASSUME NEW rule \in RuleRow PROVE [rule EXCEPT !.left = Less(@)] \in RuleRow
    <3>1. Less(rule.left) \in {Forever, 0, 1}
      BY LessIsTime DEF RuleRow
    <3> QED
      BY <3>1 DEF RuleRow
  <2> QED
    BY <2>1 DEF TimePasses
<1>5. \A i \in ViolationIds :
        violations'[i] = IF i \in ViolationRows
                         THEN [violations[i] EXCEPT !.fresh = Less(@)] ELSE violations[i]
  BY DEF TimePasses
<1>6. ASSUME NEW i \in ViolationRows
      PROVE  LET row == [violations[i] EXCEPT !.fresh = Less(@)]
             IN  /\ row \in ViolationRow /\ row.user = violations[i].user
                 /\ row.gone = violations[i].gone
  <2>1. violations[i] \in ViolationRow
    BY DEF ViolationsFit, ViolationRows
  <2>2. Less(violations[i].fresh) \in 0 .. Window
    BY <2>1, LessIsTime DEF ViolationRow
  <2> QED
    BY <2>1, <2>2 DEF ViolationRow
<1>7. ViolationsFit'
  <2>1. DOMAIN violations' = ViolationIds
    BY DEF TimePasses
  <2>2. \A i \in ViolationIds :
          violations'[i] # NoViolation => violations'[i] \in ViolationRow
    BY <1>5, <1>6 DEF ViolationsFit
  <2> QED
    BY <2>1, <2>2 DEF ViolationsFit, ViolationIds
<1>8. ViolationRows' = ViolationRows
  BY <1>5, <1>6, ViolationIsThere DEF ViolationRows, ViolationIds
<1>9. \A v : RowsOf(v)' = RowsOf(v)
  <2>1. \A i \in ViolationRows : violations'[i].user = violations[i].user
    BY <1>5, <1>6 DEF ViolationRows
  <2> QED
    BY <1>8, <2>1 DEF RowsOf
<1>10. CountsStay
  BY <1>2, <1>9, CountsKept DEF SameWarnings
<1> QED
  BY <1>2, <1>3, <1>4, <1>7, <1>10 DEF TimePasses, Kept

LEMMA TimeKeeps ==
  ASSUME DisciplineInv, TimePasses
  PROVE  Preserved
<1>1. LoopTypeOK'
  BY DEF TimePasses, DisciplineInv, Handlers, LoopTypeOK, Drain
<1>2. ASSUME NEW r \in Requests
      PROVE  Knows(r)'
  <2>1. pc'[r] = pc[r]
    BY DEF TimePasses
  <2>2. Knows(r)
    BY DEF DisciplineInv, Handlers
  <2>3. job'[r] = IF job[r].kind = "telegram"
                  THEN [job[r] EXCEPT !.until = Less(@)] ELSE job[r]
    BY DEF TimePasses
  <2>4. CASE pc[r] \in {"mute", "jail", "telegram"}
    <3>1. job[r] \in [kind: {"telegram"}, user: Users, until: TimesLeft]
      BY <2>2, <2>4 DEF Knows
    <3>2. Less(job[r].until) \in TimesLeft
      BY <3>1, LessIsTime
    <3>3. [job[r] EXCEPT !.until = Less(@)]
            \in [kind: {"telegram"}, user: Users, until: TimesLeft]
      BY <3>1, <3>2
    <3> QED
      BY <2>1, <2>3, <2>4, <3>1, <3>3 DEF Knows, FineSteps, TransferSteps
  <2>5. CASE pc[r] \in {"delete", "price", "penalty", "verify", "lift", "sweep"} \cup FineSteps
    <3>1. job[r].kind # "telegram"
      BY <2>2, <2>5 DEF Knows
    <3> QED
      BY <2>1, <2>2, <2>3, <3>1 DEF Knows
  <2>6. CASE pc[r] = "idle"
    BY <2>1, <2>6 DEF Knows, FineSteps, TransferSteps
  <2> QED
    BY <2>4, <2>5, <2>6 DEF DisciplineInv, Handlers, DisciplineSteps, FineSteps
<1>3. pc' \in [Requests -> DisciplineSteps] /\ DOMAIN job' = Requests
  BY DEF TimePasses, DisciplineInv, Handlers
<1> QED
  BY <1>1, <1>2, <1>3, TimeKeepsTables DEF DisciplineInv, Handlers, Kept, Preserved

------------------------------------------------------------------------------
(* The whole of it.                                                         *)

(* A restart: nobody is in a handler, the owners are owners again.          *)
LEMMA NobodyKnows ==
  ASSUME LoopTypeOK', pc' = [r \in Requests |-> "idle"], DOMAIN job' = Requests
  PROVE  Handlers'
BY DEF Handlers, Knows, DisciplineSteps, FineSteps, TransferSteps

(* What a kill leaves in the table of violations.                           *)
LEMMA CutRows ==
  ASSUME DisciplineInv, Cut
  PROVE  /\ ViolationsFit'
         /\ torn \subseteq torn'
         /\ \A u \in Users \ torn' : RowsOf(u)' = RowsOf(u)
<1> USE DEF DisciplineInv, Tables
<1>1. CASE UNCHANGED << violations, torn >>
  BY <1>1, SameRows DEF ViolationsFit
<1>2. ASSUME NEW u \in Users, FirstOfTwo(u), torn' = torn \cup {u}
      PROVE  ViolationsFit' /\ \A v \in Users \ {u} : RowsOf(v)' = RowsOf(v)
  <2>1. CASE \E r \in Requests : pc[r] = "price" /\ job[r].user = u /\ InsertRow(r)
    BY <2>1, InsertRowKeeps, RowInserted
  <2>2. CASE \E a \in Users : InsertWarning(a, u)
    BY <2>2, RowInserted DEF InsertWarning
  <2>3. CASE ClearRows(u)
    BY <2>3, RowsDeleted, ClearDeletes
  <2> QED
    BY <1>2, <2>1, <2>2, <2>3 DEF FirstOfTwo
<1>3. CASE /\ \E r \in ready, n \in ViolationIds :
                pc[r] = "settle" /\ MarkPaid({i \in job[r].rows : i <= n})
           /\ UNCHANGED torn
  <2>1. PICK rows : MarkPaid(rows)
    BY <1>3
  <2> QED
    BY <1>3, <2>1, RowsMarked
<1> QED
  BY <1>1, <1>2, <1>3 DEF Cut

LEMMA CrashKeeps ==
  ASSUME DisciplineInv, Crash
  PROVE  DisciplineInv'
<1>1. Handlers'
  BY NobodyKnows DEF Crash, RequestsCrash, Halt, LoopTypeOK
<1>2. ASSUME NEW u \in Users
      PROVE  LET row == [users[u] EXCEPT !.role = "owner"]
             IN  row \in UserType(TimesLeft) /\ row.warnings = users[u].warnings
  BY DEF DisciplineInv, Tables, UsersFit, UserType, RoleNames
<1>3. UsersFit' /\ SameWarnings
  BY <1>2 DEF Crash, ConfigureOwners, DisciplineInv, Tables, UsersFit, SameWarnings
<1>4. /\ ViolationsFit'
      /\ torn \subseteq torn'
      /\ \A u \in Users \ torn' : RowsOf(u)' = RowsOf(u)
  BY CutRows DEF Crash
<1>5. \A u \in Users \ (ConfigOwners \cup torn') : Counted(u)'
  BY <1>3, <1>4, MatchIsCounted DEF DisciplineInv, Counted, SameWarnings
<1>6. WarningsMatchViolations'
  BY <1>5 DEF WarningsMatchViolations, Counted, RowsOf
<1>7. Tables'
  BY <1>3, <1>4 DEF Crash, DisciplineInv, Tables
<1> QED
  BY <1>1, <1>6, <1>7 DEF DisciplineInv

LEMMA DisciplineStarts == Init => DisciplineInv
<1> SUFFICES ASSUME Init PROVE DisciplineInv
  OBVIOUS
<1>1. Handlers
  BY DEF Init, RequestsInit, LoopInit, LoopTypeOK, Handlers, Knows, DisciplineSteps,
         FineSteps, TransferSteps
<1>2. UsersFit
  <2>1. mode.roles \in [Users -> RoleNames]
    BY DisciplineAssumption DEF Init, RoleNames
  <2>2. \A role \in RoleNames : NewUser(role) \in UserType(TimesLeft)
    BY DEF NewUser, UserType
  <2> QED
    BY <2>1, <2>2 DEF Init, UsersFit
<1>3. ViolationsFit
  BY DEF Init, ViolationsFit
<1>4. tg \in [Users -> TimesLeft] /\ rules \subseteq RuleRow /\ fine \in Fines
  BY DisciplineAssumption, SentencesAreTimes DEF Init
<1>5. WarningsMatchViolations
  <2>1. \A u : RowsOf(u) = {}
    BY DEF Init, RowsOf, ViolationRows
  <2>2. \A u \in Users : users[u].warnings = 0
    BY DEF Init, NewUser
  <2> QED
    BY <2>1, <2>2, MatchIsCounted, FS_EmptySet DEF Counted
<1> QED
  BY <1>1, <1>2, <1>3, <1>4, <1>5 DEF DisciplineInv, Tables

LEMMA DisciplineStep == DisciplineInv /\ [Next]_vars => DisciplineInv'
<1> SUFFICES ASSUME DisciplineInv, [Next]_vars PROVE DisciplineInv'
  OBVIOUS
<1>1. ASSUME NEW r \in Requests, Begin(r) PROVE Preserved
  BY <1>1, ChangeRoleKeeps, AtOnceKeeps, MessageKeeps, SentenceKeeps, PayBailKeeps,
     VerifyBailKeeps, PayAllFinesKeeps DEF Begin
<1>2. ASSUME NEW r \in Requests, Proceed(r) PROVE Preserved
  BY <1>2, MessageDeletedKeeps, CreateViolationKeeps, HandleViolationKeeps,
     MuteAnsweredKeeps, ApplyJailKeeps,
     TelegramAnswersKeeps, BailVerifiedKeeps, PayingKeeps, SettleKeeps, LiftedKeeps,
     SweepKeeps DEF Proceed
<1>3. ASSUME NEW r \in Requests, Sweep(r) PROVE Preserved
  BY <1>3, SweepKeeps DEF Sweep
<1>4. ASSUME Clock PROVE Preserved
  BY <1>4, TimeKeeps, CleanKeeps DEF Clock
<1>5. CASE Crash
  BY <1>5, CrashKeeps
<1>6. ASSUME UNCHANGED vars PROVE Preserved
  <2>1. Kept
    BY <1>6, NothingWritten DEF vars, disciplineVars, DisciplineInv
  <2>2. LoopTypeOK'
    BY <1>6 DEF vars, loopVars, DisciplineInv, Handlers, LoopTypeOK
  <2> QED
    BY <1>6, <2>1, <2>2, NobodyMoved DEF vars, DisciplineInv, Preserved
<1>7. Crash \/ (Preserved /\ torn' = torn)
  BY <1>1, <1>2, <1>3, <1>4, <1>6 DEF Next, kept, vars
<1>8. Preserved /\ torn' = torn => DisciplineInv'
  BY MatchStays DEF DisciplineInv, Preserved, Kept
<1> QED
  BY <1>5, <1>7, <1>8

LEMMA DisciplineInvariant == Spec => []DisciplineInv
BY DisciplineStarts, DisciplineStep, PTL DEF Spec

(* The tables keep their type in every behaviour, and no time left is       *)
(* negative or longer than a sentence: whatever a handler writes after      *)
(* Telegram has answered it (services/restrictionService.ts,                *)
(* commands/moderation.ts, commands/jail.ts).                               *)
THEOREM DisciplineTypeCorrect == Spec => []TypeOK
<1>1. DisciplineInv => TypeOK
  BY DEF DisciplineInv, Handlers, Tables, UsersFit, ViolationsFit, ViolationRows,
         ViolationRow, TypeOK
<1> QED
  BY <1>1, DisciplineInvariant, PTL

(* The counter of warnings of a user is the number of violations, although  *)
(* handleViolation, /warn and /clearviolations write them in two tables and *)
(* a deletion or a price is awaited between the message and its violation;  *)
(* over crashes as well, except for a user between whose two statements the *)
(* process was killed.                                                      *)
THEOREM WarningsAreViolations == Spec => []WarningsMatchViolations
<1>1. DisciplineInv => WarningsMatchViolations
  BY DEF DisciplineInv
<1> QED
  BY <1>1, DisciplineInvariant, PTL

------------------------------------------------------------------------------
(* Fines.  A /payallfines remembers the rows it listed and what they cost;  *)
(* between the log entry of its transfer and its UPDATE the log has money   *)
(* for rows that are not marked yet.  Two handlers of a batch may list the  *)
(* same row, so the log may have more than the rows say.  Without a batch a *)
(* handler is alone from its list to its UPDATE.                            *)

Known == {i \in ViolationIds : violations[i] # NoViolation}

Amounts ==
  [i \in ViolationIds |-> IF violations[i] = NoViolation THEN 0 ELSE violations[i].fine]

Worth(S) == SumFunctionOnSet(Amounts, S)

PaidRows == {i \in Known : violations[i].paid}

ClearedRows == {i \in Known : violations[i].gone}

Settling == UNION {job[r].rows : r \in {q \in Requests : pc[q] = "settle"}}

PayerKnows(r) ==
  pc[r] \in FineSteps =>
    /\ job[r].rows \in SUBSET Known
    /\ job[r].to = Treasury
    /\ job[r].amt = Worth(job[r].rows)

Payers == \A r \in Requests : PayerKnows(r)

Received ==
  /\ audit \in [Accounts -> Int]
  /\ audit[Treasury] >= Worth(PaidRows \cup Settling)

PaysAlone(r) ==
  pc[r] \in FineSteps => ready = {r} /\ job[r].rows \subseteq Unpaid(job[r].from)

Alone == \A r \in Requests : PaysAlone(r)

NoMore == audit[Treasury] <= Worth(PaidRows \cup ClearedRows \cup Settling)

FinesInv ==
  /\ Payers
  /\ Received
  /\ crashes \in Nat
  /\ ~mode.batching => Alone /\ (crashes = 0 => NoMore)

------------------------------------------------------------------------------
(* What rows are worth.                                                     *)

LEMMA AmountsFit ==
  /\ ViolationsFit => \A i \in ViolationIds : Amounts[i] \in Nat
  /\ ViolationsFit' => \A i \in ViolationIds : Amounts'[i] \in Nat
<1>1. Fines \cup {0} \subseteq Nat
  BY DisciplineAssumption
<1>2. \A row \in ViolationRow : row.fine \in Nat
  BY <1>1 DEF ViolationRow
<1> QED
  BY <1>2 DEF ViolationsFit, Amounts, ViolationIds

LEMMA AmountSums ==
  ASSUME NEW f, \A i \in ViolationIds : f[i] \in Nat
  PROVE  \A S \in SUBSET ViolationIds : \A T \in SUBSET S :
           /\ SumFunctionOnSet(f, S) \in Nat
           /\ SumFunctionOnSet(f, T) \in Nat
           /\ SumFunctionOnSet(f, T) <= SumFunctionOnSet(f, S)
<1>1. \A S \in SUBSET ViolationIds : IsFiniteSet(S) /\ \A i \in S : f[i] \in Nat
  BY IdsAreFinite, FS_Subset
<1> QED
  BY <1>1, SumGrows

(* A row that both sets have is counted once.                               *)
LEMMA AmountsAdd ==
  ASSUME NEW f, \A i \in ViolationIds : f[i] \in Nat,
         NEW A \in SUBSET ViolationIds, NEW B \in SUBSET ViolationIds
  PROVE  /\ SumFunctionOnSet(f, A \cup B)
              <= SumFunctionOnSet(f, A) + SumFunctionOnSet(f, B)
         /\ A \cap B = {} => SumFunctionOnSet(f, A \cup B)
                               = SumFunctionOnSet(f, A) + SumFunctionOnSet(f, B)
<1>1. PICK C : C = B \ A
  OBVIOUS
<1>2. C \in SUBSET B /\ A \cup C = A \cup B /\ A \cap C = {}
  BY <1>1
<1>3. IsFiniteSet(A) /\ IsFiniteSet(C) /\ \A i \in A \cup C : f[i] \in Int
  BY <1>2, IdsAreFinite, FS_Subset
<1>4. SumFunctionOnSet(f, A \cup C) = SumFunctionOnSet(f, A) + SumFunctionOnSet(f, C)
  BY <1>2, <1>3, SumsAdd
<1>5. /\ SumFunctionOnSet(f, A) \in Nat
      /\ SumFunctionOnSet(f, B) \in Nat
      /\ SumFunctionOnSet(f, C) \in Nat
      /\ SumFunctionOnSet(f, C) <= SumFunctionOnSet(f, B)
  BY <1>2, AmountSums
<1>6. A \cap B = {} => C = B
  BY <1>1
<1> QED
  BY <1>2, <1>4, <1>5, <1>6

LEMMA SameAmounts ==
  ASSUME NEW f, NEW g, NEW S \in SUBSET ViolationIds, \A i \in S : f[i] = g[i]
  PROVE  SumFunctionOnSet(f, S) = SumFunctionOnSet(g, S)
BY IdsAreFinite, FS_Subset, SameSum

LEMMA SumIsWorth ==
  ASSUME NEW S \in SUBSET Known
  PROVE  SumOfFines(S) = Worth(S)
<1>1. PICK f : f = [i \in S |-> violations[i].fine]
  OBVIOUS
<1>2. PICK g : g = Amounts
  OBVIOUS
<1>3. S \in SUBSET ViolationIds /\ \A i \in S : f[i] = g[i]
  BY <1>1, <1>2 DEF Known, Amounts
<1> QED
  BY <1>1, <1>2, <1>3, SameAmounts DEF SumOfFines, Worth

(* Where rows are.                                                          *)
LEMMA RowsAreKnown ==
  /\ Known \subseteq ViolationIds /\ Known' \subseteq ViolationIds
  /\ PaidRows \subseteq Known /\ PaidRows' \subseteq Known'
  /\ ClearedRows \subseteq Known /\ ClearedRows' \subseteq Known'
  /\ Payers => Settling \subseteq Known
  /\ Payers' => Settling' \subseteq Known'
BY DEF Known, PaidRows, ClearedRows, Settling, Payers, PayerKnows, FineSteps, ViolationIds

------------------------------------------------------------------------------
(* Steps that have to do with no payment.                                   *)

(* Rows are added, cleared and grow older; none is marked paid.             *)
RowsGrow ==
  /\ Known \subseteq Known'
  /\ \A i \in Known : Amounts'[i] = Amounts[i]
  /\ PaidRows' = PaidRows
  /\ ClearedRows \subseteq ClearedRows'

(* Nobody starts or goes on to pay.                                         *)
Unpaying ==
  \A q \in Requests :
    pc'[q] \in FineSteps => pc'[q] = pc[q] /\ job'[q] = job[q]

NobodyPays == \A q \in Requests : pc[q] \notin FineSteps

(* Of the ledger, /setowner writes the balance of a user.                   *)
LedgerStays ==
  /\ UNCHANGED << audit, snap >>
  /\ UNCHANGED bal \/ \E a \in Users : bal' = [bal EXCEPT ![a] = 0]

Elsewhere ==
  /\ ~mode.batching => NobodyPays
  /\ UNCHANGED << mode, crashes >>
  /\ LedgerStays
  /\ Unpaying
  /\ RowsGrow

(* A handler runs that does not pay, or none does.                          *)
Calm == ready = {} \/ \E q \in ready : pc[q] \notin FineSteps

LEMMA CalmMeansNobody == FinesInv /\ Calm /\ ~mode.batching => NobodyPays
BY DEF FinesInv, Alone, PaysAlone, Calm, NobodyPays

LEMMA ElsewhereKeeps ==
  ASSUME DisciplineInv, DisciplineInv', FinesInv, Elsewhere
  PROVE  FinesInv'
<1>1. PICK f, g : f = Amounts /\ g = Amounts'
  OBVIOUS
<1>2. \A i \in ViolationIds : f[i] \in Nat /\ g[i] \in Nat
  BY <1>1, AmountsFit DEF DisciplineInv, Tables
<1>3. \A S \in SUBSET Known : SumFunctionOnSet(f, S) = SumFunctionOnSet(g, S)
  BY <1>1, SameAmounts, RowsAreKnown DEF Elsewhere, RowsGrow
<1>4. Payers'
  <2>1. ASSUME NEW r \in Requests, pc'[r] \in FineSteps
        PROVE  /\ job'[r].rows \in SUBSET Known'
               /\ job'[r].to = Treasury
               /\ job'[r].amt = SumFunctionOnSet(g, job'[r].rows)
    <3>1. pc'[r] = pc[r] /\ job'[r] = job[r]
      BY <2>1 DEF Elsewhere, Unpaying
    <3>2. /\ job[r].rows \in SUBSET Known
          /\ job[r].to = Treasury
          /\ job[r].amt = SumFunctionOnSet(f, job[r].rows)
      BY <1>1, <2>1, <3>1 DEF FinesInv, Payers, PayerKnows, Worth
    <3> QED
      BY <1>3, <3>1, <3>2 DEF Elsewhere, RowsGrow
  <2> QED
    BY <1>1, <2>1 DEF Payers, PayerKnows, Worth
<1>5. Settling' \subseteq Settling
  BY DEF Elsewhere, Unpaying, Settling, FineSteps
<1>6. Received'
  <2>1. PICK S, T : S = PaidRows \cup Settling /\ T = PaidRows' \cup Settling'
    OBVIOUS
  <2>2. S \in SUBSET Known /\ T \in SUBSET S
    BY <1>5, <2>1, RowsAreKnown DEF FinesInv, Elsewhere, RowsGrow
  <2>3. S \in SUBSET ViolationIds
    BY <2>2, RowsAreKnown
  <2>4. /\ SumFunctionOnSet(g, S) \in Nat
        /\ SumFunctionOnSet(g, T) \in Nat
        /\ SumFunctionOnSet(g, T) <= SumFunctionOnSet(g, S)
    BY <1>2, <2>2, <2>3, AmountSums
  <2>5. audit[Treasury] \in Int /\ audit[Treasury] >= SumFunctionOnSet(g, S)
    BY <1>1, <1>3, <2>1, <2>2, DisciplineAssumption DEF FinesInv, Received, Worth, Accounts
  <2>6. audit'[Treasury] >= SumFunctionOnSet(g, T)
    BY <2>4, <2>5 DEF Elsewhere, LedgerStays
  <2> QED
    BY <1>1, <2>1, <2>6 DEF FinesInv, Received, Worth, Elsewhere, LedgerStays
<1>7. ASSUME ~mode.batching
      PROVE  Alone' /\ (crashes = 0 => NoMore')
  <2>1. \A q \in Requests : pc[q] \notin FineSteps
    BY <1>7 DEF Elsewhere, NobodyPays
  <2>2. \A q \in Requests : pc'[q] \notin FineSteps
    BY <2>1 DEF Elsewhere, Unpaying
  <2>3. Alone'
    BY <2>2 DEF Alone, PaysAlone
  <2>4. ASSUME crashes = 0 PROVE NoMore'
    <3>1. PICK S, T : /\ S = PaidRows \cup ClearedRows \cup Settling
                      /\ T = PaidRows' \cup ClearedRows' \cup Settling'
      OBVIOUS
    <3>2. Settling = {}
      BY <2>1 DEF Settling, FineSteps
    <3>3. S \in SUBSET Known /\ S \in SUBSET T /\ T \in SUBSET Known'
      BY <1>4, <3>1, <3>2, RowsAreKnown DEF Elsewhere, RowsGrow
    <3>4. T \in SUBSET ViolationIds
      BY <3>3, RowsAreKnown
    <3>5. /\ SumFunctionOnSet(g, S) \in Nat
          /\ SumFunctionOnSet(g, T) \in Nat
          /\ SumFunctionOnSet(g, S) <= SumFunctionOnSet(g, T)
      BY <1>2, <3>3, <3>4, AmountSums
    <3>6. audit[Treasury] \in Int /\ audit[Treasury] <= SumFunctionOnSet(g, S)
      BY <1>1, <1>3, <1>7, <2>4, <3>1, <3>3, DisciplineAssumption
         DEF FinesInv, Received, NoMore, Worth, Accounts
    <3>7. audit'[Treasury] <= SumFunctionOnSet(g, T)
      BY <3>5, <3>6 DEF Elsewhere, LedgerStays
    <3> QED
      BY <1>1, <3>1, <3>7 DEF NoMore, Worth
  <2> QED
    BY <2>3, <2>4
<1> QED
  BY <1>4, <1>6, <1>7 DEF FinesInv, Elsewhere

LEMMA RowsStay == UNCHANGED violations => RowsGrow
BY DEF RowsGrow, Known, Amounts, PaidRows, ClearedRows

LEMMA RowsInserted ==
  ASSUME ViolationsFit, NEW i \in ViolationIds, NEW u, NEW kind, NEW amount,
         InsertViolation(i, u, kind, amount)
  PROVE  RowsGrow
<1>1. violations[i] = NoViolation /\ violations' = [violations EXCEPT ![i] = Violation(u, kind, amount)]
  BY DEF InsertViolation
<1>2. ~Violation(u, kind, amount).paid
  BY DEF Violation
<1>3. \A k \in ViolationIds \ {i} : violations'[k] = violations[k]
  BY <1>1 DEF ViolationsFit
<1>4. violations'[i] = Violation(u, kind, amount)
  BY <1>1 DEF ViolationsFit
<1>5. i \notin Known
  BY <1>1 DEF Known
<1>6. \A k \in Known : violations'[k] = violations[k]
  BY <1>3, <1>5 DEF Known
<1>7. ViolationIds' = ViolationIds
  BY DEF ViolationIds
<1>8. Known \subseteq Known' /\ \A k \in Known : Amounts'[k] = Amounts[k]
  BY <1>6, <1>7 DEF Known, Amounts
<1>9. PaidRows' = PaidRows /\ ClearedRows \subseteq ClearedRows'
  BY <1>2, <1>4, <1>5, <1>6, <1>7, <1>3 DEF Known, PaidRows, ClearedRows
<1> QED
  BY <1>8, <1>9 DEF RowsGrow

LEMMA RowsCleared ==
  ASSUME ViolationsFit, NEW t \in Users, ClearRows(t)
  PROVE  RowsGrow
<1>1. \A i \in ViolationIds :
        violations'[i] = IF i \in ViolationRows /\ violations[i].user = t
                         THEN GoneRow(i) ELSE violations[i]
  BY ClearDeletes DEF Deleted
<1>2. ASSUME NEW i \in Known
      PROVE  /\ violations'[i] # NoViolation
             /\ violations'[i].fine = violations[i].fine
             /\ violations'[i].paid = violations[i].paid
             /\ violations[i].gone => violations'[i].gone
  <2>1. violations[i] \in ViolationRow
    BY DEF ViolationsFit, Known
  <2>3. 0 \in 0 .. Window
    BY DisciplineAssumption
  <2>2. /\ GoneRow(i) \in ViolationRow /\ GoneRow(i).fine = violations[i].fine
        /\ GoneRow(i).paid = violations[i].paid /\ GoneRow(i).gone
    BY <2>1, <2>3 DEF ViolationRow, GoneRow
  <2> QED
    BY <1>1, <2>1, <2>2, ViolationIsThere DEF Known
<1>3. Known' = Known
  BY <1>1, <1>2 DEF Known, ViolationRows, ViolationIds
<1> QED
  BY <1>2, <1>3 DEF RowsGrow, Known, Amounts, PaidRows, ClearedRows, ViolationIds

LEMMA RowsGrowOlder ==
  ASSUME ViolationsFit, TimePasses
  PROVE  RowsGrow
<1>1. \A i \in ViolationIds :
        violations'[i] = IF i \in ViolationRows
                         THEN [violations[i] EXCEPT !.fresh = Less(@)] ELSE violations[i]
  BY DEF TimePasses
<1>2. ASSUME NEW i \in Known
      PROVE  /\ violations'[i] # NoViolation
             /\ violations'[i].fine = violations[i].fine
             /\ violations'[i].paid = violations[i].paid
             /\ violations'[i].gone = violations[i].gone
  <2>1. violations[i] \in ViolationRow
    BY DEF ViolationsFit, Known
  <2>2. Less(violations[i].fresh) \in 0 .. Window
    BY <2>1, LessIsTime DEF ViolationRow
  <2>3. LET row == [violations[i] EXCEPT !.fresh = Less(@)]
        IN  /\ row \in ViolationRow /\ row.fine = violations[i].fine
            /\ row.paid = violations[i].paid /\ row.gone = violations[i].gone
    BY <2>1, <2>2 DEF ViolationRow
  <2> QED
    BY <1>1, <2>1, <2>3, ViolationIsThere DEF Known
<1>3. Known' = Known
  BY <1>1, <1>2 DEF Known, ViolationRows, ViolationIds
<1> QED
  BY <1>2, <1>3 DEF RowsGrow, Known, Amounts, PaidRows, ClearedRows, ViolationIds

(* One handler moves to a step that is no payment, or nobody does.          *)
LEMMA OneMoves ==
  ASSUME NEW r \in Requests, pc'[r] \notin FineSteps,
         \A q \in Requests \ {r} : pc'[q] = pc[q] /\ job'[q] = job[q]
  PROVE  Unpaying
BY DEF Unpaying

LEMMA NobodyMoves == UNCHANGED << pc, job >> => Unpaying
BY DEF Unpaying

LEMMA StartElsewhere ==
  ASSUME Handlers, NEW r \in Requests, NEW step, step \notin FineSteps, NEW record,
         Start(r, step, record)
  PROVE  Unpaying
<1>1. /\ pc' = [pc EXCEPT ![r] = step]
      /\ job' = [job EXCEPT ![r] = record]
      /\ DOMAIN pc = Requests /\ DOMAIN job = Requests
  BY DEF Handlers, Start
<1> QED
  BY <1>1, OneMoves

LEMMA ContinueElsewhere ==
  ASSUME Handlers, NEW r \in Requests, NEW step, step \notin FineSteps,
         Continue(r, step),
         UNCHANGED job \/ \E record : job' = [job EXCEPT ![r] = record]
  PROVE  Unpaying
<1>1. /\ pc' = [pc EXCEPT ![r] = step]
      /\ \A q \in Requests \ {r} : job'[q] = job[q]
      /\ DOMAIN pc = Requests
  BY DEF Handlers, Continue
<1> QED
  BY <1>1, OneMoves

LEMMA FinishElsewhere ==
  ASSUME Handlers, NEW r \in Requests, Finish(r)
  PROVE  Unpaying
<1>1. /\ pc' = [pc EXCEPT ![r] = "idle"]
      /\ job' = [job EXCEPT ![r] = NoJob]
      /\ DOMAIN pc = Requests /\ DOMAIN job = Requests
  BY DEF Handlers, Finish
<1>2. "idle" \notin FineSteps
  BY DEF FineSteps, TransferSteps
<1> QED
  BY <1>1, <1>2, OneMoves

LEMMA OtherSteps ==
  FineSteps \cap {"idle", "delete", "price", "penalty", "mute", "jail", "telegram", "lift",
                  "sweep", "verify"} = {}
BY DEF FineSteps, TransferSteps

(* Commands that are one step.                                              *)
LEMMA AtOnceElsewhere ==
  ASSUME DisciplineInv, NEW a \in Users, NEW t \in Users,
         AtOnce(a, t) \/ ChangeFines(a, t) \/ ChangeRole(a, t) \/ PayBail(t)
  PROVE  LedgerStays /\ Unpaying /\ RowsGrow
<1> USE DEF DisciplineInv, Tables
<1>1. Unpaying
  BY NobodyMoves DEF AtOnce, ChangeFines, ChangeRole, PayBail
<1>2. LedgerStays
  BY DEF AtOnce, ChangeFines, ChangeRole, PayBail, ledgerVars, LedgerStays, RoleCommand,
         SetOwner, GiveRole, Revoke, Whitelist, Blacklist
<1>3. CASE Warn(a, t)
  BY <1>1, <1>2, <1>3, RowsInserted DEF Warn, InsertWarning
<1>4. CASE ClearViolations(a, t)
  BY <1>1, <1>2, <1>4, RowsCleared DEF ClearViolations, Clear
<1>5. CASE SetFine(a) \/ AddRestriction(a, t) \/ AddAction(a)
             \/ \E whom \in {t, Everyone} : RemoveRules(a, whom)
  BY <1>1, <1>2, <1>5, RowsStay DEF SetFine, AddRestriction, AddAction, RemoveRules
<1>6. CASE ChangeRole(a, t) \/ PayBail(t)
  BY <1>1, <1>2, <1>6, RowsStay DEF ChangeRole, PayBail
<1> QED
  BY <1>1, <1>2, <1>3, <1>4, <1>5, <1>6 DEF AtOnce, ChangeFines

LEMMA BeginElsewhere ==
  ASSUME DisciplineInv, NEW r \in Requests, NEW t \in Users, NEW a \in Users,
         Message(r, t) \/ Sentence(r, a, t) \/ VerifyBail(r, t)
  PROVE  LedgerStays /\ Unpaying /\ RowsGrow
<1> USE DEF DisciplineInv
<1>1. LedgerStays /\ RowsGrow
  BY RowsStay DEF Message, Sentence, JailCommand, CustomJail, Unjail, WriteMuted,
                  VerifyBail, ledgerVars, disciplineVars, LedgerStays
<1>2. CASE Message(r, t)
  <2>1. PICK record : Start(r, "delete", record)
    BY <1>2 DEF Message
  <2> QED
    BY <1>1, <2>1, StartElsewhere, OtherSteps
<1>3. CASE VerifyBail(r, t)
  <2>1. PICK paid : Start(r, "verify", [kind |-> "bail", user |-> t, paid |-> paid,
                                        amt |-> bail(users[t].muted)])
    BY <1>3 DEF VerifyBail
  <2>2. PICK record : Start(r, "verify", record)
    BY <2>1
  <2> QED
    BY <1>1, <2>2, StartElsewhere, OtherSteps
<1>4. CASE Sentence(r, a, t)
  <2>1. \/ \E record : Start(r, "jail", record) \/ Start(r, "telegram", record)
        \/ UNCHANGED << pc, job >>
    BY <1>4 DEF Sentence, JailCommand, CustomJail, Unjail, WriteMuted
  <2>2. CASE \E record : Start(r, "jail", record) \/ Start(r, "telegram", record)
    BY <1>1, <2>2, StartElsewhere, OtherSteps
  <2> QED
    BY <1>1, <2>1, <2>2, NobodyMoves
<1> QED
  BY <1>2, <1>3, <1>4

(* Handlers that have waited for Telegram, the chain or a price, and the    *)
(* sweep of jails.                                                          *)
LEMMA WaitersElsewhere ==
  ASSUME DisciplineInv, NEW r \in Requests,
         \/ MessageDeleted(r) \/ MuteAnswered(r) \/ ApplyJail(r) \/ TelegramAnswers(r)
         \/ BailVerified(r) \/ Lifted(r) \/ CreateViolation(r) \/ HandleViolation(r)
  PROVE  Calm /\ LedgerStays /\ Unpaying /\ RowsGrow
<1> USE DEF DisciplineInv
<1>1. CASE MessageDeleted(r)
  <2>1. Finish(r) \/ (Continue(r, "price") /\ \E record : job' = [job EXCEPT ![r] = record])
    BY <1>1 DEF MessageDeleted
  <2> QED
    BY <1>1, <2>1, FinishElsewhere, ContinueElsewhere, OtherSteps, RowsStay
       DEF MessageDeleted, Drain, ledgerVars, disciplineVars, LedgerStays, Calm
<1>2. CASE MuteAnswered(r) \/ TelegramAnswers(r)
  BY <1>2, FinishElsewhere, RowsStay DEF MuteAnswered, TelegramAnswers, Drain, ledgerVars,
         LedgerStays, Calm
<1>3. CASE ApplyJail(r)
  BY <1>3, FinishElsewhere, ContinueElsewhere, OtherSteps, RowsStay
     DEF ApplyJail, Drain, ledgerVars,
         LedgerStays, Calm
<1>4. CASE BailVerified(r)
  <2>1. \/ Finish(r)
        \/ Continue(r, "telegram") /\ \E record : job' = [job EXCEPT ![r] = record]
    BY <1>4 DEF BailVerified
  <2> QED
    BY <1>4, <2>1, FinishElsewhere, ContinueElsewhere, OtherSteps, RowsStay
       DEF BailVerified, Drain, ledgerVars,
         LedgerStays, Calm
<1>5. CASE Lifted(r)
  <2>1. Finish(r) \/ (Continue(r, "sweep") /\ UNCHANGED job)
    BY <1>5 DEF Lifted
  <2> QED
    BY <1>5, <2>1, FinishElsewhere, ContinueElsewhere, OtherSteps, RowsStay
       DEF Lifted, Drain, ledgerVars,
         LedgerStays, Calm
<1>6. CASE CreateViolation(r)
  <2>1. RowsGrow
    BY <1>6, InsertRowKeeps, RowsInserted DEF CreateViolation, Tables
  <2>2. Unpaying
    BY <1>6, ContinueElsewhere, OtherSteps DEF CreateViolation
  <2> QED
    BY <1>6, <2>1, <2>2 DEF CreateViolation, Wake, ledgerVars, LedgerStays, Calm
<1>7. CASE HandleViolation(r)
  <2>1. \/ Finish(r)
        \/ \E step \in {"telegram", "mute"} :
             Continue(r, step) /\ \E record : job' = [job EXCEPT ![r] = record]
    BY <1>7 DEF HandleViolation
  <2>2. Unpaying
    BY <2>1, FinishElsewhere, ContinueElsewhere, OtherSteps
  <2>3. r \in ready /\ pc[r] \notin FineSteps
    BY <1>7, OtherSteps DEF HandleViolation, Suspend
  <2> QED
    BY <1>7, <2>2, <2>3, RowsStay DEF HandleViolation, ledgerVars, LedgerStays, Calm
<1> QED
  BY <1>1, <1>2, <1>3, <1>4, <1>5, <1>6, <1>7

LEMMA SweepElsewhere ==
  ASSUME DisciplineInv, NEW r \in Requests, StartSweep(r) \/ NextRelease(r)
  PROVE  Calm /\ LedgerStays /\ Unpaying /\ RowsGrow
<1>1. PICK left : Release(r, left) /\ ready = {}
  BY DEF StartSweep, NextRelease, Drain
<1>2. PICK u \in left :
        /\ pc' = [pc EXCEPT ![r] = "lift"]
        /\ job' = [job EXCEPT ![r] = [kind |-> "sweep", user |-> u, left |-> left \ {u}]]
        /\ UNCHANGED << ledgerVars, violations >>
  BY <1>1 DEF Release
<1>3. Unpaying
  <2>1. PICK record : job' = [job EXCEPT ![r] = record]
    BY <1>2
  <2> QED
    BY <1>2, <2>1, ContinueElsewhere, OtherSteps DEF Continue, DisciplineInv
<1> QED
  BY <1>1, <1>2, <1>3, RowsStay DEF ledgerVars, LedgerStays, Calm

LEMMA ClockElsewhere ==
  ASSUME DisciplineInv, TimePasses \/ CleanExpiredRestrictions
  PROVE  Calm /\ LedgerStays /\ Unpaying /\ RowsGrow
<1>1. CASE TimePasses
  <2>1. ASSUME NEW q \in Requests, pc'[q] \in FineSteps
        PROVE  pc'[q] = pc[q] /\ job'[q] = job[q]
    <3>1. pc[q] \in FineSteps
      BY <1>1, <2>1 DEF TimePasses
    <3>2. job[q].kind = "fines"
      BY <3>1 DEF DisciplineInv, Handlers, Knows
    <3> QED
      BY <1>1, <3>2 DEF TimePasses
  <2>2. RowsGrow
    BY <1>1, RowsGrowOlder DEF DisciplineInv, Tables
  <2> QED
    BY <1>1, <2>1, <2>2 DEF Unpaying, TimePasses, Drain, ledgerVars,
         LedgerStays, Calm
<1>2. CASE CleanExpiredRestrictions
  BY <1>2, NobodyMoves, RowsStay DEF CleanExpiredRestrictions, Drain, ledgerVars,
         LedgerStays, Calm
<1> QED
  BY <1>1, <1>2

------------------------------------------------------------------------------
(* The steps of a payment.                                                  *)

OthersStay(r) == \A q \in Requests \ {r} : pc'[q] = pc[q] /\ job'[q] = job[q]

SameViolations ==
  /\ Known' = Known /\ Amounts' = Amounts
  /\ PaidRows' = PaidRows /\ ClearedRows' = ClearedRows

LEMMA ViolationsUnchanged == UNCHANGED violations => SameViolations
BY DEF SameViolations, Known, Amounts, PaidRows, ClearedRows

LEMMA AloneStays ==
  ASSUME FinesInv, NEW r \in Requests, ~mode.batching, OthersStay(r),
         \A q \in Requests \ {r} : pc[q] \notin FineSteps, PaysAlone(r)'
  PROVE  Alone'
BY DEF Alone, OthersStay, PaysAlone

(* The others: a handler that pays without a batch is in ready by itself.   *)
LEMMA NobodyElsePays ==
  ASSUME FinesInv, NEW r \in Requests, ~mode.batching, ready \subseteq {r}
  PROVE  \A q \in Requests \ {r} : pc[q] \notin FineSteps
BY DEF FinesInv, Alone, PaysAlone

(* A step that neither receives money nor marks a row.                      *)
LEMMA PayerMoves ==
  ASSUME FinesInv, NEW r \in Requests, OthersStay(r),
         UNCHANGED << audit, violations, mode, crashes >>,
         pc[r] # "settle", pc'[r] # "settle", PayerKnows(r)',
         ~mode.batching => ready \subseteq {r} /\ PaysAlone(r)'
  PROVE  FinesInv'
<1>1. SameViolations
  BY ViolationsUnchanged
<1>2. Settling' = Settling
  BY DEF OthersStay, Settling
<1>3. Payers'
  <2>1. ASSUME NEW q \in Requests \ {r} PROVE PayerKnows(q)'
    BY <1>1 DEF FinesInv, Payers, PayerKnows, OthersStay, SameViolations, Worth
  <2> QED
    BY <2>1 DEF Payers
<1>4. Received'
  BY <1>1, <1>2 DEF FinesInv, Received, SameViolations, Worth
<1>5. ~mode.batching => Alone'
  BY AloneStays, NobodyElsePays
<1>6. ~mode.batching /\ crashes = 0 => NoMore'
  BY <1>1, <1>2 DEF FinesInv, NoMore, SameViolations, Worth
<1> QED
  BY <1>3, <1>4, <1>5, <1>6 DEF FinesInv

LEMMA PayAllFinesPays ==
  ASSUME DisciplineInv, FinesInv, NEW r \in Requests, NEW u \in Users,
         ready = {} \/ mode.batching, PayAllFines(r, u), UNCHANGED << mode, crashes >>
  PROVE  FinesInv'
<1>1. PICK rows, amt : rows = Unpaid(u) /\ amt = SumOfFines(rows)
  OBVIOUS
<1>2. /\ pc[r] = "idle" /\ pc' = [pc EXCEPT ![r] = "fineBalance"]
      /\ job' = [job EXCEPT ![r] = [kind |-> "fines", from |-> u, to |-> Treasury,
                                    amt |-> amt, rows |-> rows]]
      /\ UNCHANGED << audit, violations >>
  BY <1>1 DEF PayAllFines, Start, ledgerVars, disciplineVars
<1>3. /\ pc'[r] = "fineBalance" /\ OthersStay(r)
      /\ job'[r].from = u /\ job'[r].to = Treasury
      /\ job'[r].amt = amt /\ job'[r].rows = rows
  BY <1>2 DEF OthersStay, DisciplineInv, Handlers
<1>4. SameViolations
  BY <1>2, ViolationsUnchanged
<1>5. rows \in SUBSET Known
  BY <1>1 DEF Unpaid, ViolationRows, Known
<1>6. amt = Worth(rows)
  BY <1>1, <1>5, SumIsWorth
<1>7. PayerKnows(r)'
  BY <1>3, <1>4, <1>5, <1>6 DEF PayerKnows, SameViolations, Worth
<1>8. ~mode.batching => ready \subseteq {r} /\ PaysAlone(r)'
  BY <1>1, <1>2, <1>3 DEF PayAllFines, Arrive, PaysAlone, Unpaid, ViolationRows, ViolationIds
<1> QED
  BY <1>2, <1>3, <1>7, <1>8, PayerMoves

(* The handler asks for the balance, transfers up to the log, or gives up.  *)
LEMMA PayerGoesOn ==
  ASSUME DisciplineInv, FinesInv, NEW r \in Requests,
         FineBalance(r) \/ (PayFine(r) /\ pc[r] # "record") \/ FineRefused(r),
         UNCHANGED << mode, crashes >>
  PROVE  FinesInv'
<1>1. /\ pc[r] \in FineSteps /\ pc[r] # "settle" /\ r \in ready
      /\ UNCHANGED << audit, violations >>
  <2>1. CASE PayFine(r) /\ pc[r] # "record"
    BY <2>1 DEF PayFine, TransferStep, Tick, FineSteps, TransferSteps, ReadFrom, ReadTo,
                WriteFrom, WriteTo, ledgerVars, disciplineVars
  <2>2. CASE FineBalance(r) \/ FineRefused(r)
    BY <2>2 DEF FineBalance, FineRefused, Tick, Suspend, FineSteps, ledgerVars,
                disciplineVars
  <2> QED
    BY <2>1, <2>2
<1>2. \/ /\ \E step \in FineSteps \ {"settle"} : Continue(r, step)
         /\ UNCHANGED << job, ready >>
      \/ Finish(r)
  <2>1. CASE PayFine(r) /\ pc[r] # "record"
    BY <2>1 DEF PayFine, TransferStep, Tick, FineSteps, TransferSteps, whenRefused
  <2>2. CASE FineBalance(r) \/ FineRefused(r)
    BY <2>2 DEF FineBalance, FineRefused, Tick, FineSteps, TransferSteps
  <2> QED
    BY <2>1, <2>2
<1>3. SameViolations
  BY <1>1, ViolationsUnchanged
<1>4. ~mode.batching => ready = {r} /\ job[r].rows \subseteq Unpaid(job[r].from)
  BY <1>1 DEF FinesInv, Alone, PaysAlone
<1>5. CASE Finish(r)
  <2>1. pc'[r] = "idle" /\ OthersStay(r)
    BY <1>5 DEF Finish, OthersStay, DisciplineInv, Handlers
  <2>2. PayerKnows(r)' /\ PaysAlone(r)'
    BY <2>1, OtherSteps DEF PayerKnows, PaysAlone
  <2> QED
    BY <1>1, <1>4, <2>1, <2>2, PayerMoves
<1>6. CASE ~Finish(r)
  <2>1. PICK step \in FineSteps \ {"settle"} : Continue(r, step)
    BY <1>2, <1>6
  <2>2. pc'[r] = step /\ job' = job /\ ready' = ready /\ OthersStay(r)
    BY <1>2, <1>6, <2>1 DEF Continue, OthersStay, DisciplineInv, Handlers
  <2>3. PayerKnows(r)
    BY DEF FinesInv, Payers
  <2>4. PayerKnows(r)'
    BY <1>1, <1>3, <2>2, <2>3 DEF PayerKnows, SameViolations, Worth
  <2>5. ~mode.batching => PaysAlone(r)'
    BY <1>1, <1>4, <2>2 DEF PaysAlone, Unpaid, ViolationRows, ViolationIds
  <2> QED
    BY <1>1, <1>4, <2>2, <2>4, <2>5, PayerMoves
<1> QED
  BY <1>5, <1>6

(* The entry of the log: the treasury has received what the rows cost.      *)
LEMMA RecordPays ==
  ASSUME DisciplineInv, FinesInv, NEW r \in Requests, PayFine(r), pc[r] = "record",
         UNCHANGED << mode, crashes >>
  PROVE  FinesInv'
<1>1. PICK rows, from, amt :
        rows = job[r].rows /\ from = job[r].from /\ amt = job[r].amt
  OBVIOUS
<1>2. /\ rows \in SUBSET Known /\ job[r].to = Treasury /\ amt = Worth(rows)
      /\ from \in Users
  BY <1>1 DEF FinesInv, Payers, PayerKnows, DisciplineInv, Handlers, Knows, FineSteps,
              TransferSteps
<1>3. PICK f : f = Amounts
  OBVIOUS
<1>4. \A i \in ViolationIds : f[i] \in Nat
  BY <1>3, AmountsFit DEF DisciplineInv, Tables
<1>5. /\ r \in ready /\ ready' = ready /\ job' = job /\ UNCHANGED violations
      /\ pc' = [pc EXCEPT ![r] = "settle"]
      /\ RecordTransfer(r, from, Treasury, amt)
  BY <1>1, <1>2 DEF PayFine, TransferStep, Tick, Continue, disciplineVars
<1>6. pc'[r] = "settle" /\ OthersStay(r)
  BY <1>5 DEF OthersStay, DisciplineInv, Handlers
<1>7. SameViolations
  BY <1>5, ViolationsUnchanged
<1>8. Settling' = Settling \cup rows
  BY <1>1, <1>5, <1>6 DEF OthersStay, Settling
<1>9. rows \in SUBSET ViolationIds /\ amt \in Nat
  BY <1>2, <1>3, <1>4, AmountSums, RowsAreKnown DEF Worth
<1>10. /\ audit' \in [Accounts -> Int]
       /\ audit[Treasury] \in Int /\ audit'[Treasury] = audit[Treasury] + amt
  <2>1. Treasury \in Accounts /\ Treasury # from
    BY <1>2, DisciplineAssumption DEF Accounts
  <2>2. audit \in [Accounts -> Int]
    BY DEF FinesInv, Received
  <2>3. audit' = [a \in Accounts |-> audit[a] - (IF a = from THEN amt ELSE 0)
                                       + (IF a = Treasury THEN amt ELSE 0)]
    BY <1>5 DEF RecordTransfer
  <2> QED
    BY <1>9, <2>1, <2>2, <2>3
<1>11. Payers'
  <2>1. ASSUME NEW q \in Requests PROVE PayerKnows(q)'
    BY <1>2, <1>5, <1>6, <1>7 DEF FinesInv, Payers, PayerKnows, OthersStay,
       SameViolations, Worth, FineSteps, TransferSteps
  <2> QED
    BY <2>1 DEF Payers
<1>12. PICK S : S = PaidRows \cup Settling
  OBVIOUS
<1>13. S \in SUBSET ViolationIds
  BY <1>12, RowsAreKnown DEF FinesInv
<1>14. Received'
  <2>1. PICK T : T = S \cup rows
    OBVIOUS
  <2>2. T = PaidRows' \cup Settling'
    BY <1>7, <1>8, <1>12, <2>1 DEF SameViolations
  <2>3. SumFunctionOnSet(f, T) <= SumFunctionOnSet(f, S) + SumFunctionOnSet(f, rows)
    BY <1>4, <1>9, <1>13, <2>1, AmountsAdd
  <2>4. T \in SUBSET ViolationIds
    BY <1>9, <1>13, <2>1
  <2>5. SumFunctionOnSet(f, S) \in Nat /\ SumFunctionOnSet(f, T) \in Nat
    BY <1>4, <1>13, <2>4, AmountSums
  <2>6. audit[Treasury] >= SumFunctionOnSet(f, S)
    BY <1>3, <1>12 DEF FinesInv, Received, Worth
  <2>7. audit'[Treasury] >= SumFunctionOnSet(f, T)
    BY <1>2, <1>3, <1>9, <1>10, <2>3, <2>5, <2>6 DEF Worth
  <2> QED
    BY <1>3, <1>7, <1>10, <2>2, <2>7 DEF Received, SameViolations, Worth
<1>15. ASSUME ~mode.batching
       PROVE  Alone' /\ (crashes = 0 => NoMore')
  <2>1. ready = {r} /\ rows \subseteq Unpaid(from)
    BY <1>1, <1>5, <1>15 DEF FinesInv, Alone, PaysAlone, FineSteps, TransferSteps
  <2>2. \A q \in Requests \ {r} : pc[q] \notin FineSteps
    BY <1>15, <2>1, NobodyElsePays
  <2>3. PaysAlone(r)'
    BY <1>1, <1>5, <2>1 DEF PaysAlone, Unpaid, ViolationRows, ViolationIds
  <2>4. Alone'
    BY <1>6, <1>15, <2>2, <2>3, AloneStays
  <2>5. ASSUME crashes = 0 PROVE NoMore'
    <3>1. Settling = {}
      BY <2>2 DEF Settling, FineSteps
    <3>2. PICK P, T : P = PaidRows \cup ClearedRows \cup Settling /\ T = P \cup rows
      OBVIOUS
    <3>3. T = PaidRows' \cup ClearedRows' \cup Settling'
      BY <1>7, <1>8, <3>2 DEF SameViolations
    <3>4. P \cap rows = {}
      BY <2>1, <3>1, <3>2 DEF Unpaid, ViolationRows, PaidRows, ClearedRows
    <3>5. P \in SUBSET ViolationIds
      BY <3>1, <3>2, RowsAreKnown
    <3>6. SumFunctionOnSet(f, T) = SumFunctionOnSet(f, P) + SumFunctionOnSet(f, rows)
      BY <1>4, <1>9, <3>2, <3>4, <3>5, AmountsAdd
    <3>7. SumFunctionOnSet(f, P) \in Nat
      BY <1>4, <3>5, AmountSums
    <3>8. audit[Treasury] <= SumFunctionOnSet(f, P)
      BY <1>3, <1>15, <2>5, <3>2 DEF FinesInv, NoMore, Worth
    <3>9. audit'[Treasury] <= SumFunctionOnSet(f, T)
      BY <1>2, <1>3, <1>9, <1>10, <3>6, <3>7, <3>8 DEF Worth
    <3> QED
      BY <1>3, <1>7, <3>3, <3>9 DEF NoMore, SameViolations, Worth
  <2> QED
    BY <2>4, <2>5
<1> QED
  BY <1>11, <1>14, <1>15 DEF FinesInv

(* The UPDATE that marks the rows.                                          *)
LEMMA RowsSettled ==
  ASSUME ViolationsFit, NEW rows, MarkPaid(rows)
  PROVE  /\ Known' = Known /\ \A i \in Known : Amounts'[i] = Amounts[i]
         /\ PaidRows' = PaidRows \cup (rows \cap ViolationRows)
         /\ ClearedRows' = ClearedRows
<1>2. \A i \in ViolationIds :
        violations'[i] = IF i \in rows \cap ViolationRows
                         THEN [violations[i] EXCEPT !.paid = TRUE] ELSE violations[i]
  BY DEF MarkPaid
<1>3. ASSUME NEW i \in Known
      PROVE  /\ violations'[i] # NoViolation
             /\ violations'[i].fine = violations[i].fine
             /\ violations'[i].gone = violations[i].gone
             /\ violations'[i].paid <=> violations[i].paid \/ i \in rows \cap ViolationRows
  <2>1. violations[i] \in ViolationRow
    BY DEF ViolationsFit, Known
  <2>2. LET row == [violations[i] EXCEPT !.paid = TRUE]
        IN  /\ row \in ViolationRow /\ row.fine = violations[i].fine
            /\ row.gone = violations[i].gone /\ row.paid
    BY <2>1 DEF ViolationRow
  <2> QED
    BY <1>2, <2>1, <2>2, ViolationIsThere DEF Known
<1>4. Known' = Known
  BY <1>2, <1>3 DEF Known, ViolationRows, ViolationIds
<1>5. ViolationRows \subseteq Known
  BY DEF ViolationRows, Known
<1>6. PaidRows' = PaidRows \cup (rows \cap ViolationRows)
  BY <1>3, <1>4, <1>5 DEF PaidRows
<1>7. \A i \in Known : Amounts'[i] = Amounts[i]
  BY <1>3, <1>4 DEF Known, Amounts, ViolationIds
<1>8. ClearedRows' = ClearedRows
  BY <1>3, <1>4 DEF ClearedRows
<1> QED
  BY <1>4, <1>6, <1>7, <1>8

LEMMA SettlePays ==
  ASSUME DisciplineInv, DisciplineInv', FinesInv, NEW r \in Requests, Settle(r),
         UNCHANGED << mode, crashes >>
  PROVE  FinesInv'
<1>1. PICK rows : rows = job[r].rows
  OBVIOUS
<1>2. PICK f, g : f = Amounts /\ g = Amounts'
  OBVIOUS
<1>3. \A i \in ViolationIds : f[i] \in Nat /\ g[i] \in Nat
  BY <1>2, AmountsFit DEF DisciplineInv, Tables
<1>4. /\ Known' = Known /\ \A i \in Known : g[i] = f[i]
      /\ PaidRows' = PaidRows \cup (rows \cap ViolationRows)
      /\ ClearedRows' = ClearedRows
  BY <1>1, <1>2, RowsSettled DEF Settle, DisciplineInv, Tables
<1>5. \A S \in SUBSET Known : SumFunctionOnSet(f, S) = SumFunctionOnSet(g, S)
  BY <1>2, <1>4, SameAmounts, RowsAreKnown
<1>6. /\ pc[r] = "settle" /\ r \in ready /\ UNCHANGED audit
      /\ pc'[r] = "idle" /\ OthersStay(r)
  BY DEF Settle, Suspend, Finish, ledgerVars, OthersStay, DisciplineInv, Handlers
<1>7. rows \subseteq Settling /\ Settling \subseteq Known /\ Settling' \subseteq Settling
  <2>1. rows \subseteq Settling /\ Settling' \subseteq Settling
    BY <1>1, <1>6 DEF Settling, OthersStay
  <2> QED
    BY <2>1, RowsAreKnown DEF FinesInv
<1>8. Payers'
  <2>1. ASSUME NEW q \in Requests, pc'[q] \in FineSteps
        PROVE  /\ job'[q].rows \in SUBSET Known
               /\ job'[q].to = Treasury
               /\ job'[q].amt = SumFunctionOnSet(g, job'[q].rows)
    <3>1. pc'[q] = pc[q] /\ job'[q] = job[q]
      BY <1>6, <2>1, OtherSteps DEF OthersStay
    <3>2. /\ job[q].rows \in SUBSET Known
          /\ job[q].to = Treasury
          /\ job[q].amt = SumFunctionOnSet(f, job[q].rows)
      BY <1>2, <2>1, <3>1 DEF FinesInv, Payers, PayerKnows, Worth
    <3> QED
      BY <1>5, <3>1, <3>2
  <2> QED
    BY <1>2, <1>4, <2>1 DEF Payers, PayerKnows, Worth
<1>9. audit[Treasury] \in Int
  BY DisciplineAssumption DEF FinesInv, Received, Accounts
<1>10. Received'
  <2>1. PICK S, T : S = PaidRows \cup Settling /\ T = PaidRows' \cup Settling'
    OBVIOUS
  <2>2. S \in SUBSET Known /\ T \in SUBSET S /\ S \in SUBSET ViolationIds
    BY <1>4, <1>7, <2>1, RowsAreKnown
  <2>3. /\ SumFunctionOnSet(g, S) \in Nat
        /\ SumFunctionOnSet(g, T) \in Nat
        /\ SumFunctionOnSet(g, T) <= SumFunctionOnSet(g, S)
    BY <1>3, <2>2, AmountSums
  <2>4. audit[Treasury] >= SumFunctionOnSet(g, S)
    BY <1>2, <1>5, <2>1, <2>2 DEF FinesInv, Received, Worth
  <2>5. audit'[Treasury] >= SumFunctionOnSet(g, T)
    BY <1>6, <1>9, <2>3, <2>4
  <2> QED
    BY <1>2, <1>6, <2>1, <2>5 DEF FinesInv, Received, Worth
<1>11. ASSUME ~mode.batching
       PROVE  Alone' /\ (crashes = 0 => NoMore')
  <2>1. ready = {r} /\ rows \subseteq Unpaid(job[r].from)
    BY <1>1, <1>6, <1>11 DEF FinesInv, Alone, PaysAlone, FineSteps
  <2>2. \A q \in Requests \ {r} : pc[q] \notin FineSteps
    BY <1>11, <2>1, NobodyElsePays
  <2>3. PaysAlone(r)'
    BY <1>6, OtherSteps DEF PaysAlone
  <2>4. Alone'
    BY <1>6, <1>11, <2>2, <2>3, AloneStays
  <2>5. ASSUME crashes = 0 PROVE NoMore'
    <3>1. Settling = rows
      BY <1>1, <1>6, <2>2 DEF Settling, FineSteps
    <3>2. Settling' = {}
      BY <1>6, <2>2 DEF Settling, FineSteps, OthersStay
    <3>3. rows \subseteq ViolationRows
      BY <2>1 DEF Unpaid
    <3>4. PICK S : S = PaidRows \cup ClearedRows \cup Settling
      OBVIOUS
    <3>5. S = PaidRows' \cup ClearedRows' \cup Settling'
      BY <1>4, <3>1, <3>2, <3>3, <3>4
    <3>6. S \in SUBSET Known
      BY <1>7, <3>4, RowsAreKnown
    <3>7. audit'[Treasury] <= SumFunctionOnSet(g, S)
      BY <1>2, <1>5, <1>6, <1>11, <2>5, <3>4, <3>6 DEF FinesInv, NoMore, Worth
    <3> QED
      BY <1>2, <3>5, <3>7 DEF NoMore, Worth
  <2> QED
    BY <2>4, <2>5
<1> QED
  BY <1>8, <1>10, <1>11 DEF FinesInv, Settle

(* What a kill leaves in the rows: those that are marked were listed by a   *)
(* handler whose payment is in the log.                                     *)
LEMMA CutPays ==
  ASSUME DisciplineInv, FinesInv, Cut
  PROVE  /\ Known \subseteq Known'
         /\ \A i \in Known : Amounts'[i] = Amounts[i]
         /\ PaidRows' \subseteq PaidRows \cup Settling
<1> USE DEF DisciplineInv, Tables
<1>1. CASE UNCHANGED violations
  BY <1>1, RowsStay DEF RowsGrow
<1>2. ASSUME NEW u \in Users, FirstOfTwo(u) PROVE RowsGrow
  <2>1. CASE \E r \in Requests : pc[r] = "price" /\ job[r].user = u /\ InsertRow(r)
    BY <2>1, InsertRowKeeps, RowsInserted
  <2>2. CASE \E a \in Users : InsertWarning(a, u)
    BY <2>2, RowsInserted DEF InsertWarning
  <2>3. CASE ClearRows(u)
    BY <2>3, RowsCleared
  <2> QED
    BY <1>2, <2>1, <2>2, <2>3 DEF FirstOfTwo
<1>3. ASSUME NEW r \in ready, NEW n \in ViolationIds, pc[r] = "settle",
             MarkPaid({i \in job[r].rows : i <= n})
      PROVE  /\ Known' = Known /\ \A i \in Known : Amounts'[i] = Amounts[i]
             /\ PaidRows' \subseteq PaidRows \cup Settling
  <2>1. PICK rows : rows = {i \in job[r].rows : i <= n}
    OBVIOUS
  <2>2. r \in Requests
    BY DEF Handlers, LoopTypeOK
  <2>3. rows \subseteq Settling
    BY <1>3, <2>1, <2>2 DEF Settling
  <2>4. MarkPaid(rows)
    BY <1>3, <2>1
  <2> QED
    BY <2>3, <2>4, RowsSettled
<1> QED
  BY <1>1, <1>2, <1>3 DEF Cut, RowsGrow

(* A crash forgets who was about to mark rows: the log keeps the payment.   *)
LEMMA CrashPays ==
  ASSUME DisciplineInv, DisciplineInv', FinesInv, Crash
  PROVE  FinesInv'
<1>1. /\ UNCHANGED << audit, mode >> /\ crashes' = crashes + 1
      /\ ready' = {} /\ \A q \in Requests : pc'[q] = "idle"
  BY DEF Crash, RequestsCrash, Halt
<1>2. Payers' /\ Alone' /\ Settling' = {}
  BY <1>1, OtherSteps DEF Payers, PayerKnows, Alone, PaysAlone, Settling
<1>3. crashes' \in Nat /\ crashes' # 0
  BY <1>1 DEF FinesInv
<1>4. Received'
  <2>1. PICK f, g : f = Amounts /\ g = Amounts'
    OBVIOUS
  <2>2. \A i \in ViolationIds : f[i] \in Nat /\ g[i] \in Nat
    BY <2>1, AmountsFit DEF DisciplineInv, Tables
  <2>3. PICK S, T : S = PaidRows \cup Settling /\ T = PaidRows'
    OBVIOUS
  <2>4. /\ \A i \in Known : g[i] = f[i]
        /\ T \in SUBSET S
    BY <2>1, <2>3, CutPays DEF Crash
  <2>5. S \in SUBSET Known /\ S \in SUBSET ViolationIds /\ T \in SUBSET ViolationIds
    BY <2>3, RowsAreKnown DEF FinesInv
  <2>6. SumFunctionOnSet(f, S) = SumFunctionOnSet(g, S)
    BY <2>4, <2>5, SameAmounts
  <2>7. /\ SumFunctionOnSet(g, S) \in Nat
        /\ SumFunctionOnSet(g, T) \in Nat
        /\ SumFunctionOnSet(g, T) <= SumFunctionOnSet(g, S)
    BY <2>2, <2>4, <2>5, AmountSums
  <2>8. audit[Treasury] \in Int /\ audit[Treasury] >= SumFunctionOnSet(g, S)
    BY <2>1, <2>3, <2>6, DisciplineAssumption DEF FinesInv, Received, Worth, Accounts
  <2>9. T = PaidRows' \cup Settling'
    BY <1>2, <2>3
  <2>10. audit'[Treasury] >= SumFunctionOnSet(g, T)
    BY <1>1, <2>7, <2>8
  <2> QED
    BY <1>1, <2>1, <2>9, <2>10 DEF FinesInv, Received, Worth
<1> QED
  BY <1>2, <1>3, <1>4 DEF FinesInv

------------------------------------------------------------------------------
(* All of the fines.                                                        *)

LEMMA FinesStart == Init => FinesInv
<1> SUFFICES ASSUME Init PROVE FinesInv
  OBVIOUS
<1>1. \A r \in Requests : pc[r] = "idle"
  BY DEF Init, RequestsInit
<1>2. Payers /\ Alone /\ Settling = {}
  BY <1>1, OtherSteps DEF Payers, PayerKnows, Alone, PaysAlone, Settling
<1>3. PaidRows = {} /\ ClearedRows = {}
  BY DEF Init, PaidRows, ClearedRows, Known
<1>4. Worth({}) = 0
  BY SumOfNothing DEF Worth
<1>5. audit \in [Accounts -> Int] /\ audit[Treasury] = 0 /\ crashes = 0
  BY DisciplineAssumption DEF Init, Accounts
<1>6. PaidRows \cup Settling = {} /\ PaidRows \cup ClearedRows \cup Settling = {}
  BY <1>2, <1>3
<1>7. Received /\ NoMore
  BY <1>4, <1>5, <1>6 DEF Received, NoMore
<1> QED
  BY <1>2, <1>5, <1>7 DEF FinesInv

LEMMA FinesStep == DisciplineInv /\ DisciplineInv' /\ FinesInv /\ [Next]_vars => FinesInv'
<1> SUFFICES ASSUME DisciplineInv, DisciplineInv', FinesInv, [Next]_vars
             PROVE  FinesInv'
  OBVIOUS
<1>1. ASSUME NEW r \in Requests, ready = {} \/ mode.batching, Begin(r),
             UNCHANGED << mode, crashes >>
      PROVE  FinesInv'
  <2>1. PICK a, t \in Users :
          \/ AtOnce(a, t) \/ ChangeFines(a, t) \/ ChangeRole(a, t) \/ PayBail(t)
          \/ Message(r, t) \/ Sentence(r, a, t) \/ VerifyBail(r, t)
          \/ PayAllFines(r, t)
    BY <1>1 DEF Begin
  <2>2. CASE AtOnce(a, t) \/ ChangeFines(a, t) \/ ChangeRole(a, t) \/ PayBail(t)
    BY <1>1, <2>2, AtOnceElsewhere, CalmMeansNobody, ElsewhereKeeps DEF Elsewhere, Calm
  <2>3. CASE Message(r, t) \/ Sentence(r, a, t) \/ VerifyBail(r, t)
    BY <1>1, <2>3, BeginElsewhere, CalmMeansNobody, ElsewhereKeeps DEF Elsewhere, Calm
  <2>4. CASE PayAllFines(r, t)
    BY <1>1, <2>4, PayAllFinesPays
  <2> QED
    BY <2>1, <2>2, <2>3, <2>4
<1>2. ASSUME NEW r \in Requests, Proceed(r), UNCHANGED << mode, crashes >>
      PROVE  FinesInv'
  <2>1. CASE \/ MessageDeleted(r) \/ MuteAnswered(r) \/ ApplyJail(r) \/ TelegramAnswers(r)
             \/ BailVerified(r) \/ Lifted(r) \/ CreateViolation(r) \/ HandleViolation(r)
    BY <1>2, <2>1, WaitersElsewhere, CalmMeansNobody, ElsewhereKeeps DEF Elsewhere
  <2>2. CASE NextRelease(r)
    BY <1>2, <2>2, SweepElsewhere, CalmMeansNobody, ElsewhereKeeps DEF Elsewhere
  <2>3. CASE FineBalance(r) \/ (PayFine(r) /\ pc[r] # "record") \/ FineRefused(r)
    BY <1>2, <2>3, PayerGoesOn
  <2>4. CASE PayFine(r) /\ pc[r] = "record"
    BY <1>2, <2>4, RecordPays
  <2>5. CASE Settle(r)
    BY <1>2, <2>5, SettlePays
  <2> QED
    BY <1>2, <2>1, <2>2, <2>3, <2>4, <2>5 DEF Proceed
<1>3. ASSUME NEW r \in Requests, Sweep(r), UNCHANGED << mode, crashes >>
      PROVE  FinesInv'
  BY <1>3, SweepElsewhere, CalmMeansNobody, ElsewhereKeeps DEF Elsewhere, Sweep
<1>4. CASE Clock /\ UNCHANGED << mode, crashes >>
  BY <1>4, ClockElsewhere, CalmMeansNobody, ElsewhereKeeps DEF Elsewhere, Clock
<1>5. CASE Crash
  BY <1>5, CrashPays
<1>6. CASE UNCHANGED vars
  BY <1>6, ViolationsUnchanged
     DEF vars, loopVars, ledgerVars, disciplineVars, FinesInv, Payers, PayerKnows,
         Received, Alone, PaysAlone, NoMore, SameViolations, Settling, Worth, Unpaid,
         ViolationRows, ViolationIds
<1> QED
  BY <1>1, <1>2, <1>3, <1>4, <1>5, <1>6 DEF Next, kept

LEMMA FinesInvariant == Spec => []FinesInv
<1>1. Spec => []DisciplineInv
  BY DisciplineInvariant
<1> QED
  BY <1>1, FinesStart, FinesStep, PTL DEF Spec

------------------------------------------------------------------------------
(* The balance of the treasury, where updates do not come in batches: it is *)
(* ahead of the log by the payment whose entry comes next, and after a      *)
(* crash by those whose entry never came.                                   *)

Ahead == bal[Treasury] - (Funds[Treasury] + audit[Treasury])

Backed ==
  /\ LedgerTypeOK
  /\ Ahead >= 0
  /\ \A r \in Requests : pc[r] = "record" => Ahead >= job[r].amt
  /\ \A r \in Requests : pc[r] \in {"writeFrom", "writeTo"} => snap[r].to = bal[Treasury]
  /\ crashes = 0 => \/ Ahead = 0
                    \/ \E r \in Requests : pc[r] = "record" /\ Ahead = job[r].amt

BackedInv == ~mode.batching => Backed

(* Where a handler reads, or is about to write, the treasury.               *)
Moving == {"writeFrom", "writeTo", "record"}

LEMMA TreasuryIsNoUser ==
  /\ Treasury \in Accounts /\ \A u \in Users : u \in Accounts /\ u # Treasury
  /\ Funds[Treasury] \in Nat
BY DisciplineAssumption DEF Accounts

LEMMA LedgerStaysFit ==
  LedgerTypeOK /\ LedgerStays => LedgerTypeOK' /\ bal'[Treasury] = bal[Treasury]
<1> SUFFICES ASSUME LedgerTypeOK, LedgerStays
             PROVE  LedgerTypeOK' /\ bal'[Treasury] = bal[Treasury]
  OBVIOUS
<1>1. CASE UNCHANGED bal
  BY <1>1 DEF LedgerTypeOK, LedgerStays
<1>2. CASE \E a \in Users : bal' = [bal EXCEPT ![a] = 0]
  BY <1>2, TreasuryIsNoUser DEF LedgerTypeOK, LedgerStays
<1> QED
  BY <1>1, <1>2 DEF LedgerStays

(* The treasury and its log stay, and nobody moves money before or after.   *)
LEMMA BackedStays ==
  ASSUME BackedInv, LedgerStays, UNCHANGED << mode, crashes >>,
         ~mode.batching =>
           \A q \in Requests : pc[q] \notin Moving /\ pc'[q] \notin Moving
  PROVE  BackedInv'
<1> SUFFICES ASSUME ~mode.batching PROVE Backed'
  BY DEF BackedInv
<1>1. LedgerTypeOK' /\ Ahead' = Ahead
  BY LedgerStaysFit DEF BackedInv, Backed, Ahead, LedgerStays
<1> QED
  BY <1>1 DEF BackedInv, Backed, Moving

LEMMA BackedElsewhere ==
  ASSUME BackedInv, Elsewhere
  PROVE  BackedInv'
<1>1. Moving \subseteq FineSteps
  BY DEF Moving, FineSteps, TransferSteps
<1> QED
  BY <1>1, BackedStays DEF Elsewhere, NobodyPays, Unpaying

(* A payer that asks, gives up or marks its rows.                           *)
LEMMA BackedWaiting ==
  ASSUME DisciplineInv, FinesInv, BackedInv, NEW r \in Requests,
         ~mode.batching => ready \subseteq {r},
         pc[r] \notin Moving, OthersStay(r), pc'[r] \notin Moving,
         UNCHANGED << ledgerVars, mode, crashes >>
  PROVE  BackedInv'
<1>1. LedgerStays
  BY DEF LedgerStays, ledgerVars
<1>2. Moving \subseteq FineSteps
  BY DEF Moving, FineSteps, TransferSteps
<1> QED
  BY <1>1, <1>2, BackedStays, NobodyElsePays DEF OthersStay

(* One step of a payer's transfer; the others do not pay.                   *)
LEMMA BackedTransfer ==
  ASSUME DisciplineInv, FinesInv, BackedInv, NEW r \in Requests, PayFine(r),
         UNCHANGED << mode, crashes >>
  PROVE  BackedInv'
<1> SUFFICES ASSUME ~mode.batching PROVE Backed'
  BY DEF BackedInv
<1>1. PICK from, amt, ours : from = job[r].from /\ amt = job[r].amt /\ ours = bal[Treasury]
  OBVIOUS
<1>2. /\ r \in ready /\ UNCHANGED job
      /\ TransferStep(r, "settle", whenRefused)
  BY DEF PayFine, TransferStep, Tick
<1>3. pc[r] \in TransferSteps /\ pc[r] \in FineSteps
  BY <1>2 DEF TransferStep, TransferSteps, FineSteps
<1>4. ready = {r}
  BY <1>3 DEF FinesInv, Alone, PaysAlone
<1>5. \A q \in Requests \ {r} : pc[q] \notin Moving
  BY <1>4, NobodyElsePays DEF Moving, FineSteps, TransferSteps
<1>6. from \in Users /\ job[r].to = Treasury /\ amt \in Nat
  <2>1. PICK f : f = Amounts
    OBVIOUS
  <2>2. \A i \in ViolationIds : f[i] \in Nat
    BY <2>1, AmountsFit DEF DisciplineInv, Tables
  <2>3. job[r].rows \in SUBSET ViolationIds /\ amt = SumFunctionOnSet(f, job[r].rows)
    BY <1>1, <1>3, <2>1, RowsAreKnown DEF FinesInv, Payers, PayerKnows, Worth
  <2>4. amt \in Nat
    BY <2>2, <2>3, AmountSums
  <2> QED
    BY <1>1, <1>3, <2>4 DEF FinesInv, Payers, PayerKnows, DisciplineInv, Handlers, Knows
<1>7. from # Treasury /\ from \in Accounts /\ Treasury \in Accounts
  BY <1>6, TreasuryIsNoUser
<1>8. Backed /\ LedgerTypeOK /\ ours \in Int /\ audit[Treasury] \in Int
      /\ Funds[Treasury] \in Nat
  BY <1>1, <1>7, TreasuryIsNoUser DEF BackedInv, Backed, LedgerTypeOK
<1>9. \A q \in Requests \ {r} : pc'[q] = pc[q]
  BY <1>2 DEF TransferStep, Continue, DisciplineInv, Handlers
<1>10. \A q \in Requests \ {r} : pc'[q] \notin Moving
  BY <1>5, <1>9
<1>11. pc[r] \in Moving => pc[r] = "record" \/ snap[r].to = ours
  BY <1>1, <1>8 DEF Backed, Moving
<1>12. pc[r] # "record" /\ crashes = 0 => Ahead = 0
  BY <1>5, <1>8 DEF Backed, Moving
<1>13. DOMAIN pc = Requests
  BY DEF DisciplineInv, Handlers
<1>14. ASSUME LedgerTypeOK', bal'[Treasury] = ours, audit'[Treasury] = audit[Treasury],
              pc[r] # "record", pc'[r] # "record",
              pc'[r] \in {"writeFrom", "writeTo"} => snap'[r].to = ours
       PROVE  Backed'
  <2>1. Ahead' = Ahead
    BY <1>1, <1>14 DEF Ahead
  <2>2. \A q \in Requests : pc'[q] # "record"
    BY <1>10, <1>14 DEF Moving
  <2>3. \A q \in Requests : pc'[q] \in {"writeFrom", "writeTo"} => snap'[q].to = bal'[Treasury]
    BY <1>10, <1>14 DEF Moving
  <2>4. crashes' = 0 => Ahead' = 0
    BY <1>12, <1>14, <2>1
  <2> QED
    BY <1>8, <1>14, <2>1, <2>2, <2>3, <2>4 DEF Backed
<1>15. CASE pc[r] = "readFrom"
  <2>1. /\ UNCHANGED << bal, audit >>
        /\ UNCHANGED snap \/ snap' = [snap EXCEPT ![r].from = bal[from]]
        /\ pc' = [pc EXCEPT ![r] = "readTo"] \/ pc' = [pc EXCEPT ![r] = whenRefused]
    BY <1>1, <1>2, <1>15 DEF TransferStep, Continue, ReadFrom, ledgerVars
  <2>2. LedgerTypeOK'
    BY <1>7, <1>8, <2>1 DEF LedgerTypeOK
  <2>3. pc'[r] \notin Moving
    BY <1>13, <2>1 DEF Moving, whenRefused
  <2> QED
    BY <1>1, <1>14, <1>15, <2>1, <2>2, <2>3 DEF Moving
<1>16. CASE pc[r] = "readTo"
  <2>1. /\ UNCHANGED << bal, audit >>
        /\ snap' = [snap EXCEPT ![r].to = ours]
        /\ pc' = [pc EXCEPT ![r] = "writeFrom"]
    BY <1>1, <1>2, <1>6, <1>16 DEF TransferStep, Continue, ReadTo
  <2>2. LedgerTypeOK' /\ snap'[r].to = ours
    BY <1>8, <2>1 DEF LedgerTypeOK
  <2> QED
    BY <1>1, <1>13, <1>14, <1>16, <2>1, <2>2
<1>17. CASE pc[r] = "writeFrom"
  <2>1. /\ UNCHANGED << audit, snap >>
        /\ bal' = [bal EXCEPT ![from] = snap[r].from - amt]
        /\ pc' = [pc EXCEPT ![r] = "writeTo"]
    BY <1>1, <1>2, <1>17 DEF TransferStep, Continue, WriteFrom, Subtract
  <2>2. LedgerTypeOK' /\ bal'[Treasury] = ours
    BY <1>1, <1>6, <1>7, <1>8, <2>1 DEF LedgerTypeOK
  <2> QED
    BY <1>11, <1>13, <1>14, <1>17, <2>1, <2>2 DEF Moving
<1>18. CASE pc[r] = "writeTo"
  <2>1. /\ UNCHANGED << audit, snap >>
        /\ bal' = [bal EXCEPT ![Treasury] = snap[r].to + amt]
        /\ pc' = [pc EXCEPT ![r] = "record"]
    BY <1>1, <1>2, <1>6, <1>18 DEF TransferStep, Continue, WriteTo, Add
  <2>2. snap[r].to = ours
    BY <1>11, <1>18 DEF Moving
  <2>3. LedgerTypeOK' /\ bal'[Treasury] = ours + amt
    BY <1>6, <1>7, <1>8, <2>1, <2>2 DEF LedgerTypeOK
  <2>4. Ahead' = Ahead + amt /\ Ahead \in Int /\ Ahead >= 0
    BY <1>1, <1>6, <1>8, <2>1, <2>3 DEF Ahead, Backed
  <2>5. \A q \in Requests : pc'[q] \notin {"writeFrom", "writeTo"}
    BY <1>10, <1>13, <2>1 DEF Moving
  <2>6. \A q \in Requests : pc'[q] = "record" => Ahead' >= job'[q].amt
    BY <1>1, <1>2, <1>6, <1>10, <2>4 DEF Moving
  <2>7. crashes' = 0 => pc'[r] = "record" /\ Ahead' = job'[r].amt
    BY <1>1, <1>2, <1>6, <1>12, <1>13, <1>18, <2>1, <2>4
  <2> QED
    BY <1>6, <2>3, <2>4, <2>5, <2>6, <2>7 DEF Backed
<1>19. CASE pc[r] = "record"
  <2>1. /\ UNCHANGED bal
        /\ snap' = [snap EXCEPT ![r] = NoSnap]
        /\ audit' = [a \in Accounts |-> audit[a] - (IF a = from THEN amt ELSE 0)
                                             + (IF a = Treasury THEN amt ELSE 0)]
        /\ pc' = [pc EXCEPT ![r] = "settle"]
    BY <1>1, <1>2, <1>6, <1>19 DEF TransferStep, Continue, RecordTransfer
  <2>2. LedgerTypeOK'
    BY <1>6, <1>8, <2>1 DEF LedgerTypeOK, NoSnap
  <2>3. audit'[Treasury] = audit[Treasury] + amt
    BY <1>6, <1>7, <1>8, <2>1
  <2>4. Ahead' = Ahead - amt /\ Ahead \in Int
    BY <1>1, <1>6, <1>8, <2>1, <2>3 DEF Ahead
  <2>5. Ahead >= amt
    BY <1>1, <1>8, <1>19 DEF Backed
  <2>6. crashes = 0 => Ahead = 0 \/ Ahead = amt
    BY <1>1, <1>5, <1>8 DEF Backed, Moving
  <2>7. \A q \in Requests : pc'[q] \notin Moving
    BY <1>10, <1>13, <2>1 DEF Moving
  <2>8. crashes' = 0 => Ahead' = 0
    BY <1>6, <2>4, <2>5, <2>6
  <2>9. Ahead' >= 0
    BY <1>6, <2>4, <2>5
  <2> QED
    BY <2>2, <2>7, <2>8, <2>9 DEF Backed, Moving
<1> QED
  BY <1>3, <1>15, <1>16, <1>17, <1>18, <1>19 DEF TransferSteps

LEMMA BackedCrash ==
  ASSUME BackedInv, crashes \in Nat, Crash
  PROVE  BackedInv'
<1> SUFFICES ASSUME ~mode.batching PROVE Backed'
  BY DEF BackedInv, Crash
<1>1. /\ UNCHANGED << bal, audit >> /\ snap' = [r \in Requests |-> NoSnap]
      /\ \A q \in Requests : pc'[q] = "idle"
      /\ crashes' # 0
  BY DEF Crash, RequestsCrash
<1>2. LedgerTypeOK' /\ Ahead' = Ahead
  BY <1>1 DEF BackedInv, Backed, LedgerTypeOK, NoSnap, Ahead
<1> QED
  BY <1>1, <1>2 DEF BackedInv, Backed

LEMMA BackedStarts == Init => BackedInv
<1> SUFFICES ASSUME Init PROVE Backed
  BY DEF BackedInv
<1>1. /\ bal = Funds /\ audit = [a \in Accounts |-> 0]
      /\ snap = [r \in Requests |-> NoSnap] /\ \A r \in Requests : pc[r] = "idle"
  BY DEF Init, RequestsInit
<1>2. LedgerTypeOK
  BY <1>1, DisciplineAssumption DEF LedgerTypeOK, NoSnap
<1>3. Ahead = 0
  BY <1>1, TreasuryIsNoUser DEF Ahead
<1> QED
  BY <1>1, <1>2, <1>3 DEF Backed

LEMMA BackedStep == DisciplineInv /\ FinesInv /\ BackedInv /\ [Next]_vars => BackedInv'
<1> SUFFICES ASSUME DisciplineInv, FinesInv, BackedInv, [Next]_vars
             PROVE  BackedInv'
  OBVIOUS
<1>1. ASSUME NEW r \in Requests, ready = {} \/ mode.batching, Begin(r),
             UNCHANGED << mode, crashes >>
      PROVE  BackedInv'
  <2>1. PICK a, t \in Users :
          \/ AtOnce(a, t) \/ ChangeFines(a, t) \/ ChangeRole(a, t) \/ PayBail(t)
          \/ Message(r, t) \/ Sentence(r, a, t) \/ VerifyBail(r, t)
          \/ PayAllFines(r, t)
    BY <1>1 DEF Begin
  <2>2. CASE AtOnce(a, t) \/ ChangeFines(a, t) \/ ChangeRole(a, t) \/ PayBail(t)
    BY <1>1, <2>2, AtOnceElsewhere, CalmMeansNobody, BackedElsewhere DEF Elsewhere, Calm
  <2>3. CASE Message(r, t) \/ Sentence(r, a, t) \/ VerifyBail(r, t)
    BY <1>1, <2>3, BeginElsewhere, CalmMeansNobody, BackedElsewhere DEF Elsewhere, Calm
  <2>4. CASE PayAllFines(r, t)
    <3>1. PICK record : Start(r, "fineBalance", record)
      BY <2>4 DEF PayAllFines
    <3>2. pc[r] = "idle" /\ pc'[r] = "fineBalance" /\ OthersStay(r)
      BY <3>1 DEF Start, OthersStay, DisciplineInv, Handlers
    <3>3. ~mode.batching => ready \subseteq {r}
      BY <1>1
    <3> QED
      BY <1>1, <2>4, <3>2, <3>3, BackedWaiting DEF PayAllFines, Moving
  <2> QED
    BY <2>1, <2>2, <2>3, <2>4
<1>2. ASSUME NEW r \in Requests, Proceed(r), UNCHANGED << mode, crashes >>
      PROVE  BackedInv'
  <2>1. CASE \/ MessageDeleted(r) \/ MuteAnswered(r) \/ ApplyJail(r) \/ TelegramAnswers(r)
             \/ BailVerified(r) \/ Lifted(r) \/ CreateViolation(r) \/ HandleViolation(r)
    BY <1>2, <2>1, WaitersElsewhere, CalmMeansNobody, BackedElsewhere DEF Elsewhere
  <2>2. CASE NextRelease(r)
    BY <1>2, <2>2, SweepElsewhere, CalmMeansNobody, BackedElsewhere DEF Elsewhere
  <2>3. CASE PayFine(r)
    BY <1>2, <2>3, BackedTransfer
  <2>4. CASE FineBalance(r) \/ Settle(r) \/ FineRefused(r)
    <3>1. /\ pc[r] \in FineSteps /\ pc[r] \notin Moving /\ r \in ready
          /\ UNCHANGED ledgerVars
      BY <2>4 DEF FineBalance, Settle, FineRefused, Tick, Suspend, FineSteps, Moving
    <3>2. ~mode.batching => ready \subseteq {r}
      BY <3>1 DEF FinesInv, Alone, PaysAlone
    <3>3. Finish(r) \/ (Continue(r, "readFrom") /\ UNCHANGED job)
      BY <2>4 DEF FineBalance, Settle, FineRefused
    <3>4. OthersStay(r) /\ pc'[r] \notin Moving
      BY <3>3 DEF Finish, Continue, OthersStay, Moving, DisciplineInv, Handlers
    <3> QED
      BY <1>2, <3>1, <3>2, <3>4, BackedWaiting
  <2> QED
    BY <1>2, <2>1, <2>2, <2>3, <2>4 DEF Proceed
<1>3. ASSUME NEW r \in Requests, Sweep(r), UNCHANGED << mode, crashes >>
      PROVE  BackedInv'
  BY <1>3, SweepElsewhere, CalmMeansNobody, BackedElsewhere DEF Elsewhere, Sweep
<1>4. CASE Clock /\ UNCHANGED << mode, crashes >>
  BY <1>4, ClockElsewhere, CalmMeansNobody, BackedElsewhere DEF Elsewhere, Clock
<1>5. CASE Crash
  BY <1>5, BackedCrash DEF FinesInv
<1>6. CASE UNCHANGED vars
  BY <1>6 DEF vars, ledgerVars, BackedInv, Backed, LedgerTypeOK, Ahead
<1> QED
  BY <1>1, <1>2, <1>3, <1>4, <1>5, <1>6 DEF Next, kept

LEMMA BackedInvariant == Spec => []BackedInv
<1>1. Spec => []DisciplineInv /\ []FinesInv
  BY DisciplineInvariant, FinesInvariant
<1> QED
  BY <1>1, BackedStarts, BackedStep, PTL DEF Spec

(* A fine is marked paid only for a payment that is in the log, in any      *)
(* interleaving of /payallfines of a batch with one another, with cleared   *)
(* fines and changed prices, and over crashes at any moment.  Where nothing *)
(* is batched the treasury has the money as well, and where nothing crashed *)
(* either it has received no more than that (handlePayAllFines in           *)
(* commands/payment.ts, transferBetweenUsers in services/ledgerService.ts). *)
THEOREM FinesAreSettled == Spec => []FinesSettled
<1>1. DisciplineInv /\ FinesInv /\ BackedInv => FinesSettled
  <2> SUFFICES ASSUME DisciplineInv, FinesInv, BackedInv PROVE FinesSettled
    OBVIOUS
  <2>1. PICK f : f = Amounts
    OBVIOUS
  <2>2. \A i \in ViolationIds : f[i] \in Nat
    BY <2>1, AmountsFit DEF DisciplineInv, Tables
  <2>3. /\ {i \in ViolationIds : violations[i] # NoViolation /\ violations[i].paid} = PaidRows
        /\ {i \in ViolationIds : violations[i] # NoViolation /\ violations[i].gone} = ClearedRows
    BY DEF PaidRows, ClearedRows, Known
  <2>4. audit[Treasury] \in Int
    BY DisciplineAssumption DEF FinesInv, Received, Accounts
  <2>5. SumOfFines(PaidRows) \in Nat /\ audit[Treasury] >= SumOfFines(PaidRows)
    <3>1. PICK S, T : S = PaidRows \cup Settling /\ T = PaidRows
      OBVIOUS
    <3>2. S \in SUBSET ViolationIds /\ T \in SUBSET S /\ T \in SUBSET Known
      BY <3>1, RowsAreKnown DEF FinesInv
    <3>3. /\ SumFunctionOnSet(f, S) \in Nat
          /\ SumFunctionOnSet(f, T) \in Nat
          /\ SumFunctionOnSet(f, T) <= SumFunctionOnSet(f, S)
      BY <2>2, <3>2, AmountSums
    <3>4. audit[Treasury] >= SumFunctionOnSet(f, S)
      BY <2>1, <3>1 DEF FinesInv, Received, Worth
    <3>5. SumOfFines(T) = SumFunctionOnSet(f, T)
      BY <2>1, <3>2, SumIsWorth DEF Worth
    <3> QED
      BY <2>4, <3>1, <3>3, <3>4, <3>5
  <2>6. ~mode.batching => /\ bal[Treasury] \in Int /\ Funds[Treasury] \in Nat
                          /\ bal[Treasury] - Funds[Treasury] >= audit[Treasury]
    BY <2>4, TreasuryIsNoUser DEF BackedInv, Backed, LedgerTypeOK, Ahead
  <2>7. ~mode.batching => bal[Treasury] - Funds[Treasury] >= SumOfFines(PaidRows)
    BY <2>4, <2>5, <2>6
  <2>8. ASSUME ready = {}, ~mode.batching, crashes = 0
        PROVE  bal[Treasury] - Funds[Treasury] <= SumOfFines(PaidRows \cup ClearedRows)
    <3>1. \A q \in Requests : pc[q] \notin FineSteps
      BY <2>8 DEF FinesInv, Alone, PaysAlone
    <3>2. Settling = {}
      BY <3>1 DEF Settling, FineSteps
    <3>3. PICK S : S = PaidRows \cup ClearedRows
      OBVIOUS
    <3>4. S = PaidRows \cup ClearedRows \cup Settling /\ S \in SUBSET Known
      BY <3>2, <3>3, RowsAreKnown
    <3>5. audit[Treasury] <= SumOfFines(S)
      BY <2>8, <3>4, SumIsWorth DEF FinesInv, NoMore
    <3>6. Ahead = 0
      BY <2>8, <3>1 DEF BackedInv, Backed, FineSteps, TransferSteps
    <3>7. bal[Treasury] - Funds[Treasury] = audit[Treasury]
      BY <2>4, <2>6, <2>8, <3>6 DEF Ahead
    <3> QED
      BY <3>3, <3>5, <3>7
  <2> QED
    BY <2>3, <2>5, <2>7, <2>8 DEF FinesSettled
<1> QED
  BY <1>1, DisciplineInvariant, FinesInvariant, BackedInvariant, PTL

=============================================================================
