------------------------------ MODULE Discipline ------------------------------
(***************************************************************************)
(* Who may speak: the message filter, violations and fines, jail and bail, *)
(* and the commands of admins.  middleware/messageFilter.ts, the services  *)
(* restrictionService, violationService, jailService and priceService, and *)
(* commands/moderation.ts, jail.ts, payment.ts, fineConfig.ts,             *)
(* handlers/restrictions.ts and actions.ts.                                *)
(*                                                                         *)
(* Each await of Telegram, of the chain or of a price ends a step; a price *)
(* that is known takes no I/O, which is the behaviour in which nothing     *)
(* happens meanwhile.  Only /payallfines interleaves inside a drain.  The  *)
(* process may be killed between any two statements of a drain.            *)
(*                                                                         *)
(* Times are relative: what is left until a moment, 0 once it has passed.  *)
(* Telegram does at some time during a call what the call asks, or refuses *)
(* it; it happens here when the answer arrives.  One group, the configured *)
(* one; the price of JUNO is fixed.                                        *)
(***************************************************************************)
EXTENDS Transfer, Functions

CONSTANTS
  Treasury,                \* SYSTEM_USER_IDS.BOT_TREASURY
  ConfigOwners,            \* OWNER_ID of the environment
  Everyone,                \* whom a global restriction is about
  Kinds,                   \* restriction types
  Threshold,               \* violations in the window that jail (5)
  Window,                  \* the window of recent violations (60 minutes)
  MuteTime, JailTime, AutoTime,   \* 30 minutes, 1 hour, 2 days
  MinutesTyped,            \* what an admin writes after /jail
  Rate, Minimum,           \* jail_per_minute and jail_minimum
  Fines,                   \* the amounts a violation may cost
  MaxViolations,           \* bound on the rows of violations
  Modes,                   \* the modes of this instance
  Rules0, Funds            \* what an earlier run of the bot has left

Forever == -1              \* restricted_until IS NULL

RuleRow ==
  [whom: Users \cup {Everyone}, kind: Kinds, severity: {"delete", "mute", "jail"},
   left: {Forever, 0, 1}]

ASSUME DisciplineAssumption ==
  /\ Treasury \in SystemAccounts /\ Users \cap SystemAccounts = {}
  /\ ConfigOwners \subseteq Users
  /\ Everyone \notin Users
  /\ {Threshold, Window, MuteTime, JailTime, AutoTime, Rate, Minimum}
       \subseteq Nat \ {0}
  /\ MuteTime <= AutoTime /\ JailTime <= AutoTime
  /\ MinutesTyped \subseteq Int
  /\ Fines \subseteq Nat /\ Fines # {}
  /\ MaxViolations \in Nat
  /\ Modes \subseteq [features: SUBSET {"roles", "filter", "jails", "fines"},
                      roles: [Users -> {"pleb", "elevated", "admin", "owner"}],
                      batching: BOOLEAN, maxStarts: Nat, maxCrashes: Nat]
  /\ Rules0 \subseteq SUBSET RuleRow
  /\ Funds \in [Accounts -> Nat]

VARIABLES
  users,                   \* the table users
  tg,                      \* Telegram: how long a user is still restricted
  rules,                   \* user_restrictions and global_restrictions
  violations,              \* the table violations
  fine,                    \* fine_config: what a violation costs
  quotes,                  \* history: bails quoted, and sent, in this jail
  payments,                \* transactions to the treasury, by amount
  torn,                    \* history: whose violations a kill cut from the counter
  mode,                    \* what is used in this behaviour, see Community
  starts,                  \* handlers and commands started so far
  crashes                  \* crashes so far

INSTANCE Roles

disciplineVars == << users, tg, rules, violations, fine, quotes, payments >>

ViolationIds == 1 .. MaxViolations

NoViolation == [kind |-> "none"]

Less(left) == IF left > 0 THEN left - 1 ELSE left

DisciplineSteps ==
  {"idle", "delete", "price", "penalty", "mute", "jail", "telegram", "lift", "sweep",
   "verify", "fineBalance", "settle", "fineRefused"} \cup TransferSteps

Rule(whom, kind, severity, left) ==
  [whom |-> whom, kind |-> kind, severity |-> severity, left |-> left]

(* "gone" and its amount are history of a row that was deleted.             *)
Violation(u, kind, amount) ==
  [user |-> u, kind |-> kind, fine |-> amount, fresh |-> Window, paid |-> FALSE,
   gone |-> FALSE]

ViolationRows ==
  {i \in ViolationIds : violations[i] # NoViolation /\ ~violations[i].gone}

Unpaid(u) == {i \in ViolationRows : violations[i].user = u /\ ~violations[i].paid}

(* Bound: a row is left for each message that is looked at.                 *)
RoomForViolation ==
  Cardinality({i \in ViolationIds : violations[i] # NoViolation})
    + Cardinality({r \in Requests : pc[r] \in {"delete", "price"}}) < MaxViolations

SumOfFines(S) == SumFunctionOnSet([i \in S |-> violations[i].fine], S)

Jailed(u) == users[u].muted > 0

(* UPDATE users SET muted_until.                                            *)
SetMuted(u, left) ==
  /\ SetField(u, "muted", left)
  /\ quotes' = [quotes EXCEPT ![u] = {}]

(* restrictChatMember: until_date, or 0 to lift the restriction.            *)
Restriction(u, left) == [kind |-> "telegram", user |-> u, until |-> left]

(* The answer of Telegram, with which the handler has no more to do.        *)
TelegramAnswers(r) ==
  /\ pc[r] = "telegram"
  /\ Drain
  /\ \/ tg' = [tg EXCEPT ![job[r].user] = job[r].until]
     \/ UNCHANGED tg
  /\ Finish(r)
  /\ UNCHANGED << ledgerVars, users, rules, violations, fine, quotes, payments >>

------------------------------------------------------------------------------
(* The message filter.                                                      *)

(* checkMessage: the rules of the user come first; elevated users are       *)
(* spared the global ones.                                                  *)
firstViolated(u, kind) ==
  LET active == {rule \in rules : rule.kind = kind /\ rule.left # 0}
      own == {rule \in active : rule.whom = u}
  IN  IF own # {} THEN own
      ELSE IF users[u].role = "elevated" THEN {}
      ELSE {rule \in active : rule.whom = Everyone}

(* A message in the group that breaks a rule.  Whitelisted users, owners    *)
(* and admins are not looked at; a message of a jailed user is deleted.     *)
Message(r, u) ==
  /\ Pass
  /\ ~users[u].whitelist /\ ~isImmuneToModeration(u)
  /\ ~Jailed(u)
  /\ RoomForViolation
  /\ \E kind \in Kinds : \E rule \in firstViolated(u, kind) :
       Start(r, "delete", [kind |-> "message", user |-> u, rule |-> rule])
  /\ UNCHANGED << ledgerVars, disciplineVars >>

(* deleteMessage fails: nothing else happens.  It succeeds: the fine is     *)
(* read, then converted at a price.                                         *)
MessageDeleted(r) ==
  /\ pc[r] = "delete"
  /\ Drain
  /\ \/ Finish(r)
     \/ /\ Continue(r, "price")
        /\ job' = [job EXCEPT ![r] =
             [kind |-> "violation", user |-> @.user, rule |-> @.rule, fine |-> fine]]
  /\ UNCHANGED << ledgerVars, disciplineVars >>

InsertViolation(i, u, kind, amount) ==
  /\ violations[i] = NoViolation
  /\ \A k \in 1 .. i - 1 : violations[k] # NoViolation
  /\ violations' = [violations EXCEPT ![i] = Violation(u, kind, amount)]

(* createViolation: the INSERT, the first of its two statements.            *)
InsertRow(r) ==
  \E i \in ViolationIds :
    InsertViolation(i, job[r].user, job[r].rule.kind, job[r].fine)

CreateViolation(r) ==
  /\ pc[r] = "price"
  /\ Wake(r)
  /\ InsertRow(r)
  /\ SetField(job[r].user, "warnings", users[job[r].user].warnings + 1)
  /\ Continue(r, "penalty")
  /\ UNCHANGED << job, ledgerVars, tg, rules, fine, quotes, payments >>

(* getRecentViolations: the new row is one of them.                         *)
RecentViolations(u, kind) ==
  Cardinality({i \in ViolationRows :
                 /\ violations[i].user = u /\ violations[i].kind = kind
                 /\ violations[i].fresh > 0})

(* What handleViolation does next: how long applyAutoJail, else             *)
(* applyImmediateJail, jails; otherwise nothing.  The threshold of the rule *)
(* is not read: the column has another name than the property.              *)
sentence(u, rule) ==
  IF RecentViolations(u, rule.kind) >= Threshold THEN AutoTime
  ELSE IF rule.severity = "jail" THEN JailTime
  ELSE NoMute

(* The rest of handleViolation: the penalty up to the next I/O.             *)
HandleViolation(r) ==
  LET u == job[r].user
      rule == job[r].rule
      left == sentence(u, rule)
  IN  /\ pc[r] = "penalty"
      /\ Suspend(r)
      /\ \/ /\ left # NoMute
            /\ SetMuted(u, left)
            /\ Continue(r, "telegram") /\ job' = [job EXCEPT ![r] = Restriction(u, left)]
         \/ /\ left = NoMute
            /\ IF rule.severity = "mute"
               THEN Continue(r, "mute") /\ job' = [job EXCEPT ![r] = Restriction(u, MuteTime)]
               ELSE Finish(r)
            /\ UNCHANGED << users, quotes >>
      /\ UNCHANGED << ledgerVars, tg, rules, violations, fine, payments >>

(* applyTemporaryMute asks Telegram first and writes the table after it,    *)
(* whatever the table says by then.                                         *)
MuteAnswered(r) ==
  /\ pc[r] = "mute"
  /\ Drain
  /\ \/ /\ tg' = [tg EXCEPT ![job[r].user] = job[r].until]
        /\ SetMuted(job[r].user, job[r].until)
     \/ UNCHANGED << tg, users, quotes >>
  /\ Finish(r)
  /\ UNCHANGED << ledgerVars, rules, violations, fine, payments >>

------------------------------------------------------------------------------
(* The commands of admins.                                                  *)

(* Mutant: any number is a duration.                                        *)
anyDuration == MinutesTyped

validDurations == {d \in MinutesTyped : d >= 1}

(* /jail checks, then asks Telegram for the bot's rights and for the price. *)
JailCommand(r, a, t) ==
  /\ Pass
  /\ adminOrHigher(a)
  /\ ~isImmuneToModeration(t)
  /\ \E d \in validDurations : Start(r, "jail", Restriction(t, d))
  /\ UNCHANGED << ledgerVars, disciplineVars >>

(* The UPDATE, whatever has happened to the user since.  In a private chat  *)
(* nothing is asked of Telegram.                                            *)
ApplyJail(r) ==
  /\ pc[r] = "jail"
  /\ Drain
  /\ SetMuted(job[r].user, job[r].until)
  /\ \/ Finish(r)
     \/ Continue(r, "telegram") /\ UNCHANGED job
  /\ UNCHANGED << ledgerVars, tg, rules, violations, fine, payments >>

(* /customjail and /unjail write first; then, in a group, they tell         *)
(* Telegram.                                                                *)
WriteMuted(r, t, left, restriction) ==
  /\ Pass
  /\ SetMuted(t, left)
  /\ \/ Start(r, "telegram", restriction)
     \/ UNCHANGED << pc, job >>
  /\ UNCHANGED << ledgerVars, tg, rules, violations, fine, payments >>

CustomJail(r, a, t) ==
  /\ ownerOnly(a) /\ ~isImmuneToModeration(t)
  /\ \E d \in validDurations : WriteMuted(r, t, d, Restriction(t, d))

Unjail(r, a, t) ==
  /\ adminOrHigher(a)
  /\ WriteMuted(r, t, NoMute, Restriction(t, 0))

Sentence(r, a, t) ==
  JailCommand(r, a, t) \/ CustomJail(r, a, t) \/ Unjail(r, a, t)

(* /warn: a violation that costs nothing.                                   *)
InsertWarning(a, t) ==
  /\ adminOrHigher(a) /\ ~isImmuneToModeration(t)
  /\ RoomForViolation
  /\ \E i \in ViolationIds : InsertViolation(i, t, "warning", 0)

Warn(a, t) ==
  /\ InsertWarning(a, t)
  /\ SetField(t, "warnings", users[t].warnings + 1)
  /\ UNCHANGED << rules, fine >>

ClearRows(t) ==
  violations' = [i \in ViolationIds |->
    IF i \in ViolationRows /\ violations[i].user = t
    THEN [violations[i] EXCEPT !.gone = TRUE, !.fresh = 0] ELSE violations[i]]

(* Mutant: the counter of warnings keeps its value.                         *)
ClearOnlyRows(t) == ClearRows(t) /\ UNCHANGED users

Clear(t) == ClearRows(t) /\ SetField(t, "warnings", 0)

(* /clearviolations.                                                        *)
ClearViolations(a, t) ==
  /\ ownerOnly(a)
  /\ Clear(t)
  /\ UNCHANGED << rules, fine >>

(* /setfine of what the violations here cost.                               *)
SetFine(a) ==
  /\ ownerOnly(a)
  /\ fine' \in Fines
  /\ UNCHANGED << users, rules, violations >>

(* /addrestriction: a threshold or durations that are given are stored, and *)
(* never read.                                                              *)
AddRestriction(a, t) ==
  /\ adminOrHigher(a) /\ ~isImmuneToModeration(t)
  /\ \E kind \in Kinds, severity \in {"delete", "mute", "jail"},
        left \in {Forever, 1} :
       rules' = rules \cup {Rule(t, kind, severity, left)}
  /\ UNCHANGED << users, violations, fine >>

(* /addaction: no severity, no end.                                         *)
AddAction(a) ==
  /\ adminOrHigher(a)
  /\ \E kind \in Kinds : rules' = rules \cup {Rule(Everyone, kind, "delete", Forever)}
  /\ UNCHANGED << users, violations, fine >>

(* /removerestriction and /removeaction: every row of that type.            *)
RemoveRules(a, whom) ==
  /\ IF whom = Everyone THEN adminOrHigher(a) ELSE elevatedOrHigher(a)
  /\ \E kind \in Kinds :
       rules' = {rule \in rules : ~(rule.whom = whom /\ rule.kind = kind)}
  /\ UNCHANGED << users, violations, fine >>

(* These are one step each.                                                 *)
AtOnce(a, t) ==
  /\ Pass
  /\ \/ Warn(a, t) \/ ClearViolations(a, t) \/ SetFine(a)
     \/ AddRestriction(a, t) \/ AddAction(a)
     \/ \E whom \in {t, Everyone} : RemoveRules(a, whom)
  /\ UNCHANGED << pc, job, ledgerVars, tg, quotes, payments >>

(* The two of them that meet /payallfines.                                  *)
ChangeFines(a, t) ==
  /\ Pass
  /\ ClearViolations(a, t) \/ SetFine(a)
  /\ UNCHANGED << pc, job, ledgerVars, tg, quotes, payments >>

ChangeRole(a, t) ==
  /\ Pass
  /\ RoleCommand(a, t)
  /\ UNCHANGED << pc, job, audit, snap, tg, rules, violations, fine, quotes,
                  payments >>

------------------------------------------------------------------------------
(* Bail.                                                                    *)

bail(left) == IF left * Rate > Minimum THEN left * Rate ELSE Minimum

(* /paybail or /paybailfor, and somebody sends the amount it names.         *)
PayBail(u) ==
  /\ Pass
  /\ Jailed(u)
  /\ quotes' = [quotes EXCEPT ![u] = @ \cup {bail(users[u].muted)}]
  /\ payments' = payments \cup {bail(users[u].muted)}
  /\ UNCHANGED << pc, job, ledgerVars, users, tg, rules, violations, fine >>

(* /verifybail and /verifybailfor compute the bail of the time left and ask *)
(* the chain for the transaction.                                           *)
VerifyBail(r, u) ==
  /\ Pass
  /\ Jailed(u)
  /\ \E paid \in payments :
       Start(r, "verify", [kind |-> "bail", user |-> u, paid |-> paid,
                           amt |-> bail(users[u].muted)])
  /\ UNCHANGED << ledgerVars, disciplineVars >>

(* The amounts agree: the user is released, and Telegram told.  They do     *)
(* not, or the node does not answer: nothing.                               *)
BailVerified(r) ==
  /\ pc[r] = "verify"
  /\ Drain
  /\ \/ /\ job[r].paid = job[r].amt
        /\ SetMuted(job[r].user, NoMute)
        /\ Continue(r, "telegram")
        /\ job' = [job EXCEPT ![r] = Restriction(@.user, 0)]
     \/ Finish(r) /\ UNCHANGED << users, quotes >>
  /\ UNCHANGED << ledgerVars, tg, rules, violations, fine, payments >>

------------------------------------------------------------------------------
(* /payallfines.                                                            *)

PayAllFines(r, u) ==
  /\ Arrive(r)
  /\ Unpaid(u) # {}
  /\ Start(r, "fineBalance",
           [kind |-> "fines", from |-> u, to |-> Treasury,
            amt |-> SumOfFines(Unpaid(u)), rows |-> Unpaid(u)])
  /\ UNCHANGED << ledgerVars, disciplineVars >>

FineBalance(r) ==
  /\ pc[r] = "fineBalance"
  /\ IF Sufficient(bal[job[r].from], job[r].amt)
     THEN Tick(r) /\ Continue(r, "readFrom") /\ UNCHANGED job
     ELSE Suspend(r) /\ Finish(r)
  /\ UNCHANGED << ledgerVars, disciplineVars >>

(* Mutant: success is not looked at.                                        *)
settleAnyway == "settle"

whenRefused == "fineRefused"

PayFine(r) ==
  /\ job[r].kind = "fines"
  /\ TransferStep(r, "settle", whenRefused)
  /\ UNCHANGED disciplineVars

(* The rows that were listed are marked, and the user leaves jail; Telegram *)
(* is not told.                                                             *)
MarkPaid(rows) ==
  violations' = [i \in ViolationIds |->
    IF i \in rows \cap ViolationRows
    THEN [violations[i] EXCEPT !.paid = TRUE] ELSE violations[i]]

Settle(r) ==
  LET u == job[r].from
  IN  /\ pc[r] = "settle"
      /\ Suspend(r)
      /\ MarkPaid(job[r].rows)
      /\ IF Jailed(u) THEN SetMuted(u, NoMute) ELSE UNCHANGED << users, quotes >>
      /\ Finish(r)
      /\ UNCHANGED << ledgerVars, tg, rules, fine, payments >>

FineRefused(r) ==
  /\ pc[r] = "fineRefused"
  /\ Suspend(r)
  /\ Finish(r)
  /\ UNCHANGED << ledgerVars, disciplineVars >>

------------------------------------------------------------------------------
(* Timers.                                                                  *)

(* Mutant: the UPDATE is left to whoever looks at the user next.            *)
ForgetMute(u) == UNCHANGED << users, quotes >>

ReleaseMute(u) == SetMuted(u, NoMute)

(* cleanExpiredJails releases the users of its list one after the other,    *)
(* with calls of Telegram in between.                                       *)
Release(r, left) ==
  \E u \in left :
    /\ ReleaseMute(u)
    /\ pc' = [pc EXCEPT ![r] = "lift"]
    /\ job' = [job EXCEPT ![r] =
                 [kind |-> "sweep", user |-> u, left |-> left \ {u}]]
    /\ UNCHANGED << ledgerVars, tg, rules, violations, fine, payments >>

StartSweep(r) ==
  /\ pc[r] = "idle"
  /\ Drain
  /\ Release(r, {u \in Users : users[u].muted = 0})

(* restrictChatMember has answered; the message to the user is awaited too. *)
Lifted(r) ==
  /\ pc[r] = "lift"
  /\ Drain
  /\ \/ tg' = [tg EXCEPT ![job[r].user] = 0]
     \/ UNCHANGED tg
  /\ IF job[r].left = {} THEN Finish(r) ELSE Continue(r, "sweep") /\ UNCHANGED job
  /\ UNCHANGED << ledgerVars, users, rules, violations, fine, quotes, payments >>

NextRelease(r) ==
  /\ pc[r] = "sweep"
  /\ Drain
  /\ Release(r, job[r].left)

(* cleanExpiredRestrictions, every hour.                                    *)
CleanExpiredRestrictions ==
  /\ Drain
  /\ rules' = {rule \in rules : rule.left # 0}
  /\ UNCHANGED << pc, job, ledgerVars, users, tg, violations, fine, quotes, payments >>

(* Everything that has an end comes nearer to it, in the tables, in         *)
(* Telegram and in the variables of the handlers that wait.                 *)
TimePasses ==
  /\ Drain
  /\ users' = [u \in Users |-> [users[u] EXCEPT !.muted = Less(@)]]
  /\ tg' = [u \in Users |-> Less(tg[u])]
  /\ rules' = {[rule EXCEPT !.left = Less(@)] : rule \in rules}
  /\ violations' = [i \in ViolationIds |->
       IF i \in ViolationRows THEN [violations[i] EXCEPT !.fresh = Less(@)]
       ELSE violations[i]]
  /\ job' = [r \in Requests |->
       IF job[r].kind = "telegram" THEN [job[r] EXCEPT !.until = Less(@)] ELSE job[r]]
  /\ UNCHANGED << pc, ledgerVars, fine, quotes, payments >>

------------------------------------------------------------------------------

vars ==
  << loopVars, ledgerVars, pc, job, disciplineVars, torn, mode, starts, crashes >>

Init ==
  /\ mode \in Modes
  /\ RequestsInit
  /\ bal = Funds
  /\ audit = [a \in Accounts |-> 0]
  /\ users = [u \in Users |-> NewUser(mode.roles[u])]
  /\ tg = [u \in Users |-> 0]
  /\ rules \in Rules0
  /\ violations = [i \in ViolationIds |-> NoViolation]
  /\ fine \in Fines
  /\ quotes = [u \in Users |-> {}]
  /\ payments = {}
  /\ torn = {}
  /\ starts = 0
  /\ crashes = 0

Uses(feature) == feature \in mode.features

(* What a user starts.                                                      *)
Begin(r) ==
  /\ pc[r] = "idle"
  /\ \E a, t \in Users :
       \/ Uses("roles") /\ ChangeRole(a, t)
       \/ Uses("filter") /\ AtOnce(a, t)
       \/ (Uses("filter") \/ Uses("fines")) /\ a = t /\ Message(r, t)
       \/ Uses("jails") /\ Sentence(r, a, t)
       \/ Uses("jails") /\ a = t /\ (PayBail(t) \/ VerifyBail(r, t))
       \/ Uses("fines") /\ a = t /\ PayAllFines(r, t)
       \/ Uses("fines") /\ ChangeFines(a, t)
  /\ starts < mode.maxStarts
  /\ starts' = starts + 1

(* What a handler that waits or is runnable goes on with.                   *)
Proceed(r) ==
  /\ \/ MessageDeleted(r) \/ CreateViolation(r) \/ HandleViolation(r)
     \/ MuteAnswered(r) \/ ApplyJail(r) \/ TelegramAnswers(r) \/ BailVerified(r)
     \/ FineBalance(r) \/ PayFine(r) \/ Settle(r) \/ FineRefused(r)
     \/ Lifted(r) \/ NextRelease(r)
  /\ UNCHANGED starts

Sweep(r) == StartSweep(r) /\ UNCHANGED starts

Clock == (TimePasses \/ CleanExpiredRestrictions) /\ UNCHANGED starts

(* Between the two statements that write a violation of u, or delete those  *)
(* of u: the counter of warnings has its old value.                         *)
FirstOfTwo(u) ==
  /\ ready # {} => batch /\ mode.batching
  /\ \/ ready = {} /\ \E r \in Requests :
          pc[r] = "price" /\ job[r].user = u /\ InsertRow(r)
     \/ Uses("filter") /\ \E a \in Users : InsertWarning(a, u)
     \/ /\ Uses("filter") \/ Uses("fines")
        /\ \E a \in Users : ownerOnly(a) /\ ClearRows(u)

(* What of its drain a handler has written when it is killed, where it is   *)
(* neither all nor nothing: one statement of two, or the first rows that    *)
(* /payallfines marks.                                                      *)
Cut ==
  \/ UNCHANGED << violations, torn >>
  \/ \E u \in Users : FirstOfTwo(u) /\ torn' = torn \cup {u}
  \/ /\ \E r \in ready, n \in ViolationIds :
          pc[r] = "settle" /\ MarkPaid({i \in job[r].rows : i <= n})
     /\ UNCHANGED torn

(* The process is killed at any moment, and starts again.                   *)
Crash ==
  /\ crashes < mode.maxCrashes
  /\ Cut
  /\ RequestsCrash
  /\ users' = ConfigureOwners
  /\ crashes' = crashes + 1
  /\ UNCHANGED << tg, rules, fine, quotes, payments, mode, starts >>

kept == << mode, crashes, torn >>

(* Without batching nothing starts while a handler is runnable.             *)
Next ==
  \/ /\ \/ \E r \in Requests :
             \/ (ready = {} \/ mode.batching) /\ Begin(r)
             \/ Proceed(r) \/ Sweep(r)
        \/ Clock
     /\ UNCHANGED kept
  \/ Crash

Spec == Init /\ [][Next]_vars

(* Telegram, the chain and Node answer; the timer of the sweep fires again  *)
(* and again.                                                               *)
FairSpec ==
  /\ Spec
  /\ \A r \in Requests : WF_vars(Proceed(r) /\ UNCHANGED kept)
  /\ WF_vars(\E r \in Requests : Sweep(r) /\ UNCHANGED kept)

------------------------------------------------------------------------------

(* What may be left of a mute or a jail: no sentence grows, and none is     *)
(* negative.                                                                *)
TimesLeft == UNION {0 .. d : d \in {MuteTime, JailTime, AutoTime} \cup MinutesTyped}

(* The rows and the handlers' steps have the form the schema (database.ts)  *)
(* and the checks of the commands give them; what is left of a jail is part *)
(* of a sentence the bot or an admin pronounces.                            *)
TypeOK ==
  /\ LoopTypeOK
  /\ pc \in [Requests -> DisciplineSteps]
  /\ users \in [Users -> UserType(TimesLeft)]
  /\ tg \in [Users -> TimesLeft]
  /\ rules \subseteq RuleRow
  /\ \A i \in ViolationRows :
       /\ violations[i].user \in Users
       /\ violations[i].fresh \in 0 .. Window
       /\ violations[i].fine \in Fines \cup {0}

(* warning_count is the number of the user's violations, which the bot      *)
(* keeps in two tables: whatever handlers, /warn and /clearviolations come  *)
(* between the steps of one another, and over crashes, except for the users *)
(* whose two statements a kill has cut from one another.  (/setowner starts *)
(* a configured owner at 0 again, and keeps the violations.)                *)
WarningsMatchViolations ==
  \A u \in Users \ (ConfigOwners \cup torn) :
    users[u].warnings = Cardinality({i \in ViolationRows : violations[i].user = u})

(* A fine is marked paid only if the log has its payment to the treasury,   *)
(* also when two /payallfines of a batch read the same balance, when fines  *)
(* are cleared or their price is changed in between, and after a crash.     *)
(* Without a batch, in which an update of the treasury may be lost, the     *)
(* treasury also has the money; and without a batch and a crash it has      *)
(* received no more than that.                                              *)
FinesSettled ==
  LET settled == {i \in ViolationIds :
                    violations[i] # NoViolation /\ violations[i].paid}
      cleared == {i \in ViolationIds :
                    violations[i] # NoViolation /\ violations[i].gone}
      received == bal[Treasury] - Funds[Treasury]
  IN  /\ audit[Treasury] >= SumOfFines(settled)
      /\ ~mode.batching => received >= SumOfFines(settled)
      /\ ready = {} /\ ~mode.batching /\ crashes = 0 =>
           received <= SumOfFines(settled \cup cleared)

(* "Payment will release you from jail immediately!": the chain is never    *)
(* asked for another amount than the one that /paybail named, in the same   *)
(* jail, for the payment that is presented.                                 *)
QuotedBailReleases ==
  \A r \in Requests :
    pc[r] = "verify" /\ job[r].paid \in quotes[job[r].user] =>
      job[r].paid = job[r].amt

(* A jail that has expired is ended in the table, also when the sweep that  *)
(* listed it is lost in a crash or Telegram refuses the calls of it.        *)
ExpiredJailsEnd ==
  \A u \in Users : users[u].muted = 0 ~> users[u].muted # 0

=============================================================================
