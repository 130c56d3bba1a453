--------------------------------- MODULE Duel ---------------------------------
(***************************************************************************)
(* Duels: commands/duel.ts (the command, the menu and the buttons) and     *)
(* services/duelService.ts (the table duels and the resolution of a duel). *)
(*                                                                         *)
(* The buttons are bot.action handlers, reached without I/O: the presses   *)
(* of a batch interleave at every await.  An accept awaits two balances    *)
(* and two locks, each a microtask, before it rolls and transfers.         *)
(*                                                                         *)
(* The draw is a free choice of the winner.  A wager is always Wager.      *)
(***************************************************************************)
EXTENDS MenuSession

CONSTANTS
  NoRequest,               \* the holder of no lock
  MaxDuels,                \* bound on the rows of duels
  Wager,                   \* micro-units each player stakes
  Consequences             \* loser_consequence: "none", "jail", "no_media"...

ASSUME DuelAssumption ==
  /\ NoRequest \notin Requests
  /\ Wager \in Nat \ {0}
  /\ MaxDuels \in Nat
  /\ Consequences \subseteq {"none", "jail", "muted", "no_media"}

VARIABLES
  duels,                   \* the table duels
  locks,                   \* transaction_locks
  penalties                \* users.muted_until and user_restrictions:
                           \* user -> consequences recorded

INSTANCE TransactionLock

duelVars == << duels, locks, penalties >>

DuelIds == 1 .. MaxDuels

(* A row.  "shown" is what exists of the challenge message: nothing, the    *)
(* message with its buttons, or also its id in the row.  "old" abstracts    *)
(* expires_at; "paid" is a history variable: the transfers made for it.     *)
NoDuel == [status |-> "none"]

NewDuel(u, o, cons) ==
  [status |-> "pending", challenger |-> u, opponent |-> o, cons |-> cons,
   shown |-> "no", old |-> FALSE, loser |-> u, paid |-> 0]

DuelSteps ==
  {"idle", "menu", "checks", "insert", "post", "posted", "challengerBalance",
   "cancelPoor", "lockChallenger", "insertChallenger", "lockOpponent",
   "insertOpponent", "backOff", "resolve", "penalty", "telegram",
   "releaseChallenger", "releaseOpponent"} \cup TransferSteps

DuelRow ==
  [status: {"pending", "cancelled", "rejected", "expired", "completed"},
   challenger: Users, opponent: Users, cons: Consequences,
   shown: {"no", "message", "row"}, old: BOOLEAN, loser: Users, paid: Nat]

(* What an earlier run of the bot has left: duels from the sequence given.  *)
DuelInit(challenges) ==
  /\ \/ challenges = {} /\ duels = [d \in DuelIds |-> NoDuel]
     \/ duels \in challenges
  /\ penalties = [u \in Users |-> {}]
  /\ LockInit

Rows == {d \in DuelIds : duels[d] # NoDuel}
Pending == {d \in Rows : duels[d].status = "pending"}

hasOutgoingDuel(u) == \E d \in Pending : duels[d].challenger = u
hasIncomingDuel(u) == \E d \in Pending : duels[d].opponent = u

SetStatus(d, status) == duels' = [duels EXCEPT ![d].status = status]

------------------------------------------------------------------------------
(* Creating a duel.                                                         *)

(* /duel: the checks, then the menu, whose sending is awaited.              *)
DuelCommand(r, u, o, c) ==
  /\ Pass
  /\ u # o
  /\ ~hasOutgoingDuel(u)
  /\ ~hasIncomingDuel(o)
  /\ Sufficient(bal[u], Wager) /\ Sufficient(bal[o], Wager)
  /\ noActiveMenu(c, "duel_setup")
  /\ Start(r, "menu", [kind |-> "menu", user |-> u, data |-> o, chat |-> c])
  /\ UNCHANGED << ledgerVars, duelVars >>

DuelMenuShown(r, m) ==
  /\ pc[r] = "menu" /\ job[r].kind = "menu"
  /\ Drain
  /\ menusByMessageId[m] = NoSession
  /\ createMenuSession(job[r].user, job[r].chat, m, "duel_setup", job[r].data)
  /\ Finish(r)
  /\ UNCHANGED << ledgerVars, duelVars >>

(* A button of the menu is pressed.                                         *)
ChooseConsequence(r, u, m, cons) ==
  LET s == menusByMessageId[m]
  IN  /\ Arrive(r)
      /\ mayInteract(u, m) /\ s.type = "duel_setup"
      /\ Start(r, "checks", [kind |-> "create", user |-> u, opponent |-> s.data,
                             message |-> m, cons |-> cons])
      /\ UNCHANGED << ledgerVars, duelVars, menuVars >>

(* The menu goes; createDuel checks once more.                              *)
CreateChecks(r) ==
  /\ pc[r] = "checks"
  /\ Cleanup({menusByMessageId[job[r].message]} \ {NoSession})
  /\ IF /\ ~hasOutgoingDuel(job[r].user)
        /\ ~hasIncomingDuel(job[r].opponent)
        /\ Sufficient(bal[job[r].user], Wager)
     THEN Tick(r) /\ Continue(r, "insert") /\ UNCHANGED job
     ELSE Suspend(r) /\ Finish(r)
  /\ UNCHANGED << ledgerVars, duelVars >>

(* The INSERT, one await after the checks.                                  *)
InsertDuel(r, d) ==
  /\ pc[r] = "insert"
  /\ Suspend(r)
  /\ d \notin Rows /\ 1 .. d - 1 \subseteq Rows
  /\ duels' = [duels EXCEPT ![d] =
                 NewDuel(job[r].user, job[r].opponent, job[r].cons)]
  /\ pc' = [pc EXCEPT ![r] = "post"]
  /\ job' = [job EXCEPT ![r] = [kind |-> "post", duel |-> d]]
  /\ UNCHANGED << ledgerVars, locks, penalties, menuVars >>

(* The menu message is edited, then the challenge is posted: its buttons    *)
(* work before the bot hears of it.                                         *)
PostChallenge(r) ==
  /\ pc[r] = "post"
  /\ duels' = [duels EXCEPT ![job[r].duel].shown = "message"]
  /\ Continue(r, "posted")
  /\ UNCHANGED << loopVars, job, ledgerVars, locks, penalties, menuVars >>

(* The answer of Telegram: updateMessageId.  Or an error: the handler ends. *)
ChallengePosted(r) ==
  /\ pc[r] \in {"post", "posted"}
  /\ Drain
  /\ duels' = IF pc[r] = "posted"
              THEN [duels EXCEPT ![job[r].duel].shown = "row"] ELSE duels
  /\ Finish(r)
  /\ UNCHANGED << ledgerVars, locks, penalties, menuVars >>

------------------------------------------------------------------------------
(* Ending a duel without a fight.                                           *)

(* /duelcancel and the challenger's button; the opponent's button: check    *)
(* and UPDATE are one step.                                                 *)
CancelDuel(u, d) ==
  /\ Pass
  /\ d \in Pending /\ duels[d].challenger = u
  /\ SetStatus(d, "cancelled")

RejectDuel(u, d) ==
  /\ Pass
  /\ d \in Pending /\ duels[d].opponent = u /\ duels[d].shown # "no"
  /\ SetStatus(d, "rejected")

(* Five minutes pass.                                                       *)
DuelAges(d) ==
  /\ d \in Pending /\ ~duels[d].old
  /\ duels' = [duels EXCEPT ![d].old = TRUE]
  /\ UNCHANGED loopVars

ExpiredDuels == {d \in Pending : duels[d].old}

(* cleanExpiredDuels, every minute.                                         *)
CleanExpiredDuels ==
  /\ Drain
  /\ ExpiredDuels # {}
  /\ duels' = [d \in DuelIds |-> IF d \in ExpiredDuels
                 THEN [duels[d] EXCEPT !.status = "expired"] ELSE duels[d]]

EndDuel ==
  /\ \/ \E u \in Users, d \in DuelIds : CancelDuel(u, d) \/ RejectDuel(u, d)
     \/ \E d \in DuelIds : DuelAges(d)
     \/ CleanExpiredDuels
  /\ UNCHANGED << pc, job, ledgerVars, locks, penalties, menuVars >>

------------------------------------------------------------------------------
(* acceptAndExecuteDuel.                                                    *)

(* Mutant: the status is not looked at.                                     *)
acceptableWhatever(u, d) ==
  /\ d \in Rows /\ duels[d].opponent = u /\ duels[d].shown # "no"
  /\ Sufficient(bal[u], Wager)

(* The checks of the first step: who, which status, the opponent's balance. *)
acceptable(u, d) ==
  /\ d \in Pending /\ duels[d].opponent = u /\ duels[d].shown # "no"
  /\ Sufficient(bal[u], Wager)

AcceptDuel(r, u, d) ==
  /\ Arrive(r)
  /\ acceptable(u, d)
  /\ Start(r, "challengerBalance",
           [kind |-> "duel", duel |-> d, from |-> u, to |-> duels[d].challenger,
            amt |-> Wager])
  /\ UNCHANGED << ledgerVars, duelVars, menuVars >>

challenger(r) == duels[job[r].duel].challenger
opponent(r) == duels[job[r].duel].opponent

(* The challenger's balance; without the funds the duel is cancelled.       *)
CheckChallenger(r) ==
  /\ pc[r] = "challengerBalance"
  /\ Tick(r)
  /\ Continue(r, IF Sufficient(bal[challenger(r)], Wager)
                 THEN "lockChallenger" ELSE "cancelPoor")
  /\ UNCHANGED << job, ledgerVars, duelVars >>

CancelPoor(r) ==
  /\ pc[r] = "cancelPoor"
  /\ Suspend(r)
  /\ SetStatus(job[r].duel, "cancelled")
  /\ Finish(r)
  /\ UNCHANGED << ledgerVars, locks, penalties >>

(* acceptAndExecuteDuel returns or throws without holding the lock it asks  *)
(* for.                                                                     *)
GiveUp(r) == Suspend(r) /\ Finish(r)

(* acceptAndExecuteDuel asks for the two locks, the challenger's first.     *)
(* acquireLock reads the row, awaits, and inserts it: an INSERT that finds  *)
(* a row throws, and nothing around it catches.                             *)
ReadLock(r, u, step, insert, busy) ==
  /\ pc[r] = step
  /\ IF HasLock(u) THEN busy ELSE Tick(r) /\ Continue(r, insert) /\ UNCHANGED job
  /\ UNCHANGED << ledgerVars, duelVars >>

LockChallenger(r) ==
  \/ ReadLock(r, challenger(r), "lockChallenger", "insertChallenger", GiveUp(r))
  \/ /\ pc[r] = "insertChallenger"
     /\ Tick(r)
     /\ InsertLock(challenger(r), "duel", r)
     /\ Continue(r, "lockOpponent")
     /\ UNCHANGED << job, ledgerVars, duels, penalties >>
  \/ /\ pc[r] = "insertChallenger"
     /\ HasLock(challenger(r))
     /\ GiveUp(r)
     /\ UNCHANGED << ledgerVars, duelVars >>

(* Both locks are held: the rolls decide who pays whom.                     *)
Fight(r) ==
  \E loser \in {challenger(r), opponent(r)} :
    job' = [job EXCEPT ![r].from = loser,
                       ![r].to = IF loser = opponent(r) THEN challenger(r)
                                 ELSE opponent(r)]

(* Mutant: nobody locks the opponent.                                       *)
LockNobody(r) ==
  /\ pc[r] = "lockOpponent"
  /\ Tick(r)
  /\ Fight(r)
  /\ Continue(r, "readFrom")
  /\ UNCHANGED << ledgerVars, duelVars >>

LockOpponent(r) ==
  \/ ReadLock(r, opponent(r), "lockOpponent", "insertOpponent",
              Tick(r) /\ Continue(r, "backOff") /\ UNCHANGED job)
  \/ /\ pc[r] = "insertOpponent"
     /\ Tick(r)
     /\ InsertLock(opponent(r), "duel", r)
     /\ Fight(r)
     /\ Continue(r, "readFrom")
     /\ UNCHANGED << ledgerVars, duels, penalties >>
  \/ /\ pc[r] = "insertOpponent"
     /\ HasLock(opponent(r))
     /\ GiveUp(r)
     /\ UNCHANGED << ledgerVars, duelVars >>

BackOff(r) ==
  /\ pc[r] = "backOff"
  /\ Suspend(r)
  /\ DeleteLocks({challenger(r)})
  /\ Finish(r)
  /\ UNCHANGED << ledgerVars, duels, penalties >>

(* The transfer from the loser to the winner.  When its log entry is        *)
(* written the duel has been paid.                                          *)
Pay(r) ==
  /\ job[r].kind = "duel"
  /\ TransferStep(r, "resolve", "releaseChallenger")
  /\ duels' = IF pc[r] = "record" THEN [duels EXCEPT ![job[r].duel].paid = @ + 1]
              ELSE duels
  /\ UNCHANGED << locks, penalties >>

(* Mutant: a loser without a consequence is punished as well.               *)
alwaysPunished(cons) == "penalty"

afterResolve(cons) == IF cons = "none" THEN "releaseChallenger" ELSE "penalty"

(* The log entry is relabelled, the row completed.                          *)
Resolve(r) ==
  /\ pc[r] = "resolve"
  /\ Tick(r)
  /\ duels' = [duels EXCEPT ![job[r].duel] =
                 [@ EXCEPT !.status = "completed", !.loser = job[r].from]]
  /\ Continue(r, afterResolve(duels[job[r].duel].cons))
  /\ UNCHANGED << job, ledgerVars, locks, penalties >>

(* applyConsequence: the statement, and for a jail or a mute Telegram.      *)
ApplyConsequence(r) ==
  LET cons == duels[job[r].duel].cons
  IN  /\ pc[r] = "penalty"
      /\ penalties' = [penalties EXCEPT ![job[r].from] = @ \cup {cons}]
      /\ IF cons \in {"jail", "muted"}
         THEN Suspend(r) /\ Continue(r, "telegram")
         ELSE Tick(r) /\ Continue(r, "releaseChallenger")
      /\ UNCHANGED << job, ledgerVars, duels, locks >>

(* Its error is caught: the answer of Telegram makes no difference.         *)
PenaltyAnswered(r) ==
  /\ pc[r] = "telegram"
  /\ Wake(r)
  /\ Continue(r, "releaseChallenger")
  /\ UNCHANGED << job, ledgerVars, duelVars >>

(* Mutant: the second release is forgotten.                                 *)
ReleaseOne(r) ==
  /\ pc[r] = "releaseChallenger"
  /\ Suspend(r)
  /\ DeleteLocks({challenger(r)})
  /\ Finish(r)
  /\ UNCHANGED << ledgerVars, duels, penalties >>

(* Two releaseLock, after a duel and in the catch of a failed one.          *)
ReleaseDuelLocks(r) ==
  \/ /\ pc[r] = "releaseChallenger"
     /\ Tick(r)
     /\ DeleteLocks({challenger(r)})
     /\ Continue(r, "releaseOpponent")
     /\ UNCHANGED << job, ledgerVars, duels, penalties >>
  \/ /\ pc[r] = "releaseOpponent"
     /\ Suspend(r)
     /\ DeleteLocks({opponent(r)})
     /\ Finish(r)
     /\ UNCHANGED << ledgerVars, duels, penalties >>

AcceptStep(r) ==
  /\ \/ CheckChallenger(r) \/ CancelPoor(r)
     \/ LockChallenger(r) \/ LockOpponent(r) \/ BackOff(r)
     \/ Pay(r) \/ Resolve(r)
     \/ ApplyConsequence(r) \/ PenaltyAnswered(r) \/ ReleaseDuelLocks(r)
  /\ UNCHANGED menuVars

DuelSetup(r) ==
  \/ \E u, o \in Users, c \in Chats : DuelCommand(r, u, o, c)
  \/ \E m \in Messages : DuelMenuShown(r, m)
  \/ \E u \in Users, m \in Messages, cons \in Consequences :
       ChooseConsequence(r, u, m, cons)
  \/ CreateChecks(r)
  \/ \E d \in DuelIds : InsertDuel(r, d)
  \/ PostChallenge(r) \/ ChallengePosted(r)

DuelFight(r) ==
  \/ \E u \in Users, d \in DuelIds : AcceptDuel(r, u, d)
  \/ AcceptStep(r)

------------------------------------------------------------------------------

DuelTypeOK ==
  /\ DOMAIN duels = DuelIds
  /\ \A d \in Rows :
       /\ duels[d] \in DuelRow
       /\ duels[d].challenger # duels[d].opponent
  /\ LockTypeOK
  /\ penalties \in [Users -> SUBSET (Consequences \ {"none"})]

=============================================================================
