------------------------------ MODULE Community ------------------------------
(***************************************************************************)
(* Duels, withdrawals, giveaways and shared accounts in one process: they  *)
(* share the event loop, the ledger, the locks, the menus, and a crash.    *)
(*                                                                         *)
(* A behaviour is in one mode from its start: which features are used,     *)
(* which duels are pending when the bot starts, whether several updates of *)
(* a batch are handled together, how many handlers start and how often the *)
(* bot crashes.  The modes keep the number of states a sum instead of a    *)
(* product.                                                                *)
(***************************************************************************)
EXTENDS Withdrawal, Giveaway, SharedAccounts

CONSTANTS
  Modes,                   \* the modes of this instance
  Funds                    \* account -> balance at the start

Features == {"setup", "fight", "end", "withdraw", "giveaway", "shared"}

(* The ids of giveaways are not used again: the escrow account of one that  *)
(* does not exist yet has no balance.                                       *)
ASSUME CommunityAssumption ==
  /\ Modes \subseteq [features: SUBSET Features, batching: BOOLEAN,
                      maxStarts: Nat, maxCrashes: Nat,
                      challenges: SUBSET [DuelIds -> DuelRow \cup {NoDuel}]]
  /\ Funds \in [Accounts -> Nat]
  /\ \A g \in GiveawayIds : Funds[Escrow(g)] = 0
  /\ \A m \in Modes : \A rows \in m.challenges : \A d \in DuelIds :
       rows[d] # NoDuel => /\ rows[d].challenger # rows[d].opponent
                           /\ rows[d].status = "pending" /\ rows[d].paid = 0

VARIABLES
  mode,                    \* the mode of this behaviour
  starts,                  \* handlers started so far
  crashes                  \* crashes so far

vars == << loopVars, ledgerVars, pc, job, menuVars, duelVars, seized,
           giveawayVars, sharedVars, mode, starts, crashes >>

Init ==
  /\ mode \in Modes
  /\ RequestsInit
  /\ bal = Funds
  /\ audit = [a \in Accounts |-> 0]
  /\ NoMenus
  /\ DuelInit(mode.challenges)
  /\ WithdrawInit
  /\ GiveawayInit
  /\ SharedInit
  /\ starts = 0
  /\ crashes = 0

Uses(feature) == feature \in mode.features

Duels(r) ==
  /\ \/ Uses("setup") /\ DuelSetup(r)
     \/ Uses("fight") /\ DuelFight(r)
  /\ UNCHANGED << seized, giveawayVars, sharedVars >>

Withdrawals(r) ==
  /\ Uses("withdraw") /\ WithdrawRequest(r)
  /\ UNCHANGED << giveawayVars, sharedVars >>

Giveaways(r) ==
  /\ Uses("giveaway") /\ GiveawayRequest(r)
  /\ UNCHANGED << duelVars, seized, sharedVars >>

Shared(r) ==
  /\ Uses("shared") /\ SharedRequest(r)
  /\ UNCHANGED << ledgerVars, menuVars, duelVars, seized, giveawayVars >>

(* Without batching nothing starts or is swept while a handler is runnable. *)
Alone == ready = {} \/ mode.batching

Request(r) ==
  /\ Alone \/ r \in ready
  /\ Duels(r) \/ Withdrawals(r) \/ Giveaways(r) \/ Shared(r)
  /\ starts' = starts + (IF pc[r] = "idle" THEN 1 ELSE 0)
  /\ starts' <= mode.maxStarts
  /\ UNCHANGED << mode, crashes >>

(* Presses that need no await, timers, and the passage of time.             *)
Background ==
  /\ Alone
  /\ \/ Uses("end") /\ EndDuel /\ UNCHANGED seized
     \/ Uses("withdraw") /\ LockStep
     \/ /\ Uses("setup") \/ Uses("giveaway")
        /\ MenuStep
        /\ UNCHANGED << pc, job, ledgerVars, duelVars, seized >>
  /\ UNCHANGED << giveawayVars, sharedVars, mode, starts, crashes >>

(* The process is killed between two statements and starts again: the       *)
(* tables stay, the menus are gone, the cleanup at start deletes the locks  *)
(* whose timeout has elapsed.                                               *)
Crash ==
  /\ crashes < mode.maxCrashes
  /\ RequestsCrash
  /\ ForgetMenus
  /\ crashes' = crashes + 1
  /\ DeleteLocks(ExpiredLocks)
  /\ UNCHANGED << duels, penalties, seized, giveawayVars, sharedVars, mode,
                  starts >>

Next ==
  \/ \E r \in Requests : Request(r)
  \/ Background
  \/ Crash

Spec == Init /\ [][Next]_vars

------------------------------------------------------------------------------

Idle == ready = {} /\ \A r \in Requests : pc[r] = "idle"

(* The handlers' steps, and the rows of every table, have the form the      *)
(* schema (database.ts) and the services give them.                         *)
TypeOK ==
  /\ LoopTypeOK
  /\ pc \in [Requests -> DuelSteps \cup WithdrawSteps \cup GiveawaySteps
                           \cup SharedSteps]
  /\ seized \subseteq Users
  /\ DuelTypeOK /\ GiveawayTypeOK /\ SharedTypeOK

(* A crash, and withdrawals of both players that found a row to delete.    *)
BothSeized(d) ==
  crashes > 0 /\ {duels[d].challenger, duels[d].opponent} \subseteq seized

(* A completed duel has been paid, and a duel is paid at most once: also    *)
(* when the accept button is pressed again while the first accept waits for *)
(* Telegram, and when the bot crashes between any two statements.  After a  *)
(* crash between the payment and the row's update the duel is pending; the  *)
(* two rows that the crash leaves, which no sweep removes, are what keeps   *)
(* it from being fought again, until withdrawals of both players have taken *)
(* them.  One of the two is enough.                                         *)
PaidOnce ==
  ~mode.batching =>
    \A d \in Rows :
      /\ duels[d].status = "completed" => duels[d].paid >= 1
      /\ duels[d].paid <= 1 \/ BothSeized(d)

(* Every path out of acceptAndExecuteDuel, the refusals and the error path  *)
(* included, leaves neither player locked by the duel, whatever withdrawals *)
(* put in the place of its locks meanwhile.                                 *)
NoDuelLockLeft ==
  ~mode.batching /\ crashes = 0 =>
    \A u \in Users :
      locks[u].type = "duel" => pc[locks[u].holder] # "idle"

(* When nothing is runnable every balance is what the log says: the locks   *)
(* keep apart duels of one batch that have a player in common, although     *)
(* each writes balances it read two awaits before, although withdrawals may *)
(* delete their rows.                                                       *)
BalancesMatchAudit ==
  ready = {} /\ crashes = 0 => \A a \in Accounts : bal[a] = Funds[a] + audit[a]

(* What an escrow account holds follows from its giveaway: the slots that   *)
(* are not claimed, and what the rounding of dust left over or lacks.       *)
(* Claims, the last claim, cancellations that succeed and those that are    *)
(* refused leave it so.                                                     *)
EscrowFollowsSlots ==
  Idle /\ crashes = 0 /\ ~mode.batching =>
    \A g \in GiveawayRows :
      LET row == giveaways[g]
          taken == IF row.status = "active" THEN row.claimed ELSE row.slots
      IN  /\ row.claimed = Cardinality({c \in claims : c[1] = g})
          /\ row.shown => bal[Escrow(g)] = row.total - taken * row.perSlot

(* While an account exists its creator is an admin of it, whatever admins   *)
(* grant, update and revoke, also several in one batch.                     *)
CreatorKeepsAdmin ==
  Idle /\ crashes = 0 =>
    \A i \in SharedRows : permissions[<< i, shared[i].createdBy >>].level = "admin"

(* Ids of accounts are used again.  Nobody has access to an account because *)
(* of what was granted on an earlier one with its id, not even by a grant   *)
(* that was under way when the earlier one was deleted.                     *)
AccessIsToThisAccount ==
  \A k \in DOMAIN permissions :
    permissions[k] # NoPermission =>
      k[1] \in SharedRows /\ permissions[k].of = shared[k[1]].name

(* "No funds were exchanged.": a duel that was rejected is not paid after   *)
(* that.                                                                    *)
NoFundsAfterRefusal ==
  [][\A d \in Rows : duels[d].status = "rejected" =>
                       duels'[d].paid = duels[d].paid]_vars

=============================================================================
