---------------------------- MODULE SharedAccounts ----------------------------
(***************************************************************************)
(* Shared accounts: commands/sharedAccounts.ts and                         *)
(* services/sharedAccountService.ts, the tables shared_accounts and        *)
(* shared_account_permissions.                                             *)
(*                                                                         *)
(* /createshared, /sharedsend and /shareddeposit send a message before     *)
(* they do anything: they wake alone.  The other commands await only       *)
(* microtasks and share the drain of their batch; each reads in several    *)
(* awaits what its one statement relies on.                                *)
(*                                                                         *)
(* Foreign keys are enforced.  No row of users has the id of a shared      *)
(* account, so every statement that would insert a balance or a lock for   *)
(* one throws: a creation ends in an error after the account was made, and *)
(* no transfer from or to a shared account gets past its locks.  Balances  *)
(* of shared accounts are therefore 0 for ever and are not modelled, and   *)
(* neither are the limits of single payments.                              *)
(***************************************************************************)
EXTENDS Transfer

CONSTANTS
  Elevated,                \* the users elevatedAdminOnly lets through
  Names,                   \* account names
  MaxAccounts              \* how many ids there are (900 in the code)

ASSUME SharedAssumption ==
  /\ Elevated \subseteq Users
  /\ MaxAccounts \in Nat \ {0}

VARIABLES
  shared,                  \* shared_accounts: id -> row
  permissions              \* shared_account_permissions: << id, user >> -> row

sharedVars == << shared, permissions >>

(* Ids count down from -100: 1 stands for -100.                             *)
AccountIds == 1 .. MaxAccounts

NoAccount == [name |-> "none"]
NoPermission == [level |-> "none"]

Account(name, u) == [name |-> name, createdBy |-> u]

(* A row that is not revoked; a revoked one grants nothing and the next     *)
(* grant replaces it.  "of" is history: the account it was granted for.     *)
Permission(level, name) == [level |-> level, of |-> name]

SharedSteps ==
  {"idle", "createShared", "grantCreator", "sharedBalance", "grantCheck",
   "grantRead", "grantInsert", "revokeCheck", "revokeWrite", "updateCheck",
   "updateRead", "updateWrite", "deleteCheck", "deleteWrite", "sharedTransfer"}

SharedInit ==
  /\ shared = [i \in AccountIds |-> NoAccount]
  /\ permissions = [k \in AccountIds \X Users |-> NoPermission]

SharedRows == {i \in AccountIds : shared[i] # NoAccount}

getSharedAccountByName(name) == {i \in SharedRows : shared[i].name = name}

Rank == [none |-> 0, view |-> 1, spend |-> 2, admin |-> 3]

hasPermission(i, u, level) == Rank[permissions[<< i, u >>].level] >= Rank[level]

SharedJob(i, name, u, t, level) ==
  [kind |-> "shared", account |-> i, name |-> name, user |-> u, target |-> t,
   level |-> level]

Refuse(r) == Suspend(r) /\ Finish(r) /\ UNCHANGED sharedVars

------------------------------------------------------------------------------
(* /createshared.                                                           *)

(* getNextAccountId: one more than the last id in use; nothing when that is *)
(* the last there is.                                                       *)
nextAccountId ==
  {i \in AccountIds : /\ \A j \in SharedRows : j < i
                      /\ i = 1 \/ i - 1 \in SharedRows}

CreateShared(r, u, name) ==
  /\ Pass
  /\ u \in Elevated
  /\ Start(r, "createShared", SharedJob(0, name, u, u, "admin"))
  /\ UNCHANGED sharedVars

(* A name that exists, or no id left: an error.  Otherwise the row.         *)
InsertShared(r) ==
  /\ pc[r] = "createShared"
  /\ \/ /\ getSharedAccountByName(job[r].name) = {}
        /\ Wake(r)
        /\ \E i \in nextAccountId :
             /\ shared' = [shared EXCEPT ![i] = Account(job[r].name, job[r].user)]
             /\ job' = [job EXCEPT ![r].account = i]
        /\ Continue(r, "grantCreator")
        /\ UNCHANGED permissions
     \/ /\ getSharedAccountByName(job[r].name) # {} \/ nextAccountId = {}
        /\ Drain
        /\ Finish(r)
        /\ UNCHANGED sharedVars

GrantCreator(r) ==
  /\ pc[r] = "grantCreator"
  /\ Tick(r)
  /\ permissions' = [permissions EXCEPT ![<< job[r].account, job[r].user >>] =
                       Permission("admin", job[r].name)]
  /\ Continue(r, "sharedBalance")
  /\ UNCHANGED << job, shared >>

(* ensureUserBalance: the INSERT violates a foreign key; the handler        *)
(* catches and answers "Failed to create shared account".                   *)
BalanceFails(r) ==
  /\ pc[r] = "sharedBalance"
  /\ Refuse(r)

------------------------------------------------------------------------------
(* The commands on permissions: the name is looked up, then the service     *)
(* checks, then its statement runs.                                         *)

SharedCommand(r, u, name, t, level, step) ==
  /\ Arrive(r)
  /\ \E i \in getSharedAccountByName(name) :
       Start(r, step, SharedJob(i, name, u, t, level))
  /\ UNCHANGED sharedVars

(* The creator may grant himself what he likes, as the creation does.       *)
mayGrant(i, u, t) ==
  /\ i \in SharedRows
  /\ (u = shared[i].createdBy /\ t = u) \/ hasPermission(i, u, "admin")

Checked(r, step, next, ok) ==
  /\ pc[r] = step
  /\ IF ok THEN Tick(r) /\ Continue(r, next) /\ UNCHANGED << job, sharedVars >>
     ELSE Refuse(r)

(* getUserPermission, awaited before the statement that relies on it.       *)
Permitted(r) == permissions[<< job[r].account, job[r].target >>] # NoPermission

(* grantPermission.  INSERT OR REPLACE takes the place of a revoked row,    *)
(* and of one that another grant of the batch has inserted since the read.  *)
(* The row of an account that is gone violates a foreign key.               *)
GrantAccess(r) ==
  LET j == job[r]
  IN  \/ Checked(r, "grantCheck", "grantRead", mayGrant(j.account, j.user, j.target))
      \/ Checked(r, "grantRead", "grantInsert", ~Permitted(r))
      \/ /\ pc[r] = "grantInsert"
         /\ j.account \in SharedRows
         /\ Suspend(r)
         /\ permissions' = [permissions EXCEPT ![<< j.account, j.target >>] =
                              Permission(j.level, j.name)]
         /\ Finish(r)
         /\ UNCHANGED shared
      \/ /\ pc[r] = "grantInsert"
         /\ j.account \notin SharedRows
         /\ Refuse(r)

(* Mutant: the creator is not protected.                                    *)
mayChangeAnybody(i, u, t) == i \in SharedRows /\ hasPermission(i, u, "admin")

(* The checks revokePermission and updatePermission share.                  *)
mayChange(i, u, t) ==
  /\ i \in SharedRows
  /\ hasPermission(i, u, "admin")
  /\ t # shared[i].createdBy

(* Both UPDATEs name only rows that are not revoked.                        *)
Write(r, row) ==
  LET k == << job[r].account, job[r].target >>
  IN  /\ Suspend(r)
      /\ permissions' = [permissions EXCEPT ![k] =
                           IF @ = NoPermission THEN @ ELSE row]
      /\ Finish(r)
      /\ UNCHANGED shared

RevokeAccess(r) ==
  LET j == job[r]
  IN  \/ Checked(r, "revokeCheck", "revokeWrite", mayChange(j.account, j.user, j.target))
      \/ pc[r] = "revokeWrite" /\ Write(r, NoPermission)

UpdateAccess(r) ==
  LET j == job[r]
  IN  \/ Checked(r, "updateCheck", "updateRead", mayChange(j.account, j.user, j.target))
      \/ Checked(r, "updateRead", "updateWrite", Permitted(r))
      \/ /\ pc[r] = "updateWrite"
         /\ Write(r, Permission(j.level, permissions[<< j.account, j.target >>].of))

(* Mutant: the permissions of a deleted account stay.                       *)
DeleteOnlyAccount(i) ==
  /\ shared' = [shared EXCEPT ![i] = NoAccount]
  /\ UNCHANGED permissions

(* DELETE FROM shared_accounts: the permissions go with it (CASCADE).       *)
DeleteRow(i) ==
  /\ shared' = [shared EXCEPT ![i] = NoAccount]
  /\ permissions' = [k \in DOMAIN permissions |->
                       IF k[1] = i THEN NoPermission ELSE permissions[k]]

DeleteShared(r) ==
  LET j == job[r]
  IN  \/ Checked(r, "deleteCheck", "deleteWrite",
                 /\ j.account \in SharedRows
                 /\ hasPermission(j.account, j.user, "admin"))
      \/ /\ pc[r] = "deleteWrite"
         /\ Suspend(r)
         /\ DeleteRow(j.account)
         /\ Finish(r)

------------------------------------------------------------------------------
(* /sharedsend and /shareddeposit keep the id across a message.             *)
SharedTransfer(r, u, name) ==
  /\ Pass
  /\ \E i \in getSharedAccountByName(name) :
       Start(r, "sharedTransfer", SharedJob(i, name, u, u, "spend"))
  /\ UNCHANGED sharedVars

(* sendFromShared checks account and spender again; it, or the transfer at  *)
(* the lock of the shared account, fails, and a catch removes the other     *)
(* lock.                                                                    *)
SharedTransferFails(r) ==
  /\ pc[r] = "sharedTransfer"
  /\ Drain
  /\ Finish(r)
  /\ UNCHANGED sharedVars

SharedRequest(r) ==
  \/ \E u, t \in Users, name \in Names :
       \/ CreateShared(r, u, name)
       \/ \E level \in {"view", "spend", "admin"} :
            \/ SharedCommand(r, u, name, t, level, "grantCheck")
            \/ SharedCommand(r, u, name, t, level, "updateCheck")
       \/ SharedCommand(r, u, name, t, "view", "revokeCheck")
       \/ SharedCommand(r, u, name, u, "view", "deleteCheck")
       \/ SharedTransfer(r, u, name)
  \/ InsertShared(r) \/ GrantCreator(r) \/ BalanceFails(r) \/ SharedTransferFails(r)
  \/ GrantAccess(r) \/ RevokeAccess(r) \/ UpdateAccess(r) \/ DeleteShared(r)

SharedTypeOK ==
  /\ \A i \in SharedRows : shared[i].name \in Names /\ shared[i].createdBy \in Users
  /\ \A k \in DOMAIN permissions : permissions[k].level \in DOMAIN Rank

=============================================================================
