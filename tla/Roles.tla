--------------------------------- MODULE Roles ---------------------------------
(***************************************************************************)
(* The table users (database.ts), who may use which command                *)
(* (middleware/index.ts, utils/roles.ts), and the commands that change     *)
(* roles and lists (handlers/roles.ts, handlers/blacklist.ts).             *)
(*                                                                         *)
(* None of these handlers awaits anything before its last statement: each  *)
(* is one step.  Everybody here has written to the bot once, so each has a *)
(* row (ensureUserExists); a reply target gets one the same way.           *)
(*                                                                         *)
(* There are no configured admins: with ADMIN_ID set, main updates the     *)
(* column "elevated", which no statement creates, and the process exits.   *)
(***************************************************************************)
EXTENDS Integers, FiniteSets

CONSTANTS
  Users,                   \* Telegram users
  ConfigOwners             \* OWNER_ID of the environment

VARIABLES
  users,                   \* the table users
  bal                      \* user_balances, deleted with its user (CASCADE)

RoleNames == {"pleb", "elevated", "admin", "owner"}

NoMute == -1               \* muted_until IS NULL

(* A new row.  muted is the time left until muted_until: 0 has expired.     *)
NewUser(role) ==
  [role |-> role, whitelist |-> FALSE, blacklist |-> FALSE, warnings |-> 0,
   muted |-> NoMute]

SetField(t, field, value) == users' = [users EXCEPT ![t][field] = value]

ownerOnly(a) == a \in ConfigOwners \/ users[a].role = "owner"
adminOrHigher(a) == a \in ConfigOwners \/ users[a].role \in {"owner", "admin"}
elevatedOrHigher(a) == a \in ConfigOwners \/ users[a].role # "pleb"

(* It looks at the table only, not at OWNER_ID.                             *)
isImmuneToModeration(t) == users[t].role \in {"owner", "admin"}

(* main: the roles of the configured owners are set at every start.         *)
ConfigureOwners ==
  [u \in Users |-> IF u \in ConfigOwners
                   THEN [users[u] EXCEPT !.role = "owner"] ELSE users[u]]

(* /setowner: INSERT OR REPLACE deletes the old row first, with everything  *)
(* it says of the user, and with it the row of user_balances.               *)
SetOwner(a) ==
  /\ a \in ConfigOwners
  /\ users' = [users EXCEPT ![a] = NewUser("owner")]
  /\ bal' = [bal EXCEPT ![a] = 0]

(* /grantowner, /makeadmin, /elevate: whatever the role of the target is.   *)
GiveRole(a, t) ==
  /\ \/ ownerOnly(a) /\ \E role \in {"owner", "admin"} : SetField(t, "role", role)
     \/ adminOrHigher(a) /\ SetField(t, "role", "elevated")
  /\ UNCHANGED bal

(* /revoke: an admin may not revoke admins and owners; an owner may.        *)
Revoke(a, t) ==
  /\ adminOrHigher(a)
  /\ users[a].role = "admin" => ~isImmuneToModeration(t)
  /\ SetField(t, "role", "pleb")
  /\ UNCHANGED bal

(* /addwhitelist and /removewhitelist.                                      *)
Whitelist(a, t) ==
  /\ adminOrHigher(a)
  /\ \E b \in BOOLEAN : SetField(t, "whitelist", b)
  /\ UNCHANGED bal

(* /addblacklist and /removeblacklist: nothing reads the column but lists.  *)
Blacklist(a, t) ==
  /\ adminOrHigher(a)
  /\ \E b \in BOOLEAN :
       /\ b => ~isImmuneToModeration(t)
       /\ SetField(t, "blacklist", b)
  /\ UNCHANGED bal

RoleCommand(a, t) ==
  \/ a = t /\ SetOwner(a)
  \/ GiveRole(a, t)
  \/ Revoke(a, t)
  \/ Whitelist(a, t)
  \/ Blacklist(a, t)

UserType(times) ==
  [role: RoleNames, whitelist: BOOLEAN, blacklist: BOOLEAN, warnings: Nat,
   muted: {NoMute} \cup times]

=============================================================================
