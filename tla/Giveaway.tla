------------------------------- MODULE Giveaway -------------------------------
(***************************************************************************)
(* Open giveaways: /giveaway and /cancelgiveaway of commands/giveaway.ts,  *)
(* the buttons in handlers/callbacks.ts, the tables giveaways and          *)
(* giveaway_claims, and one escrow account per giveaway.                   *)
(*                                                                         *)
(* The callback handler answers the query before it does anything else: a  *)
(* press of a button wakes from I/O and runs alone up to its next I/O,     *)
(* only a crash comes between two of its statements.  /cancelgiveaway      *)
(* awaits nothing from outside and shares the drain of its batch.          *)
(***************************************************************************)
EXTENDS MenuSession

CONSTANTS
  Treasury,                \* SYSTEM_USER_IDS.BOT_TREASURY
  Admins, Owners,          \* users with that role, owners included in both
  MaxGiveaways,            \* bound on the rows of giveaways
  Totals,                  \* the amounts given away, in micro-units
  Slots,                   \* the slot counts the menu offers
  Printable,               \* << total, slots >> whose quotient, a double, is
                           \* written with at most 6 decimals
  Overshoots               \* << n, perSlot >> whose product, of doubles, is
                           \* greater than the amount it stands for

GiveawayIds == 1 .. MaxGiveaways

(* getGiveawayEscrowId: a negative user id of its own for each giveaway.    *)
Escrow(g) == -g

ASSUME GiveawayAssumption ==
  /\ MaxGiveaways \in Nat
  /\ Treasury \in SystemAccounts /\ Users \cap SystemAccounts = {}
  /\ \A g \in GiveawayIds : Escrow(g) \in SystemAccounts \ {Treasury}
  /\ Owners \subseteq Admins /\ Admins \subseteq Users
  /\ Totals \subseteq Nat \ {0}
  /\ Slots \subseteq Nat \ {0}
  /\ Printable \subseteq Totals \X Slots
  /\ \A q \in Printable : \/ q[1] % q[2] = 0
                          \/ q[1] < q[2]   \* below 10^-6: 7.5e-7

VARIABLES
  giveaways,               \* the table giveaways
  claims                   \* giveaway_claims: << giveaway, user >>

giveawayVars == << giveaways, claims >>

NoGiveaway == [status |-> "none"]

(* toExact6Decimals of a Printable quotient: exact, or rounded to a          *)
(* micro-unit, and half of one (5e-7 is a little less) to 0.                *)
amountPerSlot(total, slots) == (2 * total + slots - 1) \div (2 * slots)

(* "shown": the claim button exists.                                        *)
NewGiveaway(u, funder, total, slots) ==
  [status |-> "active", createdBy |-> u, fundedBy |-> funder, total |-> total,
   slots |-> slots, perSlot |-> amountPerSlot(total, slots), claimed |-> 0,
   shown |-> FALSE]

GiveawayRow ==
  [status: {"active", "completed", "cancelled"}, createdBy: Users,
   fundedBy: Users \cup {Treasury}, total: Nat, slots: Nat \ {0}, perSlot: Nat, claimed: Nat,
   shown: BOOLEAN]

GiveawaySteps ==
  {"idle", "menu", "create", "insertGiveaway", "announce", "announced",
   "claim", "recordClaim", "countClaim", "completeGiveaway", "cancelled",
   "refused"} \cup TransferSteps

GiveawayInit ==
  /\ giveaways = [g \in GiveawayIds |-> NoGiveaway]
  /\ claims = {}

GiveawayRows == {g \in GiveawayIds : giveaways[g] # NoGiveaway}
Active == {g \in GiveawayRows : giveaways[g].status = "active"}

(* The locals of a transfer; "read" is claimed_slots as it was read before. *)
Transferring(from, to, amt, kind, g, read) ==
  [kind |-> kind, giveaway |-> g, from |-> from, to |-> to, amt |-> amt,
   read |-> read]

------------------------------------------------------------------------------
(* Creating a giveaway.                                                     *)

(* Which accounts the buttons of the menu offer to pay from; only admins    *)
(* are offered the treasury.                                                *)
fundingSources(u, total) ==
  {a \in IF u \in Admins THEN {u, Treasury} ELSE {u} : Sufficient(bal[a], total)}

(* /giveaway: the balances are read, the menu is sent.                      *)
GiveawayCommand(r, u, c, total) ==
  /\ Pass
  /\ fundingSources(u, total) # {}
  /\ noActiveMenu(c, "giveaway_setup")
  /\ Start(r, "menu", [kind |-> "giveawayMenu", user |-> u, chat |-> c,
             data |-> [total |-> total, sources |-> fundingSources(u, total)]])
  /\ UNCHANGED << ledgerVars, giveawayVars >>

GiveawayMenuShown(r, m) ==
  /\ pc[r] = "menu" /\ job[r].kind = "giveawayMenu"
  /\ Drain
  /\ menusByMessageId[m] = NoSession
  /\ createMenuSession(job[r].user, job[r].chat, m, "giveaway_setup", job[r].data)
  /\ Finish(r)
  /\ UNCHANGED << ledgerVars, giveawayVars >>

(* The source that pays is pressed if the menu asks for it, which changes   *)
(* the message only, then a slot count, by whoever: the query is answered   *)
(* first.                                                                   *)
PressCreate(r, u, m) ==
  LET s == menusByMessageId[m]
  IN  /\ s.type = "giveaway_setup"
      /\ Pass
      /\ \E funder \in s.data.sources, slots \in Slots :
           Start(r, "create", [kind |-> "create", user |-> u, message |-> m,
             row |-> NewGiveaway(u, funder, s.data.total, slots)])
      /\ UNCHANGED << ledgerVars, giveawayVars, menuVars >>

(* The session is validated and removed; toExact6Decimals throws when the   *)
(* quotient is not Printable; the funder's balance is read again.           *)
CreateGiveaway(r) ==
  LET m == job[r].message
      row == job[r].row
  IN  /\ pc[r] = "create"
      /\ IF mayInteract(job[r].user, m)
         THEN /\ Cleanup({menusByMessageId[m]})
              /\ IF /\ << row.total, row.slots >> \in Printable
                    /\ Sufficient(bal[row.fundedBy], row.total)
                 THEN Wake(r) /\ Continue(r, "insertGiveaway") /\ UNCHANGED job
                 ELSE Drain /\ Finish(r)
         ELSE /\ Cleanup(Expired({menusByMessageId[m]}))
              /\ Drain /\ Finish(r)
      /\ UNCHANGED << ledgerVars, giveawayVars >>

(* The row, whose id names the escrow account; then the transfer into it,   *)
(* which cannot be refused: the balance was read in this drain.             *)
InsertGiveaway(r, g) ==
  /\ pc[r] = "insertGiveaway"
  /\ Tick(r)
  /\ g \notin GiveawayRows /\ 1 .. g - 1 \subseteq GiveawayRows
  /\ giveaways' = [giveaways EXCEPT ![g] = job[r].row]
  /\ Continue(r, "readFrom")
  /\ job' = [job EXCEPT ![r] =
       Transferring(job[r].row.fundedBy, Escrow(g), job[r].row.total, "fund", g, 0)]
  /\ UNCHANGED << ledgerVars, claims, menuVars >>

(* The message with the claim button is posted; the answer stores its id,   *)
(* or an error ends the handler.                                            *)
Announce(r) ==
  \/ /\ pc[r] = "announce"
     /\ Suspend(r)
     /\ Continue(r, "announced")
     /\ UNCHANGED << job, ledgerVars, giveawayVars, menuVars >>
  \/ /\ pc[r] = "announced"
     /\ Drain
     /\ giveaways' = [giveaways EXCEPT ![job[r].giveaway].shown = TRUE]
     /\ Finish(r)
     /\ UNCHANGED << ledgerVars, claims, menuVars >>
  \/ /\ pc[r] = "announced"
     /\ Drain
     /\ Finish(r)
     /\ UNCHANGED << ledgerVars, giveawayVars, menuVars >>

------------------------------------------------------------------------------
(* Claiming a slot.                                                         *)

PressClaim(r, u, g) ==
  /\ Pass
  /\ g \in GiveawayRows /\ giveaways[g].shown
  /\ Start(r, "claim", [kind |-> "claim", user |-> u, giveaway |-> g])
  /\ UNCHANGED << ledgerVars, giveawayVars, menuVars >>

claimable(u, g) ==
  /\ g \in Active
  /\ << g, u >> \notin claims
  /\ giveaways[g].claimed < giveaways[g].slots

(* The checks; the number of claimed slots is kept until after the transfer.*)
BeginClaimSlot(r) ==
  LET g == job[r].giveaway
      u == job[r].user
  IN  /\ pc[r] = "claim"
      /\ IF claimable(u, g)
         THEN /\ Wake(r)
              /\ Continue(r, "readFrom")
              /\ job' = [job EXCEPT ![r] =
                   Transferring(Escrow(g), u, giveaways[g].perSlot, "claim", g,
                                giveaways[g].claimed)]
         ELSE Drain /\ Finish(r)
      /\ UNCHANGED << ledgerVars, giveawayVars >>

(* The statements after the transfer.  The UNIQUE constraint holds: nothing *)
(* has run since the check.                                                 *)
RecordClaim(r) ==
  /\ pc[r] = "recordClaim"
  /\ Tick(r)
  /\ claims' = claims \cup {<< job[r].giveaway, job[r].to >>}
  /\ Continue(r, "countClaim")
  /\ UNCHANGED << job, ledgerVars, giveaways >>

CountClaim(r) ==
  LET g == job[r].giveaway
  IN  /\ pc[r] = "countClaim"
      /\ giveaways' = [giveaways EXCEPT ![g].claimed = job[r].read + 1]
      /\ IF job[r].read + 1 >= giveaways[g].slots
         THEN Tick(r) /\ Continue(r, "completeGiveaway") /\ UNCHANGED job
         ELSE Suspend(r) /\ Finish(r)
      /\ UNCHANGED << ledgerVars, claims >>

CompleteGiveaway(r) ==
  /\ pc[r] = "completeGiveaway"
  /\ Suspend(r)
  /\ giveaways' = [giveaways EXCEPT ![job[r].giveaway].status = "completed"]
  /\ Finish(r)
  /\ UNCHANGED << ledgerVars, claims >>

------------------------------------------------------------------------------
(* /cancelgiveaway.                                                         *)

(* Mutant: the whole amount goes back.                                      *)
refundEverything(g) == giveaways[g].total

(* The slots nobody has claimed.                                            *)
unclaimedAmount(g) ==
  (giveaways[g].slots - giveaways[g].claimed) * giveaways[g].perSlot

CancelGiveaway(r, u, g) ==
  /\ Arrive(r)
  /\ g \in Active
  /\ u \in Owners \/ giveaways[g].createdBy = u
  /\ Start(r, IF unclaimedAmount(g) > 0 THEN "readFrom" ELSE "cancelled",
           Transferring(Escrow(g), giveaways[g].fundedBy, unclaimedAmount(g),
                        "cancel", g, giveaways[g].claimed))
  /\ UNCHANGED << ledgerVars, giveawayVars, menuVars >>

Cancelled(r) ==
  /\ pc[r] = "cancelled"
  /\ Suspend(r)
  /\ giveaways' = [giveaways EXCEPT ![job[r].giveaway].status = "cancelled"]
  /\ Finish(r)
  /\ UNCHANGED << ledgerVars, claims >>

(* transferBetweenUsers refused the claim or the refund: a message says so. *)
TransferRefused(r) ==
  /\ pc[r] = "refused"
  /\ Suspend(r)
  /\ Finish(r)
  /\ UNCHANGED << ledgerVars, giveawayVars >>

afterTransfer ==
  [fund |-> "announce", claim |-> "recordClaim", cancel |-> "cancelled"]

(* The refund is a product of doubles, compared as it is with the balance   *)
(* of the escrow: it may exceed a balance that is the exact product.        *)
Overshot(r) ==
  LET row == giveaways[job[r].giveaway]
  IN  /\ job[r].kind = "cancel"
      /\ << row.slots - job[r].read, row.perSlot >> \in Overshoots
      /\ bal[job[r].from] = job[r].amt

MoveFunds(r) ==
  /\ job[r].kind \in DOMAIN afterTransfer
  /\ IF pc[r] = "readFrom" /\ Overshot(r)
     THEN Tick(r) /\ Continue(r, "refused") /\ UNCHANGED << job, ledgerVars >>
     ELSE TransferStep(r, afterTransfer[job[r].kind], "refused")
  /\ UNCHANGED giveawayVars

------------------------------------------------------------------------------

GiveawayStep(r) ==
  /\ \/ BeginClaimSlot(r) \/ RecordClaim(r) \/ CountClaim(r)
     \/ CompleteGiveaway(r) \/ Cancelled(r) \/ TransferRefused(r) \/ MoveFunds(r)
  /\ UNCHANGED menuVars

GiveawayRequest(r) ==
  \/ \E u \in Users, c \in Chats, t \in Totals : GiveawayCommand(r, u, c, t)
  \/ \E m \in Messages : GiveawayMenuShown(r, m)
  \/ \E u \in Users, m \in Messages : PressCreate(r, u, m)
  \/ CreateGiveaway(r)
  \/ \E g \in GiveawayIds : InsertGiveaway(r, g)
  \/ Announce(r)
  \/ \E u \in Users, g \in GiveawayIds : PressClaim(r, u, g) \/ CancelGiveaway(r, u, g)
  \/ GiveawayStep(r)

GiveawayTypeOK ==
  /\ DOMAIN giveaways = GiveawayIds
  /\ \A g \in GiveawayRows :
       giveaways[g] \in GiveawayRow /\ giveaways[g].claimed <= giveaways[g].slots
  /\ claims \subseteq GiveawayIds \X Users

=============================================================================
