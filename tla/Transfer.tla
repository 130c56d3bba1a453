------------------------------- MODULE Transfer -------------------------------
(***************************************************************************)
(* What the handlers of duels, giveaways and fines share: a request that   *)
(* runs on the event loop, and LedgerService.transferBetweenUsers, one     *)
(* action per await.                                                       *)
(*                                                                         *)
(* pc[r] is the await request r is at, job[r] the local variables that are *)
(* still used after it.  A module that EXTENDS this one gives its own      *)
(* names to the steps before and after the transfer.                       *)
(***************************************************************************)
EXTENDS Integers, FiniteSets

CONSTANTS
  Requests,                \* the handlers that can be active at once
  Users,                   \* Telegram users
  SystemAccounts           \* treasury and escrows, in user_balances as well

Accounts == Users \cup SystemAccounts

VARIABLES
  ready, batch,            \* the event loop
  bal, audit, snap,        \* the ledger
  pc,                      \* where each request is
  job                      \* the local variables of each request

INSTANCE EventLoop WITH Handlers <- Requests
INSTANCE Ledger WITH Callers <- Requests

loopVars == << ready, batch >>

ledgerVars == << bal, audit, snap >>

NoJob == [kind |-> "none"]

TransferSteps == {"readFrom", "readTo", "writeFrom", "writeTo", "record"}

RequestsInit ==
  /\ LoopInit
  /\ snap = [r \in Requests |-> NoSnap]
  /\ pc = [r \in Requests |-> "idle"]
  /\ job = [r \in Requests |-> NoJob]

Continue(r, step) == pc' = [pc EXCEPT ![r] = step]

(* The handler has returned, and its local variables with it.               *)
Finish(r) ==
  /\ pc' = [pc EXCEPT ![r] = "idle"]
  /\ job' = [job EXCEPT ![r] = NoJob]

(* The handler of a new update starts: it joins the drain of its batch.     *)
Start(r, step, record) ==
  /\ pc[r] = "idle"
  /\ pc' = [pc EXCEPT ![r] = step]
  /\ job' = [job EXCEPT ![r] = record]

(* transferBetweenUsers of job[r].amt from job[r].from to job[r].to; the    *)
(* caller goes on at step done, or at step refused when the balance that    *)
(* was read does not cover the amount.                                      *)
TransferStep(r, done, refused) ==
  /\ Tick(r)
  /\ UNCHANGED job
  /\ \/ /\ pc[r] = "readFrom"
        /\ Sufficient(bal[job[r].from], job[r].amt)
        /\ ReadFrom(r, job[r].from)
        /\ Continue(r, "readTo")
     \/ /\ pc[r] = "readFrom"
        /\ ~Sufficient(bal[job[r].from], job[r].amt)
        /\ Continue(r, refused)
        /\ UNCHANGED ledgerVars
     \/ /\ pc[r] = "readTo"
        /\ ReadTo(r, job[r].to)
        /\ Continue(r, "writeFrom")
     \/ /\ pc[r] = "writeFrom"
        /\ WriteFrom(r, job[r].from, job[r].amt)
        /\ Continue(r, "writeTo")
     \/ /\ pc[r] = "writeTo"
        /\ WriteTo(r, job[r].to, job[r].amt)
        /\ Continue(r, "record")
     \/ /\ pc[r] = "record"
        /\ RecordTransfer(r, job[r].from, job[r].to, job[r].amt)
        /\ Continue(r, done)

(* The process is killed: the requests and their readings are gone, every   *)
(* statement that was executed stays.                                       *)
RequestsCrash ==
  /\ Halt
  /\ snap' = [r \in Requests |-> NoSnap]
  /\ pc' = [r \in Requests |-> "idle"]
  /\ job' = [r \in Requests |-> NoJob]
  /\ UNCHANGED << bal, audit >>

=============================================================================
