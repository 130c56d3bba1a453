----------------------------- MODULE IdealLedger -----------------------------
(***************************************************************************)
(* What the wallet promises: an account book whose movements are atomic,   *)
(* that never overdraws, and a counter for withdrawals that holds the      *)
(* money until the chain has decided: it is handed over exactly when the   *)
(* transaction is on chain, and given back, to its owner and once, when it *)
(* is not.                                                                 *)
(***************************************************************************)
EXTENDS Integers

CONSTANTS
  Accounts,
  Fees,                    \* the account that pays the network's fees
  Counters,                \* what can hold money that is on its way out
  Opening                  \* account -> opening balance

VARIABLES
  account,                 \* account -> balance
  held,                    \* counter -> [owner, amt], or Nothing
  delivered                \* the counters whose money is on chain

vars == << account, held, delivered >>

Nothing == [owner |-> Fees, amt |-> 0]

Init ==
  /\ account = Opening
  /\ held = [c \in Counters |-> Nothing]
  /\ delivered = {}

Move(from, to, amt) ==
  /\ account[from] >= amt
  /\ account' = [account EXCEPT ![from] = @ - amt, ![to] = @ + amt]
  /\ UNCHANGED << held, delivered >>

Hold(c, owner, amt) ==
  /\ held[c] = Nothing
  /\ account[owner] >= amt
  /\ account' = [account EXCEPT ![owner] = @ - amt]
  /\ held' = [held EXCEPT ![c] = [owner |-> owner, amt |-> amt]]
  /\ UNCHANGED delivered

Deliver(c) ==
  /\ held[c] # Nothing
  /\ c \notin delivered
  /\ delivered' = delivered \cup {c}
  /\ UNCHANGED << account, held >>

Close(c) ==
  /\ c \in delivered
  /\ held' = [held EXCEPT ![c] = Nothing]
  /\ delivered' = delivered \ {c}
  /\ UNCHANGED account

GiveBack(c) ==
  /\ held[c] # Nothing
  /\ c \notin delivered
  /\ account' = [account EXCEPT ![held[c].owner] = @ + held[c].amt]
  /\ held' = [held EXCEPT ![c] = Nothing]
  /\ UNCHANGED delivered

Fee(amt) ==
  /\ account[Fees] >= amt
  /\ account' = [account EXCEPT ![Fees] = @ - amt]
  /\ UNCHANGED << held, delivered >>

Next ==
  \/ \E from, to \in Accounts :
       \E amt \in 1 .. account[from] : Move(from, to, amt)
  \/ \E c \in Counters :
       \/ \E owner \in Accounts :
            \E amt \in 1 .. account[owner] : Hold(c, owner, amt)
       \/ Deliver(c)
       \/ Close(c)
       \/ GiveBack(c)
  \/ \E amt \in 1 .. account[Fees] : Fee(amt)

Spec == Init /\ [][Next]_vars

=============================================================================
