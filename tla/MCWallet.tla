------------------------------- MODULE MCWallet -------------------------------
(***************************************************************************)
(* Small instances of Wallet for TLC.                                      *)
(***************************************************************************)
EXTENDS Wallet, TLC

CONSTANTS u1, u2, p1, p2, treasury, reserve

Funds(users, t, r) ==
  [a \in Users \cup {treasury, reserve} |->
     IF a = treasury THEN t ELSE IF a = reserve THEN r ELSE users]

MCAmounts1 == {1}
MCAmounts2 == {1, 2}
MCAll == {"send", "roll", "fine", "treasury", "withdraw"}
MCSendRollWithdraw == {"send", "roll", "withdraw"}
MCRoll == {"roll"}

(* Users with 2 each, a treasury of 4 (two prizes), a reserve of 1;       *)
(* and less, so that two requests reach the end of an account.              *)
MCFunds == Funds(2, 4, 1)
MCPoor == Funds(1, 2, 0)

Symmetry == Permutations({u1, u2}) \cup Permutations({p1, p2})

=============================================================================
