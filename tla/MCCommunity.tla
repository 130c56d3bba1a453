----------------------------- MODULE MCCommunity -----------------------------
(***************************************************************************)
(* Small instances of Community for TLC.                                   *)
(***************************************************************************)
EXTENDS Community, TLC

CONSTANTS u1, u2, u3, treasury, m1, m2, x, y

(* One challenge, and two with a player in common, in either role.          *)
Challenge(u, o, cons) == [NewDuel(u, o, cons) EXCEPT !.shown = "row"]
OneDuel == {<< Challenge(u1, u2, "jail"), NoDuel >>}
Rematch == {<< Challenge(u1, u2, "none"), Challenge(u2, u1, "jail") >>}
TwoDuels ==
  Rematch \cup {<< Challenge(u1, u2, "no_media"), Challenge(u2, u3, "none") >>}

Mode(features, challenges, batching, maxStarts, maxCrashes) ==
  [features |-> features, challenges |-> challenges, batching |-> batching,
   maxStarts |-> maxStarts, maxCrashes |-> maxCrashes]

MCModes ==
  {Mode({"setup", "end"}, {}, FALSE, 4, 0),
   Mode({"fight", "end"}, TwoDuels, FALSE, 3, 1),
   Mode({"fight", "end"}, TwoDuels, TRUE, 2, 0),
   Mode({"fight", "withdraw"}, Rematch, FALSE, 3, 1),
   Mode({"fight", "withdraw"}, OneDuel, FALSE, 4, 1),
   Mode({"giveaway"}, {}, FALSE, 5, 0), Mode({"giveaway"}, {}, FALSE, 4, 1),
   Mode({"shared"}, {}, TRUE, 4, 0), Mode({"shared"}, {}, TRUE, 3, 1)}
MCFight == {Mode({"fight", "end"}, TwoDuels, TRUE, 2, 0)}

(* u2 and u3 can lose one duel, u1 and the treasury pay for any giveaway.   *)
MCFunds == [a \in Accounts |-> IF a \in {treasury, u1} THEN 15
                               ELSE IF a \in Users THEN 1 ELSE 0]

(* As IEEE doubles have it: 1e-6 / 3, 3e-6 / 3 ... are written with more    *)
(* than 6 decimals or not, and 3 * 5e-6 is 1.5000000000000002e-5.           *)
MCPrintable == {<< 1, 4 >>, << 3, 3 >>, << 3, 4 >>, << 15, 3 >>}
MCOvershoots == {<< 3, 5 >>}

Symmetry ==
  Permutations(Requests) \cup Permutations(Messages) \cup Permutations(Names)

SystemIds == {treasury, -1, -2}

=============================================================================
