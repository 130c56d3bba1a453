----------------------------- MODULE MCDiscipline -----------------------------
(***************************************************************************)
(* Small instances of Discipline for TLC.                                  *)
(***************************************************************************)
EXTENDS Discipline

CONSTANTS owner, admin, pleb, treasury, all

MCRoles(second) ==
  [u \in Users |-> CASE u = owner -> "owner" [] u = second -> "admin" [] OTHER -> "pleb"]

Mode(features, second, batching, maxStarts, maxCrashes) ==
  [features |-> features, roles |-> MCRoles(second), batching |-> batching,
   maxStarts |-> maxStarts, maxCrashes |-> maxCrashes]

(* Two users can be in jail, or pay fines, at once where there is no admin. *)
MCModes ==
  {Mode({"roles", "filter"}, admin, FALSE, 2, 0), Mode({"filter"}, admin, FALSE, 3, 0),
   Mode({"jails"}, owner, FALSE, 3, 1), Mode({"filter", "jails"}, admin, FALSE, 2, 1),
   Mode({"fines"}, admin, FALSE, 4, 1), Mode({"fines"}, admin, TRUE, 3, 1),
   Mode({"fines"}, owner, TRUE, 4, 0)}
MCJails == {Mode({"jails"}, admin, FALSE, 4, 0)}

(* A rule for one, or one for all.                                          *)
MCRules ==
  {{Rule(pleb, "no_urls", s, Forever)} : s \in {"mute", "jail"}}
    \cup {{Rule(all, "no_urls", "delete", Forever)}}

MCFunds == [a \in Accounts |-> IF a \in Users THEN 3 ELSE 0]

MCDurations == {-2, 1, 2}

=============================================================================
