--------------------------- MODULE CommunityProofs ---------------------------
(***************************************************************************)
(* Duels, withdrawals, giveaways and shared accounts, for all users,       *)
(* requests, duels, giveaways, accounts and modes: every table keeps its   *)
(* type; access to a shared account is access to this account, and its     *)
(* creator stays an admin; a duel is paid once and leaves no lock, also    *)
(* when withdrawals delete its locks; balances agree with the log, and an  *)
(* escrow account holds the slots nobody has claimed.                      *)
(*                                                                         *)
(* The first part is about the event loop: what a step of one request may  *)
(* do to the others.  Each feature has an invariant of its own, about its  *)
(* tables and the local variables of the requests that are inside it; a    *)
(* step of another feature leaves its tables alone and stays outside.      *)
(***************************************************************************)
EXTENDS MenuProofs, FiniteSetTheorems

------------------------------------------------------------------------------
(* The event loop.                                                          *)

(* Only a batch makes two requests runnable at once; who is runnable is     *)
(* inside a handler.                                                        *)
Loop ==
  /\ LoopTypeOK
  /\ ~batch => \A p, q \in ready : p = q
  /\ \A r \in ready : pc[r] # "idle"

(* What one request's step does to the loop.                                *)
Runs(r) ==
  /\ ready' \subseteq ready \cup {r}
  /\ ready \ {r} \subseteq ready'
  /\ batch' \in BOOLEAN
  /\ ready # {} => batch' = batch
  /\ ~batch' => \A p, q \in ready' : p = q

(* It moves r and no other request; a handler that has returned is not      *)
(* runnable.                                                                *)
Acts(r) ==
  /\ Moves(r)
  /\ Runs(r)
  /\ pc'[r] = "idle" => r \notin ready'

(* Each of the ways in which the loop runs a request.                       *)
LEMMA RunsArrive ==
  ASSUME Loop, NEW r \in Requests, Arrive(r)
  PROVE  Runs(r)
BY DEF Loop, LoopTypeOK, Arrive, Runs

LEMMA RunsAlone ==
  ASSUME Loop, NEW r \in Requests, UNCHANGED loopVars
  PROVE  Runs(r)
BY DEF Loop, LoopTypeOK, loopVars, Runs

LEMMA RunsWake ==
  ASSUME Loop, NEW r \in Requests, Wake(r)
  PROVE  Runs(r)
BY DEF Loop, LoopTypeOK, Wake, Runs

LEMMA RunsSuspend ==
  ASSUME Loop, NEW r \in Requests, Suspend(r)
  PROVE  Runs(r) /\ r \notin ready'
BY DEF Loop, LoopTypeOK, Suspend, Runs

LEMMA RunsDrain ==
  ASSUME Loop, NEW r \in Requests, Drain
  PROVE  Runs(r) /\ r \notin ready'
BY DEF Loop, LoopTypeOK, Drain, Runs

LEMMA RunsTick ==
  ASSUME Loop, NEW r \in Requests, Tick(r)
  PROVE  Runs(r) /\ r \in ready
BY DEF Loop, LoopTypeOK, Tick, Runs

LEMMA RunsPass ==
  ASSUME Loop, NEW r \in Requests, Pass
  PROVE  Runs(r)
BY DEF Loop, LoopTypeOK, Pass, Runs

(* A step of one request keeps the invariant of the loop.                   *)
LEMMA ActsKeepLoop ==
  ASSUME MenuJobs, Loop, NEW r \in Requests, Acts(r)
  PROVE  Loop'
<1>1. \A q \in Requests \ {r} : pc'[q] = pc[q]
  BY DEF MenuJobs, Acts, Moves
<1>2. ready' \subseteq Requests
  BY DEF Loop, LoopTypeOK, Acts, Runs
<1> QED
  BY <1>1, <1>2 DEF Loop, LoopTypeOK, Acts, Runs

(* Starting, going on and returning, as steps of the loop.                  *)
LEMMA ActsStart ==
  ASSUME MenuJobs, Loop, NEW r \in Requests, NEW step, NEW record,
         Start(r, step, record), step # "idle", Arrive(r) \/ Pass \/ Wake(r)
  PROVE  /\ Acts(r) /\ pc[r] = "idle" /\ pc'[r] = step /\ job'[r] = record
<1>1. Moves(r) /\ pc'[r] = step /\ job'[r] = record
  BY StartMoves
<1>2. Runs(r)
  BY RunsArrive, RunsPass, RunsWake
<1>3. pc[r] = "idle"
  BY DEF Start
<1> QED
  BY <1>1, <1>2, <1>3 DEF Acts

LEMMA ActsContinue ==
  ASSUME MenuJobs, Loop, NEW r \in Requests, NEW step, step # "idle",
         Continue(r, step), UNCHANGED job,
         Tick(r) \/ Suspend(r) \/ Wake(r) \/ UNCHANGED loopVars
  PROVE  Acts(r) /\ pc'[r] = step /\ job'[r] = job[r]
<1>1. Moves(r) /\ pc'[r] = step
  BY ContinueMoves
<1>2. Runs(r)
  BY RunsTick, RunsSuspend, RunsWake, RunsAlone
<1> QED
  BY <1>1, <1>2 DEF Acts

LEMMA ActsFinish ==
  ASSUME MenuJobs, Loop, NEW r \in Requests, Finish(r), Suspend(r) \/ Drain
  PROVE  Acts(r) /\ pc'[r] = "idle"
BY FinishMoves, RunsSuspend, RunsDrain DEF Acts

LEMMA ActsTransfer ==
  ASSUME MenuJobs, Loop, NEW r \in Requests, NEW done, NEW refused,
         done # "idle", refused # "idle", TransferStep(r, done, refused)
  PROVE  /\ Acts(r)
         /\ r \in ready
         /\ pc[r] \in TransferSteps
         /\ pc'[r] \in {done, refused} \cup TransferSteps
         /\ job'[r] = job[r]
         /\ pc[r] = "record" => pc'[r] = done
         /\ pc[r] # "record" => pc'[r] \in {refused} \cup TransferSteps
<1>1. Moves(r) /\ pc'[r] \in {done, refused, "readTo", "writeFrom", "writeTo", "record"}
  BY TransferMoves
<1>2. Runs(r) /\ r \in ready
  BY RunsTick DEF TransferStep
<1>3. pc[r] \in TransferSteps /\ job' = job
  BY DEF TransferStep, TransferSteps
<1>4. /\ pc[r] = "record" => pc'[r] = done
      /\ pc[r] # "record" => pc'[r] \in {refused} \cup TransferSteps
  <2>1. DOMAIN pc = Requests
    BY DEF MenuJobs
  <2> QED
    BY <2>1 DEF TransferStep, Continue, TransferSteps
<1>5. pc'[r] # "idle"
  BY <1>1
<1> QED
  BY <1>1, <1>2, <1>3, <1>4, <1>5 DEF Acts, TransferSteps

------------------------------------------------------------------------------
(* Duels.                                                                   *)

AcceptSteps ==
  {"challengerBalance", "cancelPoor", "lockChallenger", "insertChallenger",
   "lockOpponent", "insertOpponent", "backOff", "resolve", "penalty", "telegram",
   "releaseChallenger", "releaseOpponent"}

(* r is inside acceptAndExecuteDuel, its transfer included.                 *)
Accepting(r) ==
  \/ pc[r] \in AcceptSteps
  \/ pc[r] \in TransferSteps /\ job[r].kind = "duel"

Opponents(u, o) == u \in Users /\ o \in Users /\ u # o

DuelJobs == [kind: {"duel"}, duel: DuelIds, from: Users, to: Users, amt: {Wager}]

(* The local variables of a request that is inside a duel.                  *)
DuelKnows(r) ==
  /\ pc[r] = "menu" /\ job[r].kind = "menu" => Opponents(job[r].user, job[r].data)
  /\ pc[r] \in {"checks", "insert"} =>
       Opponents(job[r].user, job[r].opponent) /\ job[r].cons \in Consequences
  /\ pc[r] \in {"post", "posted"} => job[r].duel \in Rows
  /\ Accepting(r) => job[r] \in DuelJobs /\ job[r].duel \in Rows
  /\ pc[r] = "penalty" => duels[job[r].duel].cons # "none"

(* What the buttons of a menu for a duel carry.                             *)
ForTwo(s) == s.type = "duel_setup" => Opponents(s.user, s.data)

DuelInv ==
  /\ DuelTypeOK
  /\ \A m \in Messages : ForTwo(menusByMessageId[m])
  /\ \A r \in Requests : DuelKnows(r)

(* Where r is, when it is inside a duel or nowhere.                         *)
InDuel(r) ==
  \/ pc[r] \in DuelSteps \ (TransferSteps \cup {"menu"})
  \/ pc[r] = "menu" /\ job[r].kind = "menu"
  \/ pc[r] \in TransferSteps /\ job[r].kind = "duel"

(* A row stays, and so do its players and its stake.                        *)
RowsLast ==
  \A d \in Rows :
    /\ d \in Rows'
    /\ duels'[d].challenger = duels[d].challenger
    /\ duels'[d].opponent = duels[d].opponent
    /\ duels'[d].cons = duels[d].cons

(* What an update of a row leaves of it.                                    *)
SamePlayers(new, row) ==
  /\ new \in DuelRow
  /\ new.challenger = row.challenger /\ new.opponent = row.opponent
  /\ new.cons = row.cons

(* UPDATE duels SET status = s.                                             *)
LEMMA StatusUpdate ==
  ASSUME NEW row \in DuelRow,
         NEW s \in {"cancelled", "rejected", "expired", "completed"}
  PROVE  LET new == [row EXCEPT !.status = s]
         IN  SamePlayers(new, row) /\ new.status = s /\ new.paid = row.paid
<1> DEFINE new == [row EXCEPT !.status = s]
<1>1. new \in DuelRow
  BY DEF DuelRow
<1> QED
  BY <1>1 DEF SamePlayers, DuelRow

(* The columns of the challenge message and of the age.                     *)
LEMMA ShownUpdate ==
  ASSUME NEW row \in DuelRow, NEW s \in {"message", "row"}
  PROVE  LET new == [row EXCEPT !.shown = s]
         IN  SamePlayers(new, row) /\ new.status = row.status /\ new.paid = row.paid
<1> DEFINE new == [row EXCEPT !.shown = s]
<1>1. new \in DuelRow
  BY DEF DuelRow
<1> QED
  BY <1>1 DEF SamePlayers, DuelRow

LEMMA AgeUpdate ==
  ASSUME NEW row \in DuelRow
  PROVE  LET new == [row EXCEPT !.old = TRUE]
         IN  SamePlayers(new, row) /\ new.status = row.status /\ new.paid = row.paid
<1> DEFINE new == [row EXCEPT !.old = TRUE]
<1>1. new \in DuelRow
  BY DEF DuelRow
<1> QED
  BY <1>1 DEF SamePlayers, DuelRow

(* The transfer that a duel has been paid with.                             *)
LEMMA PaidUpdate ==
  ASSUME NEW row \in DuelRow, NEW n \in Nat
  PROVE  LET new == [row EXCEPT !.paid = n]
         IN  SamePlayers(new, row) /\ new.status = row.status /\ new.paid = n
<1> DEFINE new == [row EXCEPT !.paid = n]
<1>1. new \in DuelRow
  BY DEF DuelRow
<1> QED
  BY <1>1 DEF SamePlayers, DuelRow

(* The completion of a duel that u has lost.                                *)
LEMMA CompletedUpdate ==
  ASSUME NEW row \in DuelRow, NEW u \in Users
  PROVE  LET new == [row EXCEPT !.status = "completed", !.loser = u]
         IN  SamePlayers(new, row) /\ new.status = "completed" /\ new.paid = row.paid
<1> DEFINE new == [row EXCEPT !.status = "completed", !.loser = u]
<1>1. new \in DuelRow
  BY DEF DuelRow
<1> QED
  BY <1>1 DEF SamePlayers, DuelRow

LEMMA RowIsThere == \A row \in DuelRow : row # NoDuel
BY DEF DuelRow, NoDuel

(* An UPDATE of a row that keeps its players.                               *)
LEMMA UpdateKeepsRows ==
  ASSUME DuelTypeOK, NEW d \in Rows, NEW row, SamePlayers(row, duels[d]),
         duels' = [duels EXCEPT ![d] = row]
  PROVE  /\ DOMAIN duels' = DuelIds
         /\ \A e \in Rows' :
              duels'[e] \in DuelRow /\ duels'[e].challenger # duels'[e].opponent
         /\ RowsLast
         /\ duels'[d] = row
         /\ \A e \in DuelIds \ {d} : duels'[e] = duels[e]
         /\ Rows' = Rows
<1>1. d \in DuelIds /\ DOMAIN duels = DuelIds
  BY DEF Rows, DuelTypeOK
<1>2. row # NoDuel
  BY RowIsThere DEF SamePlayers
<1>3. duels'[d] = row /\ \A e \in DuelIds \ {d} : duels'[e] = duels[e]
  BY <1>1
<1>4. Rows' = Rows
  BY <1>1, <1>2, <1>3 DEF Rows
<1>5. DOMAIN duels' = DuelIds
  BY <1>1
<1>6. ASSUME NEW e \in Rows
      PROVE  /\ duels'[e] \in DuelRow /\ duels'[e].challenger # duels'[e].opponent
             /\ duels'[e].challenger = duels[e].challenger
             /\ duels'[e].opponent = duels[e].opponent
             /\ duels'[e].cons = duels[e].cons
  <2>1. e \in DuelIds /\ duels[e] \in DuelRow /\ duels[e].challenger # duels[e].opponent
    BY DEF Rows, DuelTypeOK
  <2> QED
    BY <1>3, <2>1 DEF SamePlayers
<1> QED
  BY <1>3, <1>4, <1>5, <1>6 DEF RowsLast

(* Nothing happens to the rows.                                             *)
LEMMA SameRowsLast == UNCHANGED duels => RowsLast /\ Rows' = Rows
BY DEF RowsLast, Rows

(* The local variables of the others stay true of the rows.                 *)
LEMMA DuelKnowsKept ==
  ASSUME MenuJobs, NEW r, NEW q \in Requests \ {r}, Moves(r), RowsLast, DuelKnows(q)
  PROVE  DuelKnows(q)'
<1>1. pc'[q] = pc[q] /\ job'[q] = job[q]
  BY DEF MenuJobs, Moves
<1>2. Accepting(q)' <=> Accepting(q)
  BY <1>1 DEF Accepting
<1>3. pc[q] = "penalty" => Accepting(q)
  BY DEF Accepting, AcceptSteps
<1> QED
  BY <1>1, <1>2, <1>3 DEF DuelKnows, RowsLast

(* The menus a step leaves are old ones, or one that r has opened.          *)
LEMMA DuelMenusKept ==
  ASSUME \A m \in Messages : ForTwo(menusByMessageId[m]),
         \A m \in Messages :
           \/ menusByMessageId'[m] = menusByMessageId[m]
           \/ ForTwo(menusByMessageId'[m])
  PROVE  \A m \in Messages : ForTwo(menusByMessageId'[m])
OBVIOUS

(* Removing sessions.                                                       *)
LEMMA CleanupForgets ==
  ASSUME NEW S, Cleanup(S)
  PROVE  \A m \in Messages : \/ menusByMessageId'[m] = menusByMessageId[m]
                             \/ menusByMessageId'[m] = NoSession
BY DEF Cleanup

LEMMA NoChallengeThere == ForTwo(NoSession)
BY DEF ForTwo, NoSession

(* Opening a menu.                                                          *)
LEMMA CreateOpens ==
  ASSUME Menus, NEW u, NEW c, NEW n \in Messages, NEW t, NEW data,
         createMenuSession(u, c, n, t, data)
  PROVE  \A m \in Messages : \/ menusByMessageId'[m] = menusByMessageId[m]
                             \/ menusByMessageId'[m] = NoSession
                             \/ menusByMessageId'[m] = Session(u, c, n, t, data)
BY DEF createMenuSession, menuVars

(* What a step of a duel has to show for the invariant.                     *)
LEMMA DuelStepKeeps ==
  ASSUME MenuJobs, DuelInv, NEW r \in Requests, Moves(r), RowsLast,
         DuelTypeOK', DuelKnows(r)',
         \A m \in Messages : \/ menusByMessageId'[m] = menusByMessageId[m]
                             \/ ForTwo(menusByMessageId'[m])
  PROVE  DuelInv'
<1>1. \A q \in Requests : DuelKnows(q)'
  BY DuelKnowsKept DEF DuelInv
<1>2. \A m \in Messages : ForTwo(menusByMessageId'[m])
  BY DuelMenusKept DEF DuelInv
<1> QED
  BY <1>1, <1>2 DEF DuelInv, ForTwo

(* The tables of duels as they were.                                        *)
LEMMA SameTables ==
  ASSUME DuelTypeOK, UNCHANGED duelVars
  PROVE  DuelTypeOK' /\ RowsLast
BY SameRowsLast DEF DuelTypeOK, duelVars, LockTypeOK, Rows, RowsLast

Done(r) == Acts(r) /\ InDuel(r) /\ InDuel(r)' /\ RowsLast /\ DuelInv'

(* A step that neither touches the tables nor opens a menu.                 *)
LEMMA LooksOnly ==
  ASSUME MenuJobs, DuelInv, NEW r \in Requests, Moves(r), UNCHANGED duelVars,
         DuelKnows(r)',
         \A m \in Messages : \/ menusByMessageId'[m] = menusByMessageId[m]
                             \/ menusByMessageId'[m] = NoSession
  PROVE  RowsLast /\ DuelInv'
<1>1. DuelTypeOK' /\ RowsLast
  BY SameTables DEF DuelInv
<1>2. \A m \in Messages : \/ menusByMessageId'[m] = menusByMessageId[m]
                          \/ ForTwo(menusByMessageId'[m])
  BY NoChallengeThere
<1> QED
  BY <1>1, <1>2, DuelStepKeeps

(* A step that ends a handler, whatever it did to the tables.               *)
LEMMA IdleKnows == \A r : pc'[r] = "idle" => DuelKnows(r)' /\ InDuel(r)'
BY DEF DuelKnows, Accepting, AcceptSteps, TransferSteps, InDuel, DuelSteps

(* /duel and its menu.                                                      *)
LEMMA DuelSetupDone ==
  ASSUME MenuInv, Loop, DuelInv, NEW r \in Requests, DuelSetup(r)
  PROVE  Done(r)
<1> USE DEF MenuInv
<1>1. ASSUME NEW u \in Users, NEW o \in Users, NEW c \in Chats, DuelCommand(r, u, o, c)
      PROVE  Done(r)
  <2>1. /\ Acts(r) /\ pc[r] = "idle" /\ pc'[r] = "menu"
        /\ job'[r] = [kind |-> "menu", user |-> u, data |-> o, chat |-> c]
    BY <1>1, ActsStart DEF DuelCommand
  <2>2. \A m \in Messages : \/ menusByMessageId'[m] = menusByMessageId[m]
                            \/ menusByMessageId'[m] = NoSession
    BY <1>1, CleanupForgets DEF DuelCommand, noActiveMenu
  <2>3. DuelKnows(r)'
    BY <1>1, <2>1 DEF DuelCommand, DuelKnows, Opponents, Accepting, AcceptSteps,
                      TransferSteps
  <2>4. RowsLast /\ DuelInv'
    BY <1>1, <2>1, <2>2, <2>3, LooksOnly DEF DuelCommand, Acts
  <2> QED
    BY <2>1, <2>4 DEF Done, InDuel, DuelSteps, TransferSteps
<1>2. ASSUME NEW m \in Messages, DuelMenuShown(r, m)
      PROVE  Done(r)
  <2>1. Acts(r) /\ pc'[r] = "idle"
    BY <1>2, ActsFinish DEF DuelMenuShown
  <2>2. pc[r] = "menu" /\ job[r].kind = "menu" /\ Opponents(job[r].user, job[r].data)
    BY <1>2 DEF DuelMenuShown, DuelInv, DuelKnows
  <2>3. ForTwo(Session(job[r].user, job[r].chat, m, "duel_setup", job[r].data))
    BY <2>2 DEF ForTwo, Session
  <2>4. \A n \in Messages : \/ menusByMessageId'[n] = menusByMessageId[n]
                            \/ ForTwo(menusByMessageId'[n])
    BY <1>2, <2>3, CreateOpens, NoChallengeThere DEF DuelMenuShown
  <2>5. RowsLast /\ DuelInv'
    BY <1>2, <2>1, <2>4, IdleKnows, DuelStepKeeps, SameTables
       DEF DuelMenuShown, Acts, DuelInv
  <2> QED
    BY <2>1, <2>2, <2>5, IdleKnows DEF Done, InDuel
<1>3. ASSUME NEW u \in Users, NEW m \in Messages, NEW cons \in Consequences,
             ChooseConsequence(r, u, m, cons)
      PROVE  Done(r)
  <2>1. /\ Acts(r) /\ pc[r] = "idle" /\ pc'[r] = "checks"
        /\ job'[r] = [kind |-> "create", user |-> u,
                      opponent |-> menusByMessageId[m].data, message |-> m,
                      cons |-> cons]
    BY <1>3, ActsStart DEF ChooseConsequence
  <2>2. Opponents(u, menusByMessageId[m].data)
    BY <1>3 DEF ChooseConsequence, mayInteract, DuelInv, ForTwo
  <2>3. DuelKnows(r)'
    BY <1>3, <2>1, <2>2 DEF DuelKnows, Accepting, AcceptSteps, TransferSteps
  <2>4. RowsLast /\ DuelInv'
    BY <1>3, <2>1, <2>3, LooksOnly DEF ChooseConsequence, Acts, menuVars
  <2> QED
    BY <2>1, <2>4 DEF Done, InDuel, DuelSteps, TransferSteps
<1>4. CASE CreateChecks(r)
  <2>1. \A m \in Messages : \/ menusByMessageId'[m] = menusByMessageId[m]
                            \/ menusByMessageId'[m] = NoSession
    BY <1>4, CleanupForgets DEF CreateChecks
  <2>2. /\ pc[r] = "checks"
        /\ Opponents(job[r].user, job[r].opponent) /\ job[r].cons \in Consequences
    BY <1>4 DEF CreateChecks, DuelInv, DuelKnows
  <2>3. CASE Tick(r) /\ Continue(r, "insert") /\ UNCHANGED job
    <3>1. Acts(r) /\ pc'[r] = "insert" /\ job'[r] = job[r]
      BY <2>3, ActsContinue
    <3>2. DuelKnows(r)'
      BY <2>2, <3>1 DEF DuelKnows, Accepting, AcceptSteps, TransferSteps
    <3>3. RowsLast /\ DuelInv'
      BY <1>4, <2>1, <3>1, <3>2, LooksOnly DEF CreateChecks, Acts
    <3> QED
      BY <2>2, <3>1, <3>3 DEF Done, InDuel, DuelSteps, TransferSteps
  <2>4. CASE Suspend(r) /\ Finish(r)
    <3>1. Acts(r) /\ pc'[r] = "idle"
      BY <2>4, ActsFinish
    <3>2. RowsLast /\ DuelInv'
      BY <1>4, <2>1, <3>1, IdleKnows, LooksOnly DEF CreateChecks, Acts
    <3> QED
      BY <2>2, <3>1, <3>2, IdleKnows DEF Done, InDuel, DuelSteps, TransferSteps
  <2> QED
    BY <1>4, <2>3, <2>4 DEF CreateChecks
<1>5. ASSUME NEW d \in DuelIds, InsertDuel(r, d)
      PROVE  Done(r)
  <2> DEFINE row == NewDuel(job[r].user, job[r].opponent, job[r].cons)
  <2>1. /\ pc[r] = "insert" /\ d \notin Rows
        /\ Opponents(job[r].user, job[r].opponent) /\ job[r].cons \in Consequences
    BY <1>5 DEF InsertDuel, DuelInv, DuelKnows
  <2>2. row \in DuelRow /\ row.challenger # row.opponent
    BY <2>1 DEF NewDuel, DuelRow, Opponents
  <2>3. DOMAIN duels = DuelIds /\ duels' = [duels EXCEPT ![d] = row]
    BY <1>5 DEF InsertDuel, DuelInv, DuelTypeOK
  <2> HIDE DEF row
  <2>4. /\ duels'[d] = row /\ \A e \in DuelIds \ {d} : duels'[e] = duels[e]
        /\ DOMAIN duels' = DuelIds
    BY <2>3
  <2>5. Rows' = Rows \cup {d}
    BY <2>2, <2>4, RowIsThere DEF Rows
  <2>6. RowsLast
    BY <2>1, <2>4, <2>5 DEF RowsLast, Rows
  <2>7. \A e \in Rows' : duels'[e] \in DuelRow
                         /\ duels'[e].challenger # duels'[e].opponent
    BY <2>1, <2>2, <2>4, <2>5 DEF Rows, DuelInv, DuelTypeOK
  <2>8. DuelTypeOK'
    BY <1>5, <2>4, <2>7 DEF InsertDuel, DuelInv, DuelTypeOK, LockTypeOK
  <2>9. Moves(r) /\ pc'[r] = "post" /\ job'[r] = [kind |-> "post", duel |-> d]
    BY <1>5 DEF InsertDuel, Moves, MenuJobs
  <2>10. Acts(r)
    BY <1>5, <2>9, RunsSuspend DEF InsertDuel, Acts
  <2>11. DuelKnows(r)'
    BY <2>5, <2>9 DEF DuelKnows, Accepting, AcceptSteps, TransferSteps
  <2>12. DuelInv'
    BY <1>5, <2>6, <2>8, <2>9, <2>11, DuelStepKeeps DEF InsertDuel, menuVars
  <2> QED
    BY <2>1, <2>6, <2>9, <2>10, <2>12 DEF Done, InDuel, DuelSteps, TransferSteps
<1>6. CASE PostChallenge(r) \/ ChallengePosted(r)
  <2>1. /\ pc[r] \in {"post", "posted"} /\ job[r].duel \in Rows
        /\ duels[job[r].duel] \in DuelRow
    BY <1>6 DEF PostChallenge, ChallengePosted, DuelInv, DuelKnows, DuelTypeOK
  <2>2. /\ Acts(r)
        /\ \/ pc'[r] = "idle"
           \/ pc'[r] = "posted" /\ job'[r] = job[r]
    BY <1>6, ActsContinue, ActsFinish DEF PostChallenge, ChallengePosted
  <2>3. DuelTypeOK' /\ RowsLast
    <3>1. CASE UNCHANGED duels
      BY <1>6, <3>1, SameTables DEF PostChallenge, ChallengePosted, duelVars, DuelInv
    <3>2. ASSUME NEW s \in {"message", "row"},
                 duels' = [duels EXCEPT ![job[r].duel].shown = s]
          PROVE  DuelTypeOK' /\ RowsLast
      <4> DEFINE new == [duels[job[r].duel] EXCEPT !.shown = s]
      <4>1. SamePlayers(new, duels[job[r].duel])
        BY <2>1, ShownUpdate
      <4>2. duels' = [duels EXCEPT ![job[r].duel] = new]
        BY <3>2
      <4> HIDE DEF new
      <4>3. DuelTypeOK
        BY DEF DuelInv
      <4> QED
        BY <1>6, <2>1, <4>1, <4>2, <4>3, UpdateKeepsRows
           DEF PostChallenge, ChallengePosted, DuelTypeOK, LockTypeOK
    <3> QED
      BY <1>6, <3>1, <3>2 DEF PostChallenge, ChallengePosted
  <2>4. DuelKnows(r)'
    BY <2>1, <2>2, <2>3, IdleKnows
       DEF DuelKnows, RowsLast, Accepting, AcceptSteps, TransferSteps
  <2>5. DuelInv'
    BY <1>6, <2>2, <2>3, <2>4, DuelStepKeeps
       DEF PostChallenge, ChallengePosted, menuVars, Acts
  <2> QED
    BY <2>1, <2>2, <2>3, <2>5 DEF Done, InDuel, DuelSteps, TransferSteps
<1> QED
  BY <1>1, <1>2, <1>3, <1>4, <1>5, <1>6 DEF DuelSetup

(* The rows of transaction_locks keep their type.                           *)
LEMMA LocksKeepType ==
  ASSUME LockTypeOK, NEW r, NEW u, NEW S,
         \/ r \in Requests /\ InsertLock(u, "duel", r)
         \/ r \in Requests /\ InsertLock(u, "withdrawal", r)
         \/ DeleteLocks(S) \/ Elapse(u)
  PROVE  LockTypeOK'
<1>1. /\ NoLock \in Locks
      /\ r \in Requests =>
           NewLock("duel", r) \in Locks /\ NewLock("withdrawal", r) \in Locks
      /\ \A row \in Locks : [row EXCEPT !.expired = TRUE] \in Locks
  BY DEF NoLock, NewLock, Locks, LockTypes
<1> QED
  BY <1>1 DEF LockTypeOK, InsertLock, DeleteLocks, Elapse

(* A step of acceptAndExecuteDuel looks at no menu.                         *)
LEMMA AcceptKeeps ==
  ASSUME MenuJobs, DuelInv, NEW r \in Requests, Acts(r), InDuel(r), InDuel(r)',
         UNCHANGED menuVars, DuelTypeOK', RowsLast, DuelKnows(r)'
  PROVE  Done(r)
BY DuelStepKeeps DEF Done, Acts, menuVars

(* Going on in acceptAndExecuteDuel, with the same local variables.         *)
LEMMA GoesOn ==
  ASSUME NEW r \in Requests, DuelKnows(r), Accepting(r), RowsLast,
         pc'[r] \in (AcceptSteps \ {"penalty"}) \cup TransferSteps,
         job'[r] = job[r]
  PROVE  DuelKnows(r)' /\ InDuel(r)'
<1>1. job[r] \in DuelJobs /\ job[r].duel \in Rows'
  BY DEF DuelKnows, RowsLast
<1>2. job[r].kind = "duel"
  BY <1>1 DEF DuelJobs
<1> QED
  BY <1>1, <1>2 DEF DuelKnows, InDuel, DuelSteps, AcceptSteps, TransferSteps

(* Who is accepting is inside a duel.                                       *)
LEMMA AcceptingIn ==
  ASSUME NEW r, Accepting(r)
  PROVE  InDuel(r)
BY DEF Accepting, InDuel, AcceptSteps, DuelSteps, TransferSteps

LEMMA DuelFightDone ==
  ASSUME MenuInv, Loop, DuelInv, NEW r \in Requests, DuelFight(r)
  PROVE  Done(r)
<1> USE DEF MenuInv
<1>0. DuelTypeOK /\ LockTypeOK
  BY DEF DuelInv, DuelTypeOK
<1>1. ASSUME NEW u \in Users, NEW d \in DuelIds, AcceptDuel(r, u, d)
      PROVE  Done(r)
  <2> DEFINE j == [kind |-> "duel", duel |-> d, from |-> u,
                   to |-> duels[d].challenger, amt |-> Wager]
  <2>1. /\ Acts(r) /\ pc[r] = "idle" /\ pc'[r] = "challengerBalance" /\ job'[r] = j
    BY <1>1, ActsStart DEF AcceptDuel
  <2>2. d \in Rows /\ duels[d] \in DuelRow
    BY <1>0, <1>1 DEF AcceptDuel, acceptable, Pending, DuelTypeOK
  <2>3. j \in DuelJobs
    BY <2>2 DEF DuelJobs, DuelRow
  <2>4. DuelTypeOK' /\ RowsLast
    BY <1>0, <1>1, SameTables DEF AcceptDuel
  <2> HIDE DEF j
  <2>5. j.duel = d
    BY DEF j
  <2>6. DuelKnows(r)'
    BY <2>1, <2>2, <2>3, <2>4, <2>5 DEF DuelKnows, RowsLast
  <2>7. InDuel(r) /\ InDuel(r)' /\ UNCHANGED menuVars
    BY <1>1, <2>1 DEF AcceptDuel, InDuel, DuelSteps, TransferSteps
  <2> QED
    BY <2>1, <2>4, <2>6, <2>7, AcceptKeeps
<1>2. ASSUME AcceptStep(r)
      PROVE  Done(r)
  <2>0. UNCHANGED menuVars
    BY <1>2 DEF AcceptStep
  <2>1. Accepting(r) /\ InDuel(r)
    <3>1. Accepting(r)
      BY <1>2 DEF AcceptStep, Accepting, AcceptSteps, CheckChallenger, CancelPoor,
                  LockChallenger, LockOpponent, BackOff, Pay, Resolve, ReadLock,
                  ApplyConsequence, PenaltyAnswered, ReleaseDuelLocks,
                  TransferStep, TransferSteps
    <3> QED
      BY <3>1, AcceptingIn
  <2>2. /\ job[r] \in DuelJobs /\ job[r].duel \in Rows /\ DuelKnows(r)
        /\ duels[job[r].duel] \in DuelRow /\ challenger(r) # opponent(r)
    BY <1>0, <2>1 DEF DuelInv, DuelKnows, DuelTypeOK, challenger, opponent
  \* A step that ends the handler.
  <2>3. ASSUME Finish(r), Suspend(r), DuelTypeOK', RowsLast
        PROVE  Done(r)
    BY <2>0, <2>1, <2>3, ActsFinish, IdleKnows, AcceptKeeps
  \* A step after which it goes on.
  <2>4. ASSUME NEW step \in (AcceptSteps \ {"penalty"}) \cup TransferSteps,
               Continue(r, step), UNCHANGED job, Tick(r) \/ Suspend(r) \/ Wake(r),
               DuelTypeOK', RowsLast
        PROVE  Done(r)
    <3>1. step # "idle"
      BY DEF AcceptSteps, TransferSteps
    <3>2. Acts(r) /\ pc'[r] = step /\ job'[r] = job[r]
      BY <2>4, <3>1, ActsContinue
    <3>3. DuelKnows(r)' /\ InDuel(r)'
      BY <2>1, <2>2, <2>4, <3>2, GoesOn
    <3> QED
      BY <2>0, <2>1, <2>4, <3>2, <3>3, AcceptKeeps
  \* A step that leaves the tables alone.
  <2>5. ASSUME UNCHANGED duelVars
        PROVE  DuelTypeOK' /\ RowsLast
    BY <1>0, <2>5, SameTables
  \* A step on the locks only.
  <2>6. ASSUME NEW u, NEW S, InsertLock(u, "duel", r) \/ DeleteLocks(S),
               UNCHANGED << duels, penalties >>
        PROVE  DuelTypeOK' /\ RowsLast
    <3>1. LockTypeOK'
      BY <1>0, <2>6, LocksKeepType
    <3> QED
      BY <1>0, <2>6, <3>1, SameRowsLast DEF DuelTypeOK, Rows
  \* An UPDATE of the row.
  <2>7. ASSUME NEW row, SamePlayers(row, duels[job[r].duel]),
               duels' = [duels EXCEPT ![job[r].duel] = row],
               UNCHANGED << locks, penalties >>
        PROVE  DuelTypeOK' /\ RowsLast
    BY <1>0, <2>2, <2>7, UpdateKeepsRows DEF DuelTypeOK, LockTypeOK
  <2>8. CASE CheckChallenger(r)
    <3>1. PICK step \in {"lockChallenger", "cancelPoor"} :
            Continue(r, step) /\ Tick(r) /\ UNCHANGED << job, duelVars >>
      BY <2>8 DEF CheckChallenger
    <3> QED
      BY <2>4, <2>5, <3>1 DEF AcceptSteps
  <2>9. CASE CancelPoor(r)
    <3> DEFINE new == [duels[job[r].duel] EXCEPT !.status = "cancelled"]
    <3>1. SamePlayers(new, duels[job[r].duel])
      BY <2>2, StatusUpdate
    <3>2. duels' = [duels EXCEPT ![job[r].duel] = new]
      BY <2>9 DEF CancelPoor, SetStatus
    <3> HIDE DEF new
    <3> QED
      BY <2>3, <2>7, <2>9, <3>1, <3>2 DEF CancelPoor
  <2>10. CASE LockChallenger(r)
    <3>1. CASE ReadLock(r, challenger(r), "lockChallenger", "insertChallenger", GiveUp(r))
      BY <2>3, <2>4, <2>5, <3>1 DEF ReadLock, GiveUp, AcceptSteps
    <3>2. CASE /\ Tick(r) /\ InsertLock(challenger(r), "duel", r)
               /\ Continue(r, "lockOpponent")
               /\ UNCHANGED << job, ledgerVars, duels, penalties >>
      BY <2>4, <2>6, <3>2 DEF AcceptSteps
    <3>3. CASE GiveUp(r) /\ UNCHANGED << ledgerVars, duelVars >>
      BY <2>3, <2>5, <3>3 DEF GiveUp
    <3> QED
      BY <2>10, <3>1, <3>2, <3>3 DEF LockChallenger
  <2>11. CASE LockOpponent(r)
    <3>1. CASE ReadLock(r, opponent(r), "lockOpponent", "insertOpponent",
                        Tick(r) /\ Continue(r, "backOff") /\ UNCHANGED job)
      BY <2>4, <2>5, <3>1 DEF ReadLock, AcceptSteps
    <3>2. CASE /\ Tick(r) /\ InsertLock(opponent(r), "duel", r)
               /\ Fight(r) /\ Continue(r, "readFrom")
               /\ UNCHANGED << ledgerVars, duels, penalties >>
      <4>1. DuelTypeOK' /\ RowsLast
        BY <2>6, <3>2
      <4>2. PICK loser \in {challenger(r), opponent(r)} :
              job' = [job EXCEPT ![r].from = loser,
                                 ![r].to = IF loser = opponent(r) THEN challenger(r)
                                           ELSE opponent(r)]
        BY <3>2 DEF Fight
      <4>3. challenger(r) \in Users /\ opponent(r) \in Users
        BY <2>2 DEF challenger, opponent, DuelRow
      <4>4. PICK winner \in Users : job' = [job EXCEPT ![r].from = loser,
                                                       ![r].to = winner]
        BY <4>2, <4>3
      <4>5. ASSUME NEW j \in DuelJobs
            PROVE  /\ [j EXCEPT !.from = loser, !.to = winner] \in DuelJobs
                   /\ [j EXCEPT !.from = loser, !.to = winner].duel = j.duel
        BY <4>3 DEF DuelJobs
      <4>6. DOMAIN job = Requests /\ DOMAIN pc = Requests
        BY DEF MenuJobs
      <4>7. job'[r] \in DuelJobs /\ job'[r].duel = job[r].duel
        BY <2>2, <4>4, <4>5, <4>6
      <4>8. pc'[r] = "readFrom" /\ Moves(r)
        BY <3>2, <4>4, <4>6 DEF Continue, Moves, MenuJobs
      <4>9. Acts(r)
        BY <3>2, <4>8, RunsTick DEF Acts
      <4>10. job'[r].kind = "duel"
        BY <4>7 DEF DuelJobs
      <4>11. DuelKnows(r)' /\ InDuel(r)'
        BY <2>2, <4>1, <4>7, <4>8, <4>10
           DEF DuelKnows, InDuel, RowsLast, TransferSteps
      <4> QED
        BY <2>0, <2>1, <4>1, <4>9, <4>11, AcceptKeeps
    <3>3. CASE GiveUp(r) /\ UNCHANGED << ledgerVars, duelVars >>
      BY <2>3, <2>5, <3>3 DEF GiveUp
    <3> QED
      BY <2>11, <3>1, <3>2, <3>3 DEF LockOpponent
  <2>12. CASE BackOff(r)
    BY <2>3, <2>6, <2>12 DEF BackOff
  <2>13. CASE Pay(r)
    <3>1. DuelTypeOK' /\ RowsLast
      <4>1. CASE pc[r] = "record"
        <5> DEFINE n == duels[job[r].duel].paid + 1
        <5>1. n \in Nat
          BY <2>2 DEF DuelRow
        <5>2. duels' = [duels EXCEPT ![job[r].duel] =
                          [duels[job[r].duel] EXCEPT !.paid = n]]
          BY <2>13, <4>1 DEF Pay
        <5> HIDE DEF n
        <5> DEFINE new == [duels[job[r].duel] EXCEPT !.paid = n]
        <5>3. SamePlayers(new, duels[job[r].duel])
          BY <2>2, <5>1, PaidUpdate
        <5> HIDE DEF new
        <5> QED
          BY <2>7, <2>13, <5>2, <5>3 DEF Pay, new
      <4>2. CASE pc[r] # "record"
        BY <2>5, <2>13, <4>2 DEF Pay, duelVars
      <4> QED
        BY <4>1, <4>2
    <3>2. /\ Acts(r) /\ job'[r] = job[r]
          /\ pc'[r] \in {"resolve", "releaseChallenger"} \cup TransferSteps
      BY <2>13, ActsTransfer DEF Pay
    <3>3. DuelKnows(r)' /\ InDuel(r)'
      <4>1. pc'[r] \in (AcceptSteps \ {"penalty"}) \cup TransferSteps
        BY <3>2 DEF AcceptSteps
      <4> QED
        BY <2>1, <2>2, <3>1, <3>2, <4>1, GoesOn
    <3> QED
      BY <2>0, <2>1, <3>1, <3>2, <3>3, AcceptKeeps
  <2>14. CASE Resolve(r)
    <3> DEFINE new == [duels[job[r].duel] EXCEPT !.status = "completed",
                                                 !.loser = job[r].from]
               step == afterResolve(duels[job[r].duel].cons)
    <3>1. SamePlayers(new, duels[job[r].duel])
      BY <2>2, CompletedUpdate DEF DuelJobs
    <3>2. duels' = [duels EXCEPT ![job[r].duel] = new]
      BY <2>14 DEF Resolve
    <3> HIDE DEF new
    <3>3. DuelTypeOK' /\ RowsLast
      BY <2>7, <2>14, <3>1, <3>2 DEF Resolve
    <3>4. /\ step \in {"releaseChallenger", "penalty"}
          /\ step = "penalty" => duels[job[r].duel].cons # "none"
      BY DEF afterResolve
    <3>5. Continue(r, step) /\ Tick(r) /\ UNCHANGED job
      BY <2>14 DEF Resolve
    <3> HIDE DEF step
    <3>6. Acts(r) /\ pc'[r] = step /\ job'[r] = job[r]
      BY <3>4, <3>5, ActsContinue
    <3>7. DuelKnows(r)' /\ InDuel(r)'
      BY <2>2, <3>3, <3>4, <3>6
         DEF DuelKnows, InDuel, RowsLast, TransferSteps, DuelSteps, Accepting,
             AcceptSteps
    <3> QED
      BY <2>0, <2>1, <3>3, <3>6, <3>7, AcceptKeeps
  <2>15. CASE ApplyConsequence(r)
    <3> DEFINE cons == duels[job[r].duel].cons
    <3>1. cons \in Consequences \ {"none"} /\ job[r].from \in Users
      BY <2>2, <2>15 DEF ApplyConsequence, DuelKnows, DuelRow, DuelJobs
    <3>2. DuelTypeOK' /\ RowsLast
      <4>1. penalties' = [penalties EXCEPT ![job[r].from] = @ \cup {cons}]
        BY <2>15 DEF ApplyConsequence
      <4>2. penalties' \in [Users -> SUBSET (Consequences \ {"none"})]
        BY <1>0, <3>1, <4>1 DEF DuelTypeOK
      <4> QED
        BY <1>0, <2>15, <4>2, SameRowsLast
           DEF ApplyConsequence, DuelTypeOK, LockTypeOK, Rows
    <3>3. PICK step \in {"telegram", "releaseChallenger"} :
            Continue(r, step) /\ (Tick(r) \/ Suspend(r)) /\ UNCHANGED job
      BY <2>15 DEF ApplyConsequence
    <3> QED
      BY <2>4, <3>2, <3>3 DEF AcceptSteps
  <2>16. CASE PenaltyAnswered(r)
    BY <2>4, <2>5, <2>16 DEF PenaltyAnswered, AcceptSteps
  <2>17. CASE ReleaseDuelLocks(r)
    BY <2>3, <2>4, <2>6, <2>17 DEF ReleaseDuelLocks, AcceptSteps
  <2> QED
    BY <1>2, <2>8, <2>9, <2>10, <2>11, <2>12, <2>13, <2>14, <2>15, <2>16, <2>17
       DEF AcceptStep
<1> QED
  BY <1>1, <1>2 DEF DuelFight

------------------------------------------------------------------------------
(* Withdrawals.                                                             *)

(* Nobody else is runnable, and nobody will be before r waits for I/O.      *)
ByItself(r) == ready = {r} /\ ~batch

WithdrawJobs == [kind: {"withdraw"}, user: Users]

(* Between two waits for I/O a withdrawal drains alone.                     *)
Draining == WithdrawSteps \ {"idle", "sending"}

WithdrawKnows(r) ==
  /\ pc[r] \in WithdrawSteps \ {"idle"} => job[r] \in WithdrawJobs
  /\ pc[r] \in Draining => ByItself(r)

WithdrawInv ==
  /\ seized \subseteq Users
  /\ \A r \in Requests : WithdrawKnows(r)

InWithdraw(r) == pc[r] \in WithdrawSteps

(* Who drains alone still does after a step of another request, or makes it *)
(* impossible.                                                              *)
LEMMA StaysByItself ==
  ASSUME Loop, NEW r \in Requests, NEW q \in Requests \ {r}, Acts(r), ByItself(q)
  PROVE  ByItself(q)'
BY DEF Loop, ByItself, Acts, Runs

(* The step of a request outside of withdrawals, or of one that returns.    *)
LEMMA WithdrawElsewhere ==
  ASSUME MenuJobs, Loop, WithdrawInv, NEW r \in Requests, Acts(r),
         seized' \subseteq Users, WithdrawKnows(r)'
  PROVE  WithdrawInv'
<1>1. ASSUME NEW q \in Requests \ {r}
      PROVE  WithdrawKnows(q)'
  <2>1. pc'[q] = pc[q] /\ job'[q] = job[q] /\ WithdrawKnows(q)
    BY DEF WithdrawInv, MenuJobs, Acts, Moves
  <2> QED
    BY <2>1, StaysByItself DEF WithdrawKnows
<1> QED
  BY <1>1 DEF WithdrawInv

LEMMA IdleWithdraws == \A r : pc'[r] = "idle" => WithdrawKnows(r)' /\ InWithdraw(r)'
BY DEF WithdrawKnows, WithdrawSteps, Draining, InWithdraw

WithdrawDone(r) ==
  /\ Acts(r) /\ InWithdraw(r) /\ InWithdraw(r)'
  /\ WithdrawInv' /\ LockTypeOK'

LEMMA WithdrawalsDone ==
  ASSUME MenuInv, Loop, LockTypeOK, WithdrawInv, NEW r \in Requests,
         WithdrawRequest(r)
  PROVE  WithdrawDone(r)
<1> USE DEF MenuInv
<1>0. seized \subseteq Users /\ WithdrawKnows(r)
  BY DEF WithdrawInv
\* Going on within the drain, and returning.
<1>1. ASSUME pc[r] \in Draining, Tick(r), NEW step \in WithdrawSteps \ {"idle"},
             Continue(r, step), UNCHANGED job
      PROVE  Acts(r) /\ InWithdraw(r) /\ InWithdraw(r)' /\ WithdrawKnows(r)'
  <2>1. Acts(r) /\ pc'[r] = step /\ job'[r] = job[r]
    BY <1>1, ActsContinue
  <2>2. ByItself(r)'
    BY <1>0, <1>1 DEF WithdrawKnows, ByItself, Tick
  <2> QED
    BY <1>0, <1>1, <2>1, <2>2 DEF WithdrawKnows, InWithdraw, Draining
<1>2. ASSUME pc[r] \in WithdrawSteps, Suspend(r) \/ Drain, Finish(r)
      PROVE  Acts(r) /\ InWithdraw(r) /\ InWithdraw(r)' /\ WithdrawKnows(r)'
  BY <1>2, ActsFinish, IdleWithdraws DEF InWithdraw
<1>3. ASSUME NEW u, ReleaseWithdrawalLock(u)
      PROVE  UNCHANGED locks
  BY <1>3 DEF ReleaseWithdrawalLock, Releasable
<1>4. ASSUME UNCHANGED locks
      PROVE  LockTypeOK'
  BY <1>4 DEF LockTypeOK
<1>5. ASSUME NEW u \in Users, BeginWithdrawal(r, u)
      PROVE  WithdrawDone(r)
  <2> DEFINE j == [kind |-> "withdraw", user |-> u]
  <2>1. PICK step \in {"seize", "lock"} : Start(r, step, j)
    BY <1>5 DEF BeginWithdrawal
  <2>2. Acts(r) /\ pc[r] = "idle" /\ pc'[r] = step /\ job'[r] = j
    BY <1>5, <2>1, ActsStart DEF BeginWithdrawal
  <2>3. j \in WithdrawJobs /\ ByItself(r)'
    BY <1>5 DEF WithdrawJobs, BeginWithdrawal, Wake, ByItself
  <2> HIDE DEF j
  <2>4. WithdrawKnows(r)' /\ InWithdraw(r) /\ InWithdraw(r)'
    BY <2>2, <2>3 DEF WithdrawKnows, InWithdraw, WithdrawSteps
  <2> QED
    BY <1>0, <1>4, <1>5, <2>2, <2>4, WithdrawElsewhere
       DEF BeginWithdrawal, WithdrawDone
<1>6. CASE LockWithdrawal(r)
  <2>1. pc[r] \in Draining /\ job[r].user \in Users
    BY <1>0, <1>6 DEF LockWithdrawal, WithdrawKnows, Draining, WithdrawSteps,
                      WithdrawJobs
  <2>2. Acts(r) /\ InWithdraw(r) /\ InWithdraw(r)' /\ WithdrawKnows(r)'
    BY <1>1, <1>6, <2>1 DEF LockWithdrawal, WithdrawSteps
  <2>3. seized' \subseteq Users /\ LockTypeOK'
    BY <1>0, <1>6, <2>1, LocksKeepType DEF LockWithdrawal
  <2> QED
    BY <2>2, <2>3, WithdrawElsewhere DEF WithdrawDone
<1>7. CASE DebitWithdrawal(r)
  <2>1. pc[r] \in Draining
    BY <1>7 DEF DebitWithdrawal, Draining, WithdrawSteps
  <2>2. CASE pc[r] = "debit"
    BY <1>0, <1>1, <1>4, <1>7, <2>1, <2>2, WithdrawElsewhere
       DEF DebitWithdrawal, WithdrawDone, WithdrawSteps
  <2>3. CASE pc[r] = "logDebit"
    <3>1. Acts(r) /\ pc'[r] = "sending" /\ job'[r] = job[r]
      BY <1>7, <2>3, ActsContinue DEF DebitWithdrawal
    <3>2. WithdrawKnows(r)' /\ InWithdraw(r) /\ InWithdraw(r)'
      BY <1>0, <2>3, <3>1 DEF WithdrawKnows, InWithdraw, WithdrawSteps, Draining
    <3> QED
      BY <1>0, <1>4, <1>7, <3>1, <3>2, WithdrawElsewhere
         DEF DebitWithdrawal, WithdrawDone
  <2> QED
    BY <1>7, <2>2, <2>3 DEF DebitWithdrawal
<1>8. CASE WithdrawalSent(r)
  <2>1. CASE Drain /\ ReleaseWithdrawalLock(job[r].user) /\ Finish(r)
    <3>1. pc[r] \in WithdrawSteps
      BY <1>8 DEF WithdrawalSent, WithdrawSteps
    <3> QED
      BY <1>0, <1>2, <1>3, <1>4, <1>8, <2>1, <3>1, WithdrawElsewhere
         DEF WithdrawalSent, WithdrawDone
  <2>2. CASE Wake(r) /\ Continue(r, "refund") /\ UNCHANGED << job, locks >>
    <3>1. Acts(r) /\ pc'[r] = "refund" /\ job'[r] = job[r]
      BY <2>2, ActsContinue
    <3>2. WithdrawKnows(r)' /\ InWithdraw(r) /\ InWithdraw(r)'
      BY <1>0, <1>8, <2>2, <3>1 DEF WithdrawalSent, WithdrawKnows, InWithdraw,
                                    WithdrawSteps, Wake, ByItself
    <3> QED
      BY <1>0, <1>4, <1>8, <2>2, <3>1, <3>2, WithdrawElsewhere
         DEF WithdrawalSent, WithdrawDone
  <2> QED
    BY <1>8, <2>1, <2>2 DEF WithdrawalSent
<1>9. CASE RefundWithdrawal(r)
  <2>1. pc[r] \in Draining
    BY <1>9 DEF RefundWithdrawal, Draining, WithdrawSteps
  <2>2. CASE pc[r] = "refund"
    BY <1>0, <1>1, <1>4, <1>9, <2>1, <2>2, WithdrawElsewhere
       DEF RefundWithdrawal, WithdrawDone, WithdrawSteps
  <2>3. CASE pc[r] = "logRefund"
    BY <1>0, <1>2, <1>3, <1>4, <1>9, <2>1, <2>3, WithdrawElsewhere
       DEF RefundWithdrawal, WithdrawDone, Draining
  <2> QED
    BY <1>9, <2>2, <2>3 DEF RefundWithdrawal
<1> QED
  BY <1>5, <1>6, <1>7, <1>8, <1>9 DEF WithdrawRequest

------------------------------------------------------------------------------
(* Giveaways.                                                               *)

(* The kinds of transfer, as in afterTransfer.                              *)
Transfers == {"fund", "claim", "cancel"}

MovingSteps ==
  {"announce", "announced", "recordClaim", "countClaim", "completeGiveaway",
   "cancelled", "refused"}

(* r moves money from or to an escrow account, or has done so.              *)
Moving(r) ==
  \/ pc[r] \in MovingSteps
  \/ pc[r] \in TransferSteps /\ job[r].kind \in Transfers

Funders == Users \cup {Treasury}

Offer(data) == data.total \in Totals /\ data.sources \subseteq Funders

NewRows ==
  {row \in GiveawayRow : row.claimed = 0 /\ row.status = "active" /\ ~row.shown}

(* Money moves between two accounts: no escrow account is anybody's own.    *)
MovingJobs ==
  {j \in [kind: Transfers, giveaway: GiveawayIds, from: Accounts, to: Accounts,
          amt: Int, read: Nat] : j.from # j.to}

(* The local variables of a request that is inside a giveaway.              *)
GiveawayKnows(r) ==
  /\ pc[r] = "menu" /\ job[r].kind = "giveawayMenu" => Offer(job[r].data)
  /\ pc[r] \in {"create", "insertGiveaway"} => job[r].row \in NewRows
  /\ pc[r] = "claim" => job[r].user \in Users /\ job[r].giveaway \in GiveawayRows
  /\ Moving(r) =>
       /\ job[r] \in MovingJobs /\ job[r].giveaway \in GiveawayRows
       /\ job[r].kind = "claim" =>
            job[r].to \in Users /\ job[r].read < giveaways[job[r].giveaway].slots
  /\ pc[r] \in {"recordClaim", "countClaim"} => job[r].kind = "claim"

(* What the buttons of a menu for a giveaway carry.                         *)
ForMany(s) == s.type = "giveaway_setup" => Offer(s.data)

GiveawayInv ==
  /\ GiveawayTypeOK
  /\ \A m \in Messages : ForMany(menusByMessageId[m])
  /\ \A r \in Requests : GiveawayKnows(r)

InGiveaway(r) ==
  \/ pc[r] \in GiveawaySteps \ (TransferSteps \cup {"menu"})
  \/ pc[r] = "menu" /\ job[r].kind = "giveawayMenu"
  \/ pc[r] \in TransferSteps /\ job[r].kind \in Transfers

(* A row stays, and so does its number of slots.                            *)
GiveawaysLast ==
  \A g \in GiveawayRows :
    g \in GiveawayRows' /\ giveaways'[g].slots = giveaways[g].slots

LEMMA GiveawayIsThere == \A row \in GiveawayRow : row # NoGiveaway
BY DEF GiveawayRow, NoGiveaway

(* The UPDATEs of a row.                                                    *)
LEMMA GiveawayUpdates ==
  ASSUME NEW row \in GiveawayRow
  PROVE  /\ \A s \in {"completed", "cancelled"} :
              LET new == [row EXCEPT !.status = s]
              IN  /\ new \in GiveawayRow /\ new.slots = row.slots
                  /\ new.claimed = row.claimed
         /\ \A n \in Nat :
              LET new == [row EXCEPT !.claimed = n]
              IN  /\ new \in GiveawayRow /\ new.slots = row.slots
                  /\ new.claimed = n
         /\ LET new == [row EXCEPT !.shown = TRUE]
            IN  /\ new \in GiveawayRow /\ new.slots = row.slots
                /\ new.claimed = row.claimed
<1>1. ASSUME NEW s \in {"completed", "cancelled"}
      PROVE  [row EXCEPT !.status = s] \in GiveawayRow
  BY DEF GiveawayRow
<1>2. ASSUME NEW n \in Nat
      PROVE  [row EXCEPT !.claimed = n] \in GiveawayRow
  BY DEF GiveawayRow
<1>3. [row EXCEPT !.shown = TRUE] \in GiveawayRow
  BY DEF GiveawayRow
<1>4. ASSUME NEW s \in {"completed", "cancelled"}
      PROVE  /\ [row EXCEPT !.status = s].slots = row.slots
             /\ [row EXCEPT !.status = s].claimed = row.claimed
  BY DEF GiveawayRow
<1>5. ASSUME NEW n \in Nat
      PROVE  /\ [row EXCEPT !.claimed = n].slots = row.slots
             /\ [row EXCEPT !.claimed = n].claimed = n
  BY DEF GiveawayRow
<1>6. /\ [row EXCEPT !.shown = TRUE].slots = row.slots
      /\ [row EXCEPT !.shown = TRUE].claimed = row.claimed
  BY DEF GiveawayRow
<1> QED
  BY <1>1, <1>2, <1>3, <1>4, <1>5, <1>6

LEMMA UpdateKeepsGiveaways ==
  ASSUME GiveawayTypeOK, NEW g \in GiveawayRows, NEW row \in GiveawayRow,
         row.slots = giveaways[g].slots, row.claimed <= row.slots,
         giveaways' = [giveaways EXCEPT ![g] = row],
         UNCHANGED claims
  PROVE  /\ GiveawayTypeOK' /\ GiveawaysLast /\ giveaways'[g] = row
         /\ \A h \in GiveawayIds \ {g} : giveaways'[h] = giveaways[h]
         /\ GiveawayRows' = GiveawayRows
<1>1. g \in GiveawayIds /\ DOMAIN giveaways = GiveawayIds
  BY DEF GiveawayRows, GiveawayTypeOK
<1>2. giveaways'[g] = row /\ \A h \in GiveawayIds \ {g} : giveaways'[h] = giveaways[h]
  BY <1>1
<1>3. GiveawayRows' = GiveawayRows
  BY <1>1, <1>2, GiveawayIsThere DEF GiveawayRows
<1>4. DOMAIN giveaways' = GiveawayIds
  BY <1>1
<1>5. ASSUME NEW h \in GiveawayRows
      PROVE  /\ giveaways'[h] \in GiveawayRow
             /\ giveaways'[h].claimed <= giveaways'[h].slots
             /\ giveaways'[h].slots = giveaways[h].slots
  <2>1. /\ h \in GiveawayIds /\ giveaways[h] \in GiveawayRow
        /\ giveaways[h].claimed <= giveaways[h].slots
    BY DEF GiveawayRows, GiveawayTypeOK
  <2> QED
    BY <1>2, <2>1
<1>6. claims' \subseteq GiveawayIds \X Users
  BY DEF GiveawayTypeOK
<1> QED
  BY <1>2, <1>3, <1>4, <1>5, <1>6 DEF GiveawayTypeOK, GiveawaysLast

LEMMA SameGiveaways ==
  ASSUME GiveawayTypeOK, UNCHANGED giveawayVars
  PROVE  GiveawayTypeOK' /\ GiveawaysLast
BY DEF GiveawayTypeOK, giveawayVars, GiveawayRows, GiveawaysLast

LEMMA GiveawayKnowsKept ==
  ASSUME MenuJobs, NEW r, NEW q \in Requests \ {r}, Moves(r), GiveawaysLast,
         GiveawayKnows(q)
  PROVE  GiveawayKnows(q)'
<1>1. pc'[q] = pc[q] /\ job'[q] = job[q]
  BY DEF MenuJobs, Moves
<1>2. Moving(q)' <=> Moving(q)
  BY <1>1 DEF Moving
<1> QED
  BY <1>1, <1>2 DEF GiveawayKnows, GiveawaysLast

(* What a step of a giveaway has to show for the invariant.                 *)
LEMMA GiveawayStepKeeps ==
  ASSUME MenuJobs, GiveawayInv, NEW r \in Requests, Moves(r), GiveawaysLast,
         GiveawayTypeOK', GiveawayKnows(r)',
         \A m \in Messages : \/ menusByMessageId'[m] = menusByMessageId[m]
                             \/ ForMany(menusByMessageId'[m])
  PROVE  GiveawayInv'
<1>1. \A q \in Requests : GiveawayKnows(q)'
  BY GiveawayKnowsKept DEF GiveawayInv
<1> QED
  BY <1>1 DEF GiveawayInv, ForMany

LEMMA NoOfferThere == ForMany(NoSession)
BY DEF ForMany, NoSession

LEMMA IdleGives == \A r : pc'[r] = "idle" => GiveawayKnows(r)' /\ InGiveaway(r)'
BY DEF GiveawayKnows, Moving, MovingSteps, TransferSteps, InGiveaway, GiveawaySteps

GiveawayDone(r) == Acts(r) /\ InGiveaway(r) /\ InGiveaway(r)' /\ GiveawayInv'

(* A step that does not touch the tables.                                   *)
LEMMA OffersOnly ==
  ASSUME MenuJobs, GiveawayInv, NEW r \in Requests, Acts(r), UNCHANGED giveawayVars,
         GiveawayKnows(r)', InGiveaway(r), InGiveaway(r)',
         \A m \in Messages : \/ menusByMessageId'[m] = menusByMessageId[m]
                             \/ menusByMessageId'[m] = NoSession
                             \/ ForMany(menusByMessageId'[m])
  PROVE  GiveawayDone(r)
<1>1. GiveawayTypeOK' /\ GiveawaysLast
  BY SameGiveaways DEF GiveawayInv
<1>2. \A m \in Messages : \/ menusByMessageId'[m] = menusByMessageId[m]
                          \/ ForMany(menusByMessageId'[m])
  BY NoOfferThere
<1> QED
  BY <1>1, <1>2, GiveawayStepKeeps DEF GiveawayDone, Acts

LEMMA PerSlotIsNat ==
  ASSUME NEW total \in Nat, NEW slots \in Nat \ {0}
  PROVE  amountPerSlot(total, slots) \in Nat
BY DEF amountPerSlot

LEMMA UnclaimedIsInt ==
  ASSUME NEW g, giveaways[g] \in GiveawayRow
  PROVE  unclaimedAmount(g) \in Int
<1>1. giveaways[g].slots \in Int /\ giveaways[g].claimed \in Int
      /\ giveaways[g].perSlot \in Int
  BY DEF GiveawayRow
<1>2. \A a, b, c \in Int : (a - b) * c \in Int
  OBVIOUS
<1> QED
  BY <1>1, <1>2 DEF unclaimedAmount

(* The two ends of a transfer and its job.                                  *)
LEMMA TransferringIsJob ==
  ASSUME NEW from \in Accounts, NEW to \in Accounts, from # to, NEW amt \in Int,
         NEW kind \in Transfers, NEW g \in GiveawayIds, NEW read \in Nat
  PROVE  LET j == Transferring(from, to, amt, kind, g, read)
         IN  j \in MovingJobs /\ j.kind = kind /\ j.to = to /\ j.read = read
             /\ j.giveaway = g
BY DEF Transferring, MovingJobs

LEMMA FundersAreAccounts == Funders \subseteq Accounts
BY GiveawayAssumption DEF Funders, Accounts

LEMMA EscrowIsAccount ==
  \A g \in GiveawayIds : Escrow(g) \in Accounts /\ Escrow(g) \notin Funders
BY GiveawayAssumption DEF Accounts, Funders

(* A request that goes on moving money.                                     *)
LEMMA MovesOn ==
  ASSUME NEW r \in Requests, GiveawaysLast,
         pc'[r] \in (MovingSteps \cup TransferSteps),
         pc'[r] \in {"recordClaim", "countClaim"} => job[r].kind = "claim",
         Moving(r), GiveawayKnows(r), job'[r] = job[r]
  PROVE  GiveawayKnows(r)' /\ InGiveaway(r)'
<1>1. /\ job[r] \in MovingJobs /\ job[r].giveaway \in GiveawayRows
      /\ job[r].kind \in Transfers
      /\ job[r].kind = "claim" =>
           job[r].to \in Users /\ job[r].read < giveaways[job[r].giveaway].slots
  BY DEF GiveawayKnows, MovingJobs
<1> QED
  BY <1>1 DEF GiveawayKnows, InGiveaway, GiveawaysLast, MovingSteps, TransferSteps,
              GiveawaySteps

LEMMA GiveawaysDone ==
  ASSUME MenuInv, Loop, GiveawayInv, NEW r \in Requests, GiveawayRequest(r)
  PROVE  GiveawayDone(r)
<1> USE DEF MenuInv
<1>0. GiveawayTypeOK /\ GiveawayKnows(r)
  BY DEF GiveawayInv
<1>1. ASSUME NEW u \in Users, NEW c \in Chats, NEW t \in Totals,
             GiveawayCommand(r, u, c, t)
      PROVE  GiveawayDone(r)
  <2> DEFINE offer == [total |-> t, sources |-> fundingSources(u, t)]
  <2>1. /\ Acts(r) /\ pc[r] = "idle" /\ pc'[r] = "menu"
        /\ job'[r] = [kind |-> "giveawayMenu", user |-> u, chat |-> c, data |-> offer]
    BY <1>1, ActsStart DEF GiveawayCommand
  <2>2. \A m \in Messages : \/ menusByMessageId'[m] = menusByMessageId[m]
                            \/ menusByMessageId'[m] = NoSession
    BY <1>1, CleanupForgets DEF GiveawayCommand, noActiveMenu
  <2>3. Offer(offer)
    BY GiveawayAssumption DEF Offer, fundingSources, Funders
  <2> HIDE DEF offer
  <2>4. GiveawayKnows(r)' /\ InGiveaway(r) /\ InGiveaway(r)'
    BY <2>1, <2>3 DEF GiveawayKnows, InGiveaway, GiveawaySteps, Moving, MovingSteps,
                      TransferSteps
  <2> QED
    BY <1>1, <2>1, <2>2, <2>4, OffersOnly DEF GiveawayCommand
<1>2. ASSUME NEW m \in Messages, GiveawayMenuShown(r, m)
      PROVE  GiveawayDone(r)
  <2>1. Acts(r) /\ pc'[r] = "idle"
    BY <1>2, ActsFinish DEF GiveawayMenuShown
  <2>2. pc[r] = "menu" /\ job[r].kind = "giveawayMenu" /\ Offer(job[r].data)
    BY <1>0, <1>2 DEF GiveawayMenuShown, GiveawayKnows
  <2>3. ForMany(Session(job[r].user, job[r].chat, m, "giveaway_setup", job[r].data))
    BY <2>2 DEF ForMany, Session
  <2>4. \A n \in Messages : \/ menusByMessageId'[n] = menusByMessageId[n]
                            \/ menusByMessageId'[n] = NoSession
                            \/ ForMany(menusByMessageId'[n])
    BY <1>2, <2>3, CreateOpens DEF GiveawayMenuShown
  <2>5. InGiveaway(r) /\ InGiveaway(r)' /\ GiveawayKnows(r)'
    BY <2>1, <2>2, IdleGives DEF InGiveaway
  <2> QED
    BY <1>2, <2>1, <2>4, <2>5, OffersOnly DEF GiveawayMenuShown
<1>3. ASSUME NEW u \in Users, NEW m \in Messages, PressCreate(r, u, m)
      PROVE  GiveawayDone(r)
  <2> DEFINE s == menusByMessageId[m]
  <2>1. Offer(s.data)
    BY <1>3 DEF PressCreate, GiveawayInv, ForMany
  <2>2. PICK funder \in s.data.sources, slots \in Slots :
          Start(r, "create", [kind |-> "create", user |-> u, message |-> m,
            row |-> NewGiveaway(u, funder, s.data.total, slots)])
    BY <1>3 DEF PressCreate
  <2> DEFINE row == NewGiveaway(u, funder, s.data.total, slots)
             j == [kind |-> "create", user |-> u, message |-> m, row |-> row]
  <2>3. row \in NewRows
    <3>1. s.data.total \in Nat /\ slots \in Nat \ {0} /\ funder \in Funders
      BY <2>1, GiveawayAssumption DEF Offer
    <3>2. amountPerSlot(s.data.total, slots) \in Nat
      BY <3>1, PerSlotIsNat
    <3> QED
      BY <3>1, <3>2 DEF NewGiveaway, NewRows, GiveawayRow, Funders
  <2> HIDE DEF row, s
  <2>4. /\ Acts(r) /\ pc[r] = "idle" /\ pc'[r] = "create" /\ job'[r] = j
    BY <1>3, <2>2, ActsStart DEF PressCreate, row, s
  <2>5. GiveawayKnows(r)' /\ InGiveaway(r) /\ InGiveaway(r)'
    BY <2>3, <2>4 DEF GiveawayKnows, InGiveaway, GiveawaySteps, Moving, MovingSteps,
                      TransferSteps
  <2> QED
    BY <1>3, <2>4, <2>5, OffersOnly DEF PressCreate, menuVars
<1>4. CASE CreateGiveaway(r)
  <2>1. \A m \in Messages : \/ menusByMessageId'[m] = menusByMessageId[m]
                            \/ menusByMessageId'[m] = NoSession
    BY <1>4, CleanupForgets DEF CreateGiveaway
  <2>2. pc[r] = "create" /\ job[r].row \in NewRows /\ InGiveaway(r)
    BY <1>0, <1>4 DEF CreateGiveaway, GiveawayKnows, InGiveaway, GiveawaySteps,
                      TransferSteps
  <2>3. CASE Wake(r) /\ Continue(r, "insertGiveaway") /\ UNCHANGED job
    <3>1. Acts(r) /\ pc'[r] = "insertGiveaway" /\ job'[r] = job[r]
      BY <2>3, ActsContinue
    <3>2. GiveawayKnows(r)' /\ InGiveaway(r)'
      BY <2>2, <3>1 DEF GiveawayKnows, InGiveaway, GiveawaySteps, Moving,
                        MovingSteps, TransferSteps
    <3> QED
      BY <1>4, <2>1, <2>2, <3>1, <3>2, OffersOnly DEF CreateGiveaway
  <2>4. CASE Drain /\ Finish(r)
    <3>1. Acts(r) /\ pc'[r] = "idle"
      BY <2>4, ActsFinish
    <3> QED
      BY <1>4, <2>1, <2>2, <3>1, IdleGives, OffersOnly DEF CreateGiveaway
  <2> QED
    BY <1>4, <2>3, <2>4 DEF CreateGiveaway
<1>5. ASSUME NEW g \in GiveawayIds, InsertGiveaway(r, g)
      PROVE  GiveawayDone(r)
  <2> DEFINE row == job[r].row
             j == Transferring(row.fundedBy, Escrow(g), row.total, "fund", g, 0)
  <2>1. /\ pc[r] = "insertGiveaway" /\ g \notin GiveawayRows
        /\ row \in GiveawayRow /\ row.claimed = 0
    BY <1>0, <1>5 DEF InsertGiveaway, GiveawayKnows, NewRows
  <2>2. /\ row.fundedBy \in Accounts /\ row.fundedBy # Escrow(g)
        /\ row.total \in Int /\ row.slots \in Nat
    BY <2>1, FundersAreAccounts, EscrowIsAccount DEF GiveawayRow, Funders
  <2>3. j \in MovingJobs /\ j.kind = "fund" /\ j.giveaway = g
    BY <2>2, TransferringIsJob, EscrowIsAccount DEF Transfers
  <2>4. /\ DOMAIN giveaways = GiveawayIds /\ DOMAIN pc = Requests
        /\ DOMAIN job = Requests
    BY <1>0 DEF GiveawayTypeOK, MenuJobs
  <2>5. giveaways' = [giveaways EXCEPT ![g] = row] /\ job' = [job EXCEPT ![r] = j]
    BY <1>5 DEF InsertGiveaway
  <2> HIDE DEF row, j
  <2>6. /\ giveaways'[g] = row /\ DOMAIN giveaways' = GiveawayIds
        /\ \A h \in GiveawayIds \ {g} : giveaways'[h] = giveaways[h]
    BY <2>4, <2>5
  <2>7. GiveawayRows' = GiveawayRows \cup {g}
    BY <2>1, <2>6, GiveawayIsThere DEF GiveawayRows
  <2>8. \A h \in GiveawayRows' :
          giveaways'[h] \in GiveawayRow /\ giveaways'[h].claimed <= giveaways'[h].slots
    BY <1>0, <2>1, <2>2, <2>6, <2>7 DEF GiveawayTypeOK, GiveawayRows
  <2>9. GiveawayTypeOK' /\ GiveawaysLast
    BY <1>0, <1>5, <2>1, <2>6, <2>7, <2>8
       DEF InsertGiveaway, GiveawayTypeOK, GiveawaysLast, GiveawayRows
  <2>10. Moves(r) /\ pc'[r] = "readFrom" /\ job'[r] = j
    BY <1>5, <2>4, <2>5 DEF InsertGiveaway, Continue, Moves, MenuJobs
  <2>11. Acts(r)
    BY <1>5, <2>10, RunsTick DEF InsertGiveaway, Acts
  <2>12. GiveawayKnows(r)' /\ InGiveaway(r)' /\ InGiveaway(r)
    BY <2>1, <2>3, <2>7, <2>10
       DEF GiveawayKnows, InGiveaway, GiveawaySteps, TransferSteps, Transfers
  <2> QED
    BY <1>5, <2>9, <2>11, <2>12, GiveawayStepKeeps
       DEF InsertGiveaway, GiveawayDone, Acts, menuVars
<1> DEFINE row == giveaways[job[r].giveaway]
\* An UPDATE of the row.
<1>6. ASSUME NEW new \in GiveawayRow, job[r].giveaway \in GiveawayRows,
             new.slots = row.slots, new.claimed <= new.slots,
             giveaways' = [giveaways EXCEPT ![job[r].giveaway] = new],
             UNCHANGED claims
      PROVE  GiveawayTypeOK' /\ GiveawaysLast
  BY <1>0, <1>6, UpdateKeepsGiveaways
<1>7. CASE Announce(r)
  <2>1. Moving(r) /\ InGiveaway(r)
    BY <1>7 DEF Announce, Moving, MovingSteps, InGiveaway, GiveawaySteps, TransferSteps
  <2>2. /\ job[r].giveaway \in GiveawayRows /\ row \in GiveawayRow
        /\ row.claimed <= row.slots
    BY <1>0, <2>1 DEF GiveawayKnows, GiveawayTypeOK
  <2>3. CASE /\ pc[r] = "announce" /\ Suspend(r) /\ Continue(r, "announced")
             /\ UNCHANGED << job, ledgerVars, giveawayVars, menuVars >>
    <3>1. Acts(r) /\ pc'[r] = "announced" /\ job'[r] = job[r]
      BY <2>3, ActsContinue
    <3>2. GiveawayKnows(r)' /\ InGiveaway(r)'
      BY <1>0, <2>1, <2>3, <3>1, MovesOn, SameGiveaways DEF MovingSteps
    <3> QED
      BY <2>1, <2>3, <3>1, <3>2, OffersOnly DEF menuVars
  <2>4. CASE /\ Drain /\ Finish(r) /\ UNCHANGED menuVars
             /\ \/ giveaways' = [giveaways EXCEPT ![job[r].giveaway].shown = TRUE]
                   /\ UNCHANGED claims
                \/ UNCHANGED giveawayVars
    <3>1. Acts(r) /\ pc'[r] = "idle"
      BY <2>4, ActsFinish
    <3>2. GiveawayTypeOK' /\ GiveawaysLast
      <4>1. CASE UNCHANGED giveawayVars
        BY <1>0, <4>1, SameGiveaways
      <4>2. CASE giveaways' = [giveaways EXCEPT ![job[r].giveaway].shown = TRUE]
                 /\ UNCHANGED claims
        <5> DEFINE new == [row EXCEPT !.shown = TRUE]
        <5>1. new \in GiveawayRow /\ new.slots = row.slots /\ new.claimed <= new.slots
          BY <2>2, GiveawayUpdates
        <5>2. giveaways' = [giveaways EXCEPT ![job[r].giveaway] = new]
          BY <4>2
        <5> HIDE DEF new
        <5> QED
          BY <1>6, <2>2, <4>2, <5>1, <5>2
      <4> QED
        BY <2>4, <4>1, <4>2
    <3> QED
      BY <2>1, <2>4, <3>1, <3>2, IdleGives, GiveawayStepKeeps
         DEF GiveawayDone, Acts, menuVars
  <2> QED
    BY <1>7, <2>3, <2>4 DEF Announce
<1>8. ASSUME NEW u \in Users, NEW g \in GiveawayIds, PressClaim(r, u, g)
      PROVE  GiveawayDone(r)
  <2>1. /\ Acts(r) /\ pc[r] = "idle" /\ pc'[r] = "claim"
        /\ job'[r] = [kind |-> "claim", user |-> u, giveaway |-> g]
    BY <1>8, ActsStart DEF PressClaim
  <2>2. g \in GiveawayRows'
    BY <1>8 DEF PressClaim, giveawayVars, GiveawayRows
  <2>3. GiveawayKnows(r)' /\ InGiveaway(r) /\ InGiveaway(r)'
    BY <2>1, <2>2 DEF GiveawayKnows, InGiveaway, GiveawaySteps, Moving, MovingSteps,
                      TransferSteps
  <2> QED
    BY <1>8, <2>1, <2>3, OffersOnly DEF PressClaim, menuVars
<1>9. ASSUME NEW u \in Users, NEW g \in GiveawayIds, CancelGiveaway(r, u, g)
      PROVE  GiveawayDone(r)
  <2> DEFINE j == Transferring(Escrow(g), giveaways[g].fundedBy, unclaimedAmount(g),
                               "cancel", g, giveaways[g].claimed)
  <2>1. g \in GiveawayRows /\ giveaways[g] \in GiveawayRow
    BY <1>0, <1>9 DEF CancelGiveaway, Active, GiveawayTypeOK
  <2>2. j \in MovingJobs /\ j.kind = "cancel" /\ j.giveaway = g
    <3>1. /\ giveaways[g].fundedBy \in Accounts /\ giveaways[g].fundedBy # Escrow(g)
          /\ giveaways[g].claimed \in Nat
      BY <2>1, FundersAreAccounts, EscrowIsAccount DEF GiveawayRow, Funders
    <3> QED
      BY <2>1, <3>1, UnclaimedIsInt, TransferringIsJob, EscrowIsAccount DEF Transfers
  <2> HIDE DEF j
  <2>3. PICK step \in {"readFrom", "cancelled"} : Start(r, step, j)
    BY <1>9 DEF CancelGiveaway, j
  <2>4. Acts(r) /\ pc[r] = "idle" /\ pc'[r] = step /\ job'[r] = j
    BY <1>9, <2>3, ActsStart DEF CancelGiveaway
  <2>5. g \in GiveawayRows'
    BY <1>9, <2>1 DEF CancelGiveaway, giveawayVars, GiveawayRows
  <2>6. GiveawayKnows(r)' /\ InGiveaway(r) /\ InGiveaway(r)'
    BY <2>2, <2>4, <2>5
       DEF GiveawayKnows, InGiveaway, GiveawaySteps, TransferSteps, Transfers
  <2> QED
    BY <1>9, <2>4, <2>6, OffersOnly DEF CancelGiveaway, menuVars
<1>10. ASSUME GiveawayStep(r)
       PROVE  GiveawayDone(r)
  <2>0. UNCHANGED menuVars
    BY <1>10 DEF GiveawayStep
  <2>1. CASE BeginClaimSlot(r)
    <3> DEFINE g == job[r].giveaway
               u == job[r].user
               j == Transferring(Escrow(g), u, giveaways[g].perSlot, "claim", g,
                                 giveaways[g].claimed)
    <3>1. pc[r] = "claim" /\ InGiveaway(r) /\ u \in Users /\ g \in GiveawayRows
      BY <1>0, <2>1 DEF BeginClaimSlot, GiveawayKnows, InGiveaway, GiveawaySteps,
                        TransferSteps
    <3>2. CASE /\ claimable(u, g) /\ Wake(r) /\ Continue(r, "readFrom")
               /\ job' = [job EXCEPT ![r] = j]
      <4>1. giveaways[g] \in GiveawayRow /\ g \in GiveawayIds
        BY <1>0, <3>1 DEF GiveawayTypeOK, GiveawayRows
      <4>2. giveaways[g].perSlot \in Int /\ giveaways[g].claimed \in Nat
            /\ u \in Accounts /\ u # Escrow(g)
        BY <3>1, <4>1, EscrowIsAccount DEF GiveawayRow, Accounts, Funders
      <4>3. /\ j \in MovingJobs /\ j.kind = "claim" /\ j.giveaway = g
            /\ j.to = u /\ j.read = giveaways[g].claimed
        BY <4>1, <4>2, TransferringIsJob, EscrowIsAccount DEF Transfers
      <4>4. giveaways[g].claimed < giveaways[g].slots
        BY <3>2 DEF claimable
      <4>5. DOMAIN job = Requests /\ DOMAIN pc = Requests
        BY DEF MenuJobs
      <4> HIDE DEF j
      <4>6. Moves(r) /\ pc'[r] = "readFrom" /\ job'[r] = j
        BY <3>2, <4>5 DEF Continue, Moves, MenuJobs
      <4>7. Acts(r)
        BY <3>2, <4>6, RunsWake DEF Acts
      <4>8. GiveawayKnows(r)' /\ InGiveaway(r)'
        <5>1. UNCHANGED giveaways /\ GiveawayRows' = GiveawayRows
          BY <2>1 DEF BeginClaimSlot, giveawayVars, GiveawayRows
        <5> HIDE DEF g, u
        <5> QED
          BY <3>1, <4>3, <4>4, <4>6, <5>1
             DEF GiveawayKnows, InGiveaway, TransferSteps, Transfers
      <4> QED
        BY <2>0, <2>1, <3>1, <4>7, <4>8, OffersOnly DEF BeginClaimSlot, menuVars
    <3>3. CASE Drain /\ Finish(r)
      <4>1. Acts(r) /\ pc'[r] = "idle"
        BY <3>3, ActsFinish
      <4> QED
        BY <2>0, <2>1, <3>1, <4>1, IdleGives, OffersOnly DEF BeginClaimSlot, menuVars
    <3> QED
      BY <2>1, <3>2, <3>3 DEF BeginClaimSlot
  <2>2. CASE /\ ~BeginClaimSlot(r)
             /\ RecordClaim(r) \/ CountClaim(r) \/ CompleteGiveaway(r)
                \/ Cancelled(r) \/ TransferRefused(r) \/ MoveFunds(r)
    <3>1. Moving(r) /\ InGiveaway(r)
      BY <2>2 DEF RecordClaim, CountClaim, CompleteGiveaway, Cancelled,
                  TransferRefused, MoveFunds, afterTransfer, TransferStep, Moving,
                  MovingSteps, InGiveaway, GiveawaySteps, TransferSteps, Transfers
    <3>2. /\ job[r] \in MovingJobs /\ job[r].giveaway \in GiveawayRows
          /\ row \in GiveawayRow /\ row.claimed <= row.slots
          /\ row.slots \in Nat /\ job[r].read \in Nat
          /\ job[r].kind = "claim" => job[r].to \in Users /\ job[r].read < row.slots
      BY <1>0, <3>1 DEF GiveawayKnows, GiveawayTypeOK, MovingJobs, GiveawayRow
    \* A step that ends the handler.
    <3>3. ASSUME Finish(r), Suspend(r), GiveawayTypeOK', GiveawaysLast
          PROVE  GiveawayDone(r)
      BY <2>0, <3>1, <3>3, ActsFinish, IdleGives, GiveawayStepKeeps
         DEF GiveawayDone, Acts, menuVars
    \* A step after which it goes on.
    <3>4. ASSUME NEW step \in MovingSteps, Continue(r, step), UNCHANGED job, Tick(r),
                 step \in {"recordClaim", "countClaim"} => job[r].kind = "claim",
                 GiveawayTypeOK', GiveawaysLast
          PROVE  GiveawayDone(r)
      <4>1. step # "idle"
        BY DEF MovingSteps
      <4>2. Acts(r) /\ pc'[r] = step /\ job'[r] = job[r]
        BY <3>4, <4>1, ActsContinue
      <4>3. GiveawayKnows(r)' /\ InGiveaway(r)'
        BY <1>0, <3>1, <3>4, <4>2, MovesOn
      <4> QED
        BY <2>0, <3>1, <3>4, <4>2, <4>3, GiveawayStepKeeps
           DEF GiveawayDone, Acts, menuVars
    <3>5. CASE RecordClaim(r)
      <4>1. job[r].kind = "claim"
        BY <1>0, <3>5 DEF RecordClaim, GiveawayKnows
      <4>2. GiveawayTypeOK' /\ GiveawaysLast
        <5>1. << job[r].giveaway, job[r].to >> \in GiveawayIds \X Users
          BY <3>2, <4>1 DEF GiveawayRows
        <5> QED
          BY <1>0, <3>5, <5>1
             DEF RecordClaim, GiveawayTypeOK, GiveawayRows, GiveawaysLast
      <4> QED
        BY <3>4, <3>5, <4>1, <4>2 DEF RecordClaim, MovingSteps
    <3>6. CASE CountClaim(r)
      <4> DEFINE n == job[r].read + 1
                 new == [row EXCEPT !.claimed = n]
      <4>1. job[r].kind = "claim"
        BY <1>0, <3>6 DEF CountClaim, GiveawayKnows
      <4>2. n \in Nat /\ n <= row.slots
        BY <3>2, <4>1
      <4>3. giveaways' = [giveaways EXCEPT ![job[r].giveaway] = new]
        BY <3>6 DEF CountClaim
      <4> HIDE DEF n
      <4>4. new \in GiveawayRow /\ new.slots = row.slots /\ new.claimed = n
        BY <3>2, <4>2, GiveawayUpdates
      <4> HIDE DEF new
      <4>5. GiveawayTypeOK' /\ GiveawaysLast
        BY <1>6, <3>2, <3>6, <4>2, <4>3, <4>4 DEF CountClaim
      <4>6. \/ Finish(r) /\ Suspend(r)
            \/ Continue(r, "completeGiveaway") /\ Tick(r) /\ UNCHANGED job
        BY <3>6 DEF CountClaim
      <4> QED
        BY <3>3, <3>4, <4>5, <4>6 DEF MovingSteps
    <3>7. CASE CompleteGiveaway(r) \/ Cancelled(r)
      <4>1. PICK s \in {"completed", "cancelled"} :
              giveaways' = [giveaways EXCEPT ![job[r].giveaway].status = s]
        BY <3>7 DEF CompleteGiveaway, Cancelled
      <4> DEFINE new == [row EXCEPT !.status = s]
      <4>2. giveaways' = [giveaways EXCEPT ![job[r].giveaway] = new]
        BY <4>1
      <4>3. new \in GiveawayRow /\ new.slots = row.slots /\ new.claimed = row.claimed
        BY <3>2, GiveawayUpdates
      <4> HIDE DEF new
      <4>4. GiveawayTypeOK' /\ GiveawaysLast
        BY <1>6, <3>2, <3>7, <4>2, <4>3 DEF CompleteGiveaway, Cancelled
      <4> QED
        BY <3>3, <3>7, <4>4 DEF CompleteGiveaway, Cancelled
    <3>8. CASE TransferRefused(r)
      BY <1>0, <3>3, <3>8, SameGiveaways DEF TransferRefused
    <3>9. CASE MoveFunds(r)
      <4>1. job[r].kind \in Transfers
        BY <3>9 DEF MoveFunds, afterTransfer, Transfers
      <4>2. /\ afterTransfer[job[r].kind] \in {"announce", "recordClaim", "cancelled"}
            /\ afterTransfer[job[r].kind] = "recordClaim" => job[r].kind = "claim"
        BY <4>1 DEF Transfers, afterTransfer
      <4>3. PICK done : /\ done \in {"announce", "recordClaim", "cancelled"}
                        /\ done = "recordClaim" => job[r].kind = "claim"
                        /\ \/ TransferStep(r, done, "refused")
                           \/ Tick(r) /\ Continue(r, "refused") /\ UNCHANGED job
        BY <3>9, <4>2 DEF MoveFunds
      <4>4. Acts(r) /\ pc'[r] \in {done, "refused"} \cup TransferSteps
            /\ job'[r] = job[r]
        BY <4>3, ActsTransfer, ActsContinue
      <4>5. UNCHANGED giveawayVars
        BY <3>9 DEF MoveFunds
      <4>6. GiveawayKnows(r)' /\ InGiveaway(r)'
        <5>1. /\ pc'[r] \in MovingSteps \cup TransferSteps
              /\ pc'[r] \in {"recordClaim", "countClaim"} => job[r].kind = "claim"
          BY <4>3, <4>4 DEF MovingSteps, TransferSteps
        <5> QED
          BY <1>0, <3>1, <4>4, <4>5, <5>1, MovesOn, SameGiveaways
      <4> QED
        BY <2>0, <3>1, <4>4, <4>5, <4>6, OffersOnly DEF menuVars
    <3> QED
      BY <2>2, <3>5, <3>6, <3>7, <3>8, <3>9
  <2> QED
    BY <1>10, <2>1, <2>2 DEF GiveawayStep
<1> QED
  BY <1>1, <1>2, <1>3, <1>4, <1>5, <1>7, <1>8, <1>9, <1>10 DEF GiveawayRequest

------------------------------------------------------------------------------
(* Shared accounts.                                                         *)

AccountRows == [name: Names, createdBy: Users]

Levels == {"view", "spend", "admin"}

PermissionRows == [level: Levels, of: Names]

SharedJobs ==
  [kind: {"shared"}, account: AccountIds \cup {0}, name: Names, user: Users,
   target: Users, level: Levels]

(* The commands on permissions, and the end of a creation: all of it in one *)
(* drain.                                                                   *)
PermissionSteps ==
  {"grantCreator", "sharedBalance", "grantCheck", "grantRead", "grantInsert",
   "revokeCheck", "revokeWrite", "updateCheck", "updateRead", "updateWrite",
   "deleteCheck", "deleteWrite"}

(* The one whose permission r changes did not create the account.           *)
ToOther(r) ==
  job[r].account \in SharedRows =>
    job[r].target # shared[job[r].account].createdBy

(* The account of a running command is the one it looked up, or gone.       *)
SharedKnows(r) ==
  /\ pc[r] \in SharedSteps \ {"idle"} => job[r] \in SharedJobs
  /\ pc[r] \in PermissionSteps =>
       /\ r \in ready
       /\ job[r].account \in SharedRows =>
            shared[job[r].account].name = job[r].name
  /\ pc[r] = "grantCreator" =>
       /\ ~batch
       /\ job[r].account \in SharedRows
       /\ shared[job[r].account].createdBy = job[r].user
  /\ pc[r] \in {"revokeWrite", "updateRead", "updateWrite"} => ToOther(r)

SharedTables ==
  /\ shared \in [AccountIds -> AccountRows \cup {NoAccount}]
  /\ permissions \in [AccountIds \X Users -> PermissionRows \cup {NoPermission}]
  /\ AccessIsToThisAccount

InShared(r) == pc[r] \in SharedSteps

SharedInv == SharedTables /\ \A r \in Requests : SharedKnows(r)

(* The creator of i is an admin of it, or is about to be made one.          *)
HasAdmin(i) ==
  \/ permissions[<< i, shared[i].createdBy >>].level = "admin"
  \/ \E r \in Requests : pc[r] = "grantCreator" /\ job[r].account = i

(* The INSERT of a grant may overwrite a row of the same batch, but not the *)
(* creator's: the creator had one when the grant looked for it.             *)
GrantsToOthers == \A r \in Requests : pc[r] = "grantInsert" => ToOther(r)

Administered ==
  crashes = 0 => GrantsToOthers /\ \A i \in SharedRows : HasAdmin(i)

LEMMA AccountIsThere == \A row \in AccountRows : row # NoAccount
BY DEF AccountRows, NoAccount

(* A row that exists is a row of the table.                                 *)
LEMMA RowOfAccount ==
  ASSUME SharedTables, NEW i \in SharedRows
  PROVE  i \in AccountIds /\ shared[i] \in AccountRows
         /\ << i, shared[i].createdBy >> \in AccountIds \X Users
BY DEF SharedTables, SharedRows, AccountRows

(* A step that makes no account leaves what the others know.                *)
LEMMA OthersKnow ==
  ASSUME MenuJobs, Loop, NEW r \in Requests, NEW q \in Requests \ {r}, Acts(r),
         SharedKnows(q),
         \A i \in SharedRows' : i \in SharedRows /\ shared'[i] = shared[i],
         SharedRows \subseteq SharedRows' \/ r \in ready
  PROVE  SharedKnows(q)'
<1>1. pc'[q] = pc[q] /\ job'[q] = job[q]
  BY DEF MenuJobs, Acts, Moves
<1>2. q \in ready => q \in ready' /\ batch' = batch
  BY DEF Acts, Runs
<1>3. pc[q] \in PermissionSteps => q \in ready
  BY DEF SharedKnows
<1>4. pc[q] = "grantCreator" => SharedRows \subseteq SharedRows'
  <2>1. pc[q] = "grantCreator" => q \in ready /\ ~batch
    BY DEF SharedKnows, PermissionSteps
  <2> QED
    BY <2>1 DEF Loop
<1>5. pc[q] \in PermissionSteps =>
        /\ q \in ready'
        /\ job'[q].account \in SharedRows' =>
             shared'[job'[q].account].name = job'[q].name
  BY <1>1, <1>2, <1>3 DEF SharedKnows
<1>6. pc[q] = "grantCreator" =>
        /\ ~batch'
        /\ job'[q].account \in SharedRows'
        /\ shared'[job'[q].account].createdBy = job'[q].user
  BY <1>1, <1>2, <1>3, <1>4 DEF SharedKnows, PermissionSteps
<1>7. pc[q] \in {"revokeWrite", "updateRead", "updateWrite"} => ToOther(q)'
  BY <1>1 DEF SharedKnows, ToOther
<1> QED
  BY <1>1, <1>5, <1>6, <1>7 DEF SharedKnows

(* Nor does it change whom they grant something.                            *)
LEMMA OthersGrant ==
  ASSUME MenuJobs, NEW r \in Requests, Acts(r), GrantsToOthers,
         \A i \in SharedRows' : i \in SharedRows /\ shared'[i] = shared[i],
         pc'[r] = "grantInsert" => ToOther(r)'
  PROVE  GrantsToOthers'
<1>1. ASSUME NEW q \in Requests \ {r}, pc'[q] = "grantInsert"
      PROVE  ToOther(q)'
  <2>1. pc'[q] = pc[q] /\ job'[q] = job[q]
    BY DEF MenuJobs, Acts, Moves
  <2> QED
    BY <1>1, <2>1 DEF GrantsToOthers, ToOther
<1> QED
  BY <1>1 DEF GrantsToOthers

(* The step of a request in a duel or a giveaway, or of no request.         *)
LEMMA SharedElsewhere ==
  ASSUME MenuJobs, Loop, SharedInv, NEW r \in Requests, Acts(r),
         UNCHANGED sharedVars,
         pc[r] \notin SharedSteps \ {"idle"}, pc'[r] \notin SharedSteps \ {"idle"}
  PROVE  SharedInv' /\ (Administered /\ UNCHANGED crashes => Administered')
<1>1. SharedRows' = SharedRows /\ shared' = shared /\ permissions' = permissions
  BY DEF sharedVars, SharedRows
<1>2. ASSUME NEW q \in Requests \ {r}
      PROVE  SharedKnows(q)'
  BY <1>1, OthersKnow DEF SharedInv
<1>3. SharedKnows(r)'
  BY DEF SharedKnows, SharedSteps, PermissionSteps
<1>4. SharedTables'
  BY <1>1 DEF SharedInv, SharedTables, AccessIsToThisAccount
<1>5. ASSUME Administered, crashes' = crashes
      PROVE  Administered'
  <2>1. ASSUME NEW i, HasAdmin(i)
        PROVE  HasAdmin(i)'
    <3>1. ASSUME NEW q \in Requests, pc[q] = "grantCreator", job[q].account = i
          PROVE  pc'[q] = pc[q] /\ job'[q] = job[q]
      BY <3>1 DEF MenuJobs, Acts, Moves, SharedSteps
    <3> QED
      BY <1>1, <2>1, <3>1 DEF HasAdmin
  <2>2. GrantsToOthers => GrantsToOthers'
    BY <1>1, OthersGrant DEF SharedSteps
  <2> QED
    BY <1>1, <1>5, <2>1, <2>2 DEF Administered
<1> QED
  BY <1>2, <1>3, <1>4, <1>5 DEF SharedInv

(* The same for a step of r inside the commands that leaves the tables.     *)
LEMMA SharedLooks ==
  ASSUME MenuJobs, Loop, SharedInv, NEW r \in Requests, Acts(r),
         UNCHANGED sharedVars, pc[r] # "grantCreator", SharedKnows(r)',
         pc'[r] = "grantInsert" /\ Administered /\ crashes = 0 => ToOther(r)'
  PROVE  SharedInv' /\ (Administered /\ UNCHANGED crashes => Administered')
<1>1. SharedRows' = SharedRows /\ shared' = shared /\ permissions' = permissions
  BY DEF sharedVars, SharedRows
<1>2. ASSUME NEW q \in Requests \ {r}
      PROVE  SharedKnows(q)'
  BY <1>1, OthersKnow DEF SharedInv
<1>3. SharedTables'
  BY <1>1 DEF SharedInv, SharedTables, AccessIsToThisAccount
<1>4. ASSUME Administered, crashes' = crashes
      PROVE  Administered'
  <2>1. ASSUME NEW i, HasAdmin(i)
        PROVE  HasAdmin(i)'
    <3>1. ASSUME NEW q \in Requests, pc[q] = "grantCreator", job[q].account = i
          PROVE  pc'[q] = pc[q] /\ job'[q] = job[q]
      BY <3>1 DEF MenuJobs, Acts, Moves
    <3> QED
      BY <1>1, <2>1, <3>1 DEF HasAdmin
  <2>2. crashes = 0 => GrantsToOthers'
    BY <1>1, <1>4, OthersGrant DEF Administered
  <2> QED
    BY <1>1, <1>4, <2>1, <2>2 DEF Administered
<1> QED
  BY <1>2, <1>3, <1>4 DEF SharedInv

(* A statement on one row of permissions: it belongs to an account that     *)
(* exists, or is none; and the creator's stays the creator's.               *)
LEMMA SharedWrites ==
  ASSUME MenuJobs, Loop, SharedInv, NEW r \in Requests, Acts(r), SharedKnows(r)',
         NEW k, NEW row \in PermissionRows \cup {NoPermission},
         permissions' = [permissions EXCEPT ![k] = row], UNCHANGED shared,
         k \in AccountIds \X Users =>
           \/ row = NoPermission
           \/ k[1] \in SharedRows /\ row.of = shared[k[1]].name,
         pc[r] = "grantCreator" =>
           k = << job[r].account, job[r].user >> /\ row.level = "admin",
         pc[r] # "grantCreator" =>
           \A i \in SharedRows :
             k = << i, shared[i].createdBy >> =>
               \/ row = permissions[k] \/ permissions[k] = NoPermission
               \/ ~(Administered /\ crashes = 0),
         pc'[r] # "grantInsert"
  PROVE  SharedInv' /\ (Administered /\ UNCHANGED crashes => Administered')
<1>1. SharedRows' = SharedRows /\ shared' = shared
  BY DEF SharedRows
<1>2. ASSUME NEW q \in Requests \ {r}
      PROVE  SharedKnows(q)'
  BY <1>1, OthersKnow DEF SharedInv
<1>3. DOMAIN permissions = AccountIds \X Users
      /\ DOMAIN permissions' = AccountIds \X Users
  BY DEF SharedInv, SharedTables
<1>4. SharedTables'
  <2>1. ASSUME NEW l \in AccountIds \X Users
        PROVE  /\ permissions'[l] \in PermissionRows \cup {NoPermission}
               /\ permissions'[l] # NoPermission =>
                    l[1] \in SharedRows /\ permissions'[l].of = shared[l[1]].name
    <3>1. CASE l = k
      BY <1>3, <3>1
    <3>2. CASE l # k
      BY <1>3, <3>2 DEF SharedInv, SharedTables, AccessIsToThisAccount
    <3> QED
      BY <3>1, <3>2
  <2>2. permissions' = [l \in AccountIds \X Users |-> permissions'[l]]
    BY <1>3
  <2> QED
    BY <1>1, <1>3, <2>1, <2>2 DEF SharedInv, SharedTables, AccessIsToThisAccount
<1>5. ASSUME Administered, crashes' = crashes, crashes = 0, NEW i \in SharedRows
      PROVE  HasAdmin(i)'
  <2> DEFINE key == << i, shared[i].createdBy >>
  <2>0. key \in AccountIds \X Users
    BY RowOfAccount DEF SharedInv
  <2>1. CASE \E q \in Requests \ {r} : pc[q] = "grantCreator" /\ job[q].account = i
    BY <2>1 DEF MenuJobs, Acts, Moves, HasAdmin
  <2>2. CASE pc[r] = "grantCreator" /\ job[r].account = i
    <3>1. key = k
      BY <2>2 DEF SharedInv, SharedKnows
    <3> QED
      BY <1>1, <1>3, <2>0, <2>2, <3>1 DEF HasAdmin
  <2>3. CASE permissions[key].level = "admin"
    <3>1. permissions[key] # NoPermission
      BY <2>3 DEF NoPermission
    <3>2. permissions'[key].level = "admin"
      <4>1. CASE key = k /\ pc[r] = "grantCreator"
        BY <1>3, <2>0, <4>1
      <4>2. CASE key = k /\ pc[r] # "grantCreator"
        BY <1>3, <1>5, <2>0, <2>3, <3>1, <4>2
      <4>3. CASE key # k
        BY <1>3, <2>0, <2>3, <4>3
      <4> QED
        BY <4>1, <4>2, <4>3
    <3> QED
      BY <1>1, <3>2 DEF HasAdmin
  <2>4. HasAdmin(i)
    BY <1>5 DEF Administered
  <2> QED
    BY <2>1, <2>2, <2>3, <2>4 DEF HasAdmin
<1>6. GrantsToOthers => GrantsToOthers'
  BY <1>1, OthersGrant
<1> QED
  BY <1>1, <1>2, <1>4, <1>5, <1>6 DEF SharedInv, Administered

SharedDone(r) ==
  /\ Acts(r) /\ InShared(r) /\ InShared(r)'
  /\ SharedInv'
  /\ Administered /\ UNCHANGED crashes => Administered'

(* A command starts with the account that its name stands for.              *)
LEMMA SharedJobIsJob ==
  ASSUME NEW i \in AccountIds \cup {0}, NEW name \in Names, NEW u \in Users,
         NEW t \in Users, NEW level \in Levels
  PROVE  LET j == SharedJob(i, name, u, t, level)
         IN  j \in SharedJobs /\ j.account = i /\ j.name = name /\ j.user = u
             /\ j.target = t
BY DEF SharedJob, SharedJobs

LEMMA IdleShares == \A r : pc'[r] = "idle" => SharedKnows(r)' /\ InShared(r)'
BY DEF SharedKnows, PermissionSteps, SharedSteps, InShared

(* The INSERT of an account, for which nothing has been granted.            *)
LEMMA InsertSharedDone ==
  ASSUME MenuInv, Loop, SharedInv, NEW r \in Requests, InsertShared(r)
  PROVE  SharedDone(r)
<1> USE DEF MenuInv
<1>1. pc[r] = "createShared" /\ InShared(r) /\ job[r] \in SharedJobs
  BY DEF InsertShared, InShared, SharedSteps, SharedInv, SharedKnows
<1>2. CASE Drain /\ Finish(r) /\ UNCHANGED sharedVars
  <2>1. Acts(r) /\ pc'[r] = "idle"
    BY <1>2, ActsFinish
  <2> QED
    BY <1>1, <1>2, <2>1, IdleShares, SharedLooks DEF SharedDone
<1>3. ASSUME getSharedAccountByName(job[r].name) = {}, Wake(r),
             NEW i \in nextAccountId,
             shared' = [shared EXCEPT ![i] = Account(job[r].name, job[r].user)],
             job' = [job EXCEPT ![r].account = i],
             Continue(r, "grantCreator"), UNCHANGED permissions
      PROVE  SharedDone(r)
  <2> DEFINE row == Account(job[r].name, job[r].user)
             j == [job[r] EXCEPT !.account = i]
  <2>1. i \in AccountIds /\ i \notin SharedRows
    BY <1>3 DEF nextAccountId, AccountIds
  <2>2. row \in AccountRows /\ row.name = job[r].name /\ row.createdBy = job[r].user
    BY <1>1 DEF Account, AccountRows, SharedJobs
  <2>3. j \in SharedJobs
    BY <1>1, <2>1 DEF SharedJobs
  <2>4. j.account = i /\ j.name = job[r].name /\ j.user = job[r].user
    BY <1>1 DEF SharedJobs
  <2>5. /\ DOMAIN shared = AccountIds /\ DOMAIN pc = Requests /\ DOMAIN job = Requests
    BY DEF SharedInv, SharedTables, MenuJobs
  <2>6. shared' = [shared EXCEPT ![i] = row] /\ job' = [job EXCEPT ![r] = j]
    BY <1>3
  <2> HIDE DEF row, j
  <2>7. /\ shared'[i] = row /\ DOMAIN shared' = AccountIds
        /\ \A h \in AccountIds \ {i} : shared'[h] = shared[h]
    BY <2>1, <2>5, <2>6
  <2>8. SharedRows' = SharedRows \cup {i}
    BY <2>1, <2>2, <2>7, AccountIsThere DEF SharedRows
  <2>9. \A h \in SharedRows : shared'[h] = shared[h]
    BY <2>1, <2>7 DEF SharedRows
  <2>10. Moves(r) /\ pc'[r] = "grantCreator" /\ job'[r] = j
    BY <1>3, <2>5, <2>6 DEF Continue, Moves, MenuJobs
  <2>11. Acts(r) /\ ready = {} /\ ready' = {r} /\ batch' = FALSE
    BY <1>3, <2>10, RunsWake DEF Acts, Wake
  <2>12. ASSUME NEW q \in Requests \ {r}
         PROVE  pc'[q] = pc[q] /\ job'[q] = job[q] /\ SharedKnows(q)'
                /\ pc[q] \notin PermissionSteps
    <3>1. pc'[q] = pc[q] /\ job'[q] = job[q]
      BY <2>10 DEF Moves, MenuJobs
    <3>2. SharedKnows(q) /\ pc[q] \notin PermissionSteps
      BY <2>11 DEF SharedInv, SharedKnows
    <3> QED
      BY <3>1, <3>2 DEF SharedKnows, PermissionSteps
  <2>13. SharedKnows(r)'
    BY <2>2, <2>3, <2>4, <2>7, <2>8, <2>10, <2>11 DEF SharedKnows, PermissionSteps
  <2>14. SharedTables'
    <3>1. shared' \in [AccountIds -> AccountRows \cup {NoAccount}]
      BY <2>2, <2>6 DEF SharedInv, SharedTables
    <3>2. AccessIsToThisAccount'
      BY <1>3, <2>8, <2>9 DEF SharedInv, SharedTables, AccessIsToThisAccount
    <3> QED
      BY <1>3, <3>1, <3>2 DEF SharedInv, SharedTables
  <2>15. ASSUME Administered, crashes' = crashes
         PROVE  Administered'
    <3>1. ASSUME NEW h \in SharedRows, HasAdmin(h)
          PROVE  HasAdmin(h)'
      <4>1. permissions[<< h, shared[h].createdBy >>].level = "admin"
        BY <1>1, <2>12, <3>1 DEF HasAdmin, PermissionSteps
      <4> QED
        BY <1>3, <2>9, <4>1 DEF HasAdmin
    <3>2. HasAdmin(i)'
      BY <2>4, <2>10 DEF HasAdmin
    <3>3. GrantsToOthers'
      BY <2>10, <2>12 DEF GrantsToOthers, PermissionSteps
    <3> QED
      BY <2>8, <2>15, <3>1, <3>2, <3>3 DEF Administered
  <2>16. SharedInv'
    BY <2>12, <2>13, <2>14 DEF SharedInv
  <2>17. InShared(r)'
    BY <2>10 DEF InShared, SharedSteps
  <2> QED
    BY <1>1, <2>11, <2>15, <2>16, <2>17 DEF SharedDone
<1> QED
  BY <1>2, <1>3 DEF InsertShared

(* DELETE, with the cascade to the permissions.                             *)
LEMMA DeleteDone ==
  ASSUME MenuInv, Loop, SharedInv, NEW r \in Requests, pc[r] = "deleteWrite",
         Suspend(r), DeleteRow(job[r].account), Finish(r)
  PROVE  SharedDone(r)
<1> USE DEF MenuInv
<1> DEFINE i == job[r].account
<1>1. Acts(r) /\ pc'[r] = "idle" /\ r \in ready
  BY ActsFinish DEF Suspend
<1>2. /\ DOMAIN shared = AccountIds /\ DOMAIN permissions = AccountIds \X Users
  BY DEF SharedInv, SharedTables
<1>3. /\ shared' = [shared EXCEPT ![i] = NoAccount]
      /\ permissions' = [k \in AccountIds \X Users |->
                           IF k[1] = i THEN NoPermission ELSE permissions[k]]
  BY <1>2 DEF DeleteRow
<1> HIDE DEF i
<1>4. SharedRows' = SharedRows \ {i} /\ \A h \in SharedRows' : shared'[h] = shared[h]
  BY <1>2, <1>3 DEF SharedRows
<1>5. \A q \in Requests \ {r} : SharedKnows(q)'
  BY <1>1, <1>4, OthersKnow DEF SharedInv
<1>6. SharedTables'
  <2>1. shared' \in [AccountIds -> AccountRows \cup {NoAccount}]
    BY <1>3 DEF SharedInv, SharedTables
  <2>2. permissions' \in [AccountIds \X Users -> PermissionRows \cup {NoPermission}]
    BY <1>3 DEF SharedInv, SharedTables
  <2>3. AccessIsToThisAccount'
    BY <1>2, <1>3, <1>4 DEF SharedInv, SharedTables, AccessIsToThisAccount
  <2> QED
    BY <2>1, <2>2, <2>3 DEF SharedTables
<1>7. ASSUME Administered, crashes' = crashes, crashes = 0, NEW h \in SharedRows'
      PROVE  HasAdmin(h)'
  <2>1. h \in SharedRows /\ h # i /\ shared'[h] = shared[h] /\ HasAdmin(h)
    BY <1>4, <1>7 DEF Administered
  <2>2. << h, shared[h].createdBy >> \in AccountIds \X Users
    BY <2>1, RowOfAccount DEF SharedInv
  <2>3. CASE permissions[<< h, shared[h].createdBy >>].level = "admin"
    BY <1>3, <2>1, <2>2, <2>3 DEF HasAdmin
  <2>4. CASE \E q \in Requests : pc[q] = "grantCreator" /\ job[q].account = h
    BY <1>1, <2>4 DEF HasAdmin, Acts, Moves, MenuJobs
  <2> QED
    BY <2>1, <2>3, <2>4 DEF HasAdmin
<1>8. SharedInv' /\ InShared(r) /\ InShared(r)'
  BY <1>1, <1>5, <1>6, IdleShares DEF SharedInv, InShared, SharedSteps
<1>9. GrantsToOthers => GrantsToOthers'
  BY <1>1, <1>4, OthersGrant
<1> QED
  BY <1>1, <1>7, <1>8, <1>9 DEF SharedDone, Administered

LEMMA SharedRequestDone ==
  ASSUME MenuInv, Loop, SharedInv, NEW r \in Requests, SharedRequest(r)
  PROVE  SharedDone(r)
<1> USE DEF MenuInv
<1>0. SharedTables /\ SharedKnows(r)
  BY DEF SharedInv
<1> DEFINE j == job[r]
           k == << job[r].account, job[r].target >>
\* The checks of a command: it goes on, or returns.
<1>1. ASSUME Refuse(r), pc[r] \in SharedSteps, pc[r] # "grantCreator"
      PROVE  SharedDone(r)
  <2>1. Acts(r) /\ pc'[r] = "idle" /\ UNCHANGED sharedVars
    BY <1>1, ActsFinish DEF Refuse
  <2> QED
    BY <1>1, <2>1, IdleShares, SharedLooks DEF SharedDone, InShared
<1>2. ASSUME NEW step \in {"grantRead", "grantInsert", "revokeWrite", "updateRead",
                           "updateWrite", "deleteWrite"},
             Tick(r), Continue(r, step), UNCHANGED << job, sharedVars >>,
             pc[r] \in PermissionSteps, pc[r] # "grantCreator",
             step \in {"revokeWrite", "updateRead", "updateWrite"} => ToOther(r),
             step = "grantInsert" /\ Administered /\ crashes = 0 => ToOther(r)
      PROVE  SharedDone(r)
  <2>1. Acts(r) /\ pc'[r] = step /\ job'[r] = job[r] /\ UNCHANGED sharedVars
    BY <1>2, ActsContinue
  <2>2. r \in ready'
    BY <1>2 DEF Tick
  <2>3. SharedRows' = SharedRows /\ shared' = shared
    BY <2>1 DEF sharedVars, SharedRows
  <2>4. SharedKnows(r)'
    BY <1>0, <1>2, <2>1, <2>2, <2>3
       DEF SharedKnows, PermissionSteps, SharedSteps, ToOther
  <2>5. pc'[r] = "grantInsert" /\ Administered /\ crashes = 0 => ToOther(r)'
    BY <1>2, <2>1, <2>3 DEF ToOther
  <2> QED
    BY <1>2, <2>1, <2>4, <2>5, SharedLooks
       DEF SharedDone, InShared, PermissionSteps, SharedSteps
<1>3. ASSUME NEW step \in PermissionSteps,
             NEW next \in {"grantRead", "grantInsert", "revokeWrite", "updateRead",
                           "updateWrite", "deleteWrite"},
             NEW ok, Checked(r, step, next, ok), step # "grantCreator",
             ok /\ next \in {"revokeWrite", "updateRead", "updateWrite"} => ToOther(r),
             ok /\ next = "grantInsert" /\ Administered /\ crashes = 0 => ToOther(r)
      PROVE  SharedDone(r)
  <2>1. pc[r] = step
    BY <1>3 DEF Checked
  <2>2. pc[r] \in SharedSteps
    BY <1>3, <2>1 DEF PermissionSteps, SharedSteps
  <2> QED
    BY <1>1, <1>2, <1>3, <2>1, <2>2 DEF Checked
\* The statement of a command: it writes one permission and returns.
<1>4. ASSUME pc[r] \in PermissionSteps, pc[r] # "grantCreator", Suspend(r), Finish(r),
             NEW row \in PermissionRows \cup {NoPermission},
             permissions' = [permissions EXCEPT ![k] = row], UNCHANGED shared,
             k \in AccountIds \X Users =>
               \/ row = NoPermission
               \/ k[1] \in SharedRows /\ row.of = shared[k[1]].name,
             \A i \in SharedRows : k = << i, shared[i].createdBy >> =>
               \/ row = permissions[k] \/ permissions[k] = NoPermission
               \/ ~(Administered /\ crashes = 0)
      PROVE  SharedDone(r)
  <2>1. Acts(r) /\ pc'[r] = "idle"
    BY <1>4, ActsFinish
  <2>2. SharedKnows(r)'
    BY <2>1, IdleShares
  <2> HIDE DEF k
  <2>3. SharedInv' /\ (Administered /\ UNCHANGED crashes => Administered')
    BY <1>4, <2>1, <2>2, SharedWrites
  <2> QED
    BY <1>4, <2>1, <2>3, IdleShares
       DEF SharedDone, InShared, PermissionSteps, SharedSteps
<1>5. ASSUME NEW u \in Users, NEW t \in Users, NEW name \in Names, NEW level \in Levels,
             NEW step \in {"grantCheck", "updateCheck", "revokeCheck", "deleteCheck"},
             SharedCommand(r, u, name, t, level, step)
      PROVE  SharedDone(r)
  <2>1. PICK i \in getSharedAccountByName(name) :
          Start(r, step, SharedJob(i, name, u, t, level))
    BY <1>5 DEF SharedCommand
  <2>2. i \in SharedRows /\ shared[i].name = name /\ i \in AccountIds
    BY DEF getSharedAccountByName, SharedRows
  <2>3. /\ Acts(r) /\ pc[r] = "idle" /\ pc'[r] = step
        /\ job'[r] = SharedJob(i, name, u, t, level)
    BY <1>5, <2>1, ActsStart DEF SharedCommand
  <2>4. r \in ready'
    BY <1>5 DEF SharedCommand, Arrive
  <2>5. /\ job'[r] \in SharedJobs /\ job'[r].account = i /\ job'[r].name = name
    BY <2>2, <2>3, SharedJobIsJob
  <2>6. SharedRows' = SharedRows /\ shared' = shared /\ UNCHANGED sharedVars
    BY <1>5 DEF SharedCommand, sharedVars, SharedRows
  <2>7. SharedKnows(r)'
    BY <2>2, <2>3, <2>4, <2>5, <2>6 DEF SharedKnows, PermissionSteps
  <2> QED
    BY <2>3, <2>6, <2>7, SharedLooks DEF SharedDone, InShared, SharedSteps
<1>6. ASSUME NEW u \in Users, NEW name \in Names,
             CreateShared(r, u, name) \/ SharedTransfer(r, u, name)
      PROVE  SharedDone(r)
  <2>1. PICK i \in AccountIds \cup {0}, level \in Levels,
             step \in {"createShared", "sharedTransfer"} :
          Start(r, step, SharedJob(i, name, u, u, level))
    BY <1>6 DEF CreateShared, SharedTransfer, getSharedAccountByName, SharedRows,
                Levels
  <2>2. /\ Acts(r) /\ pc[r] = "idle" /\ pc'[r] = step
        /\ job'[r] = SharedJob(i, name, u, u, level)
    BY <1>6, <2>1, ActsStart DEF CreateShared, SharedTransfer
  <2>3. job'[r] \in SharedJobs
    BY <2>2, SharedJobIsJob
  <2>4. SharedKnows(r)'
    BY <2>2, <2>3 DEF SharedKnows, PermissionSteps
  <2> QED
    BY <1>6, <2>2, <2>4, SharedLooks
       DEF SharedDone, InShared, SharedSteps, CreateShared, SharedTransfer
<1>7. CASE GrantCreator(r)
  <2> DEFINE key == << j.account, j.user >>
             row == Permission("admin", j.name)
  <2>1. pc[r] = "grantCreator" /\ job[r] \in SharedJobs /\ j.account \in SharedRows
        /\ shared[j.account].name = j.name
    BY <1>0, <1>7 DEF GrantCreator, SharedKnows, SharedSteps, PermissionSteps
  <2>2. row \in PermissionRows /\ row.level = "admin" /\ row.of = j.name
    BY <2>1 DEF Permission, PermissionRows, Levels, SharedJobs
  <2>3. Acts(r) /\ pc'[r] = "sharedBalance" /\ job'[r] = job[r] /\ r \in ready'
    BY <1>7, ActsContinue DEF GrantCreator, Tick
  <2>4. SharedRows' = SharedRows /\ shared' = shared
    BY <1>7 DEF GrantCreator, SharedRows
  <2>5. SharedKnows(r)'
    BY <1>0, <2>1, <2>3, <2>4 DEF SharedKnows, PermissionSteps, SharedSteps
  <2>6. permissions' = [permissions EXCEPT ![key] = row] /\ key[1] = j.account
    BY <1>7 DEF GrantCreator
  <2> HIDE DEF row
  <2>7. PICK kk : kk = key
    OBVIOUS
  <2>8. /\ permissions' = [permissions EXCEPT ![kk] = row]
        /\ kk[1] \in SharedRows /\ row.of = shared[kk[1]].name
        /\ kk = << job[r].account, job[r].user >>
    BY <2>1, <2>2, <2>6, <2>7
  <2> HIDE DEF key
  <2>9. SharedInv' /\ (Administered /\ UNCHANGED crashes => Administered')
    BY <2>1, <2>2, <2>3, <2>4, <2>5, <2>8, SharedWrites
  <2> QED
    BY <2>1, <2>3, <2>9 DEF SharedDone, InShared, SharedSteps
<1>8. CASE BalanceFails(r) \/ SharedTransferFails(r)
  <2>1. Acts(r) /\ pc'[r] = "idle" /\ UNCHANGED sharedVars
    BY <1>8, ActsFinish DEF BalanceFails, SharedTransferFails, Refuse
  <2>2. pc[r] \in {"sharedBalance", "sharedTransfer"}
    BY <1>8 DEF BalanceFails, SharedTransferFails
  <2> QED
    BY <2>1, <2>2, IdleShares, SharedLooks DEF SharedDone, InShared, SharedSteps
<1>9. CASE GrantAccess(r)
  <2>1. CASE Checked(r, "grantCheck", "grantRead",
                     mayGrant(j.account, j.user, j.target))
    BY <1>3, <2>1 DEF PermissionSteps
  <2>2. CASE pc[r] = "grantInsert" /\ Refuse(r)
    BY <1>1, <2>2 DEF SharedSteps
  <2>4. CASE Checked(r, "grantRead", "grantInsert", ~Permitted(r))
    <3>1. pc[r] \in PermissionSteps /\ r \in ready
      BY <1>0, <2>4 DEF Checked, SharedKnows, PermissionSteps
    <3>2. ASSUME ~Permitted(r), Administered, crashes = 0, j.account \in SharedRows,
                 j.target = shared[j.account].createdBy
          PROVE  FALSE
      <4>1. HasAdmin(j.account) /\ permissions[k] = NoPermission
        BY <3>2 DEF Administered, Permitted
      <4>2. PICK q \in Requests : pc[q] = "grantCreator" /\ job[q].account = j.account
        BY <3>2, <4>1 DEF HasAdmin, NoPermission
      <4>3. q \in ready /\ ~batch
        BY <4>2 DEF SharedInv, SharedKnows, PermissionSteps
      <4> QED
        BY <2>4, <3>1, <4>2, <4>3 DEF Loop, Checked
    <3>3. ~Permitted(r) /\ Administered /\ crashes = 0 => ToOther(r)
      BY <3>2 DEF ToOther
    <3> HIDE DEF j, k
    <3> QED
      BY <1>3, <2>4, <3>3 DEF PermissionSteps
  <2>3. CASE /\ pc[r] = "grantInsert" /\ j.account \in SharedRows /\ Suspend(r)
             /\ permissions' = [permissions EXCEPT ![k] = Permission(j.level, j.name)]
             /\ Finish(r) /\ UNCHANGED shared
    <3> DEFINE row == Permission(j.level, j.name)
    <3>1. job[r] \in SharedJobs /\ shared[j.account].name = j.name
      BY <1>0, <2>3 DEF SharedKnows, PermissionSteps, SharedSteps
    <3>2. row \in PermissionRows /\ row.of = j.name
      BY <3>1 DEF Permission, PermissionRows, SharedJobs
    <3>3. k[1] = j.account /\ pc[r] \in PermissionSteps
      BY <2>3 DEF PermissionSteps
    <3>4. permissions' = [permissions EXCEPT ![k] = row]
      BY <2>3
    <3>5. ASSUME NEW i \in SharedRows, k = << i, shared[i].createdBy >>
          PROVE  ~(Administered /\ crashes = 0)
      BY <2>3, <3>5 DEF Administered, GrantsToOthers, ToOther
    <3> HIDE DEF row, k
    <3> QED
      BY <1>4, <2>3, <3>1, <3>2, <3>3, <3>4, <3>5
  <2> QED
    BY <1>9, <2>1, <2>2, <2>3, <2>4 DEF GrantAccess
\* The two UPDATEs.
<1>10. ASSUME NEW row, Write(r, row), pc[r] \in {"revokeWrite", "updateWrite"},
              permissions[k] # NoPermission /\ k \in AccountIds \X Users =>
                \/ row = NoPermission
                \/ row \in PermissionRows /\ row.of = permissions[k].of
       PROVE  SharedDone(r)
  <2> DEFINE new == IF permissions[k] = NoPermission THEN NoPermission ELSE row
  <2>1. DOMAIN permissions = AccountIds \X Users
        /\ permissions = [l \in AccountIds \X Users |-> permissions[l]]
    BY <1>0 DEF SharedTables
  <2>2. /\ Suspend(r) /\ Finish(r) /\ UNCHANGED shared
        /\ permissions' = [permissions EXCEPT ![k] = new]
    BY <1>10 DEF Write
  <2>3. \A i \in SharedRows : k # << i, shared[i].createdBy >>
    BY <1>0, <1>10 DEF SharedKnows, ToOther
  <2>4. pc[r] \in PermissionSteps /\ pc[r] # "grantCreator"
    BY <1>10 DEF PermissionSteps
  <2> HIDE DEF k
  <2>5. CASE k \in AccountIds \X Users
    <3>1. /\ new \in PermissionRows \cup {NoPermission}
          /\ \/ new = NoPermission
             \/ k[1] \in SharedRows /\ new.of = shared[k[1]].name
      BY <1>0, <1>10, <2>1, <2>5 DEF SharedTables, AccessIsToThisAccount
    <3> HIDE DEF new
    <3> QED
      BY <1>4, <2>2, <2>3, <2>4, <3>1 DEF k
  <2>6. CASE k \notin AccountIds \X Users
    <3>1. permissions' = [permissions EXCEPT ![k] = NoPermission]
      BY <2>1, <2>2, <2>6
    <3> QED
      BY <1>4, <2>2, <2>3, <2>4, <3>1 DEF k
  <2> QED
    BY <2>5, <2>6
<1>11. CASE RevokeAccess(r)
  <2>1. CASE Checked(r, "revokeCheck", "revokeWrite",
                     mayChange(j.account, j.user, j.target))
    BY <1>3, <2>1 DEF PermissionSteps, mayChange, ToOther
  <2>2. CASE pc[r] = "revokeWrite" /\ Write(r, NoPermission)
    BY <1>10, <2>2
  <2> QED
    BY <1>11, <2>1, <2>2 DEF RevokeAccess
<1>12. CASE UpdateAccess(r)
  <2>1. CASE Checked(r, "updateCheck", "updateRead",
                     mayChange(j.account, j.user, j.target))
    BY <1>3, <2>1 DEF PermissionSteps, mayChange, ToOther
  <2>3. CASE Checked(r, "updateRead", "updateWrite", Permitted(r))
    <3>1. ToOther(r)
      BY <1>0, <2>3 DEF Checked, SharedKnows
    <3> QED
      BY <1>3, <2>3, <3>1 DEF PermissionSteps
  <2>2. CASE pc[r] = "updateWrite"
             /\ Write(r, Permission(j.level, permissions[k].of))
    <3> DEFINE row == Permission(j.level, permissions[k].of)
    <3>1. job[r] \in SharedJobs
      BY <1>0, <2>2 DEF SharedKnows, SharedSteps
    <3>2. row.of = permissions[k].of
      BY DEF Permission
    <3>3. ASSUME permissions[k] # NoPermission, k \in AccountIds \X Users
          PROVE  row \in PermissionRows
      <4> HIDE DEF k
      <4>1. permissions[k].of \in Names
        BY <1>0, <3>3 DEF SharedTables, PermissionRows
      <4> QED
        BY <3>1, <4>1 DEF Permission, PermissionRows, SharedJobs
    <3>4. Write(r, row)
      BY <2>2
    <3> HIDE DEF row
    <3> QED
      BY <1>10, <2>2, <3>2, <3>3, <3>4
  <2> QED
    BY <1>12, <2>1, <2>2, <2>3 DEF UpdateAccess
<1>13. CASE DeleteShared(r)
  <2>1. CASE Checked(r, "deleteCheck", "deleteWrite",
                     /\ j.account \in SharedRows
                     /\ hasPermission(j.account, j.user, "admin"))
    BY <1>3, <2>1 DEF PermissionSteps
  <2>2. CASE /\ pc[r] = "deleteWrite" /\ Suspend(r) /\ DeleteRow(j.account)
             /\ Finish(r)
    BY <2>2, DeleteDone
  <2> QED
    BY <1>13, <2>1, <2>2 DEF DeleteShared
<1>14. CASE InsertShared(r)
  BY <1>14, InsertSharedDone
<1>15. CASE \E u, t \in Users, name \in Names :
              \/ CreateShared(r, u, name)
              \/ \E level \in {"view", "spend", "admin"} :
                   \/ SharedCommand(r, u, name, t, level, "grantCheck")
                   \/ SharedCommand(r, u, name, t, level, "updateCheck")
              \/ SharedCommand(r, u, name, t, "view", "revokeCheck")
              \/ SharedCommand(r, u, name, u, "view", "deleteCheck")
              \/ SharedTransfer(r, u, name)
  <2>1. PICK u \in Users, t \in Users, name \in Names :
              \/ CreateShared(r, u, name)
              \/ \E level \in {"view", "spend", "admin"} :
                   \/ SharedCommand(r, u, name, t, level, "grantCheck")
                   \/ SharedCommand(r, u, name, t, level, "updateCheck")
              \/ SharedCommand(r, u, name, t, "view", "revokeCheck")
              \/ SharedCommand(r, u, name, u, "view", "deleteCheck")
              \/ SharedTransfer(r, u, name)
    BY <1>15
  <2> QED
    BY <1>5, <1>6, <2>1 DEF Levels
<1> QED
  BY <1>7, <1>8, <1>9, <1>11, <1>12, <1>13, <1>14, <1>15 DEF SharedRequest

------------------------------------------------------------------------------
(* All features together.                                                   *)

(* Every request is inside one feature, or in none.                         *)
Placed ==
  \A r \in Requests : InDuel(r) \/ InWithdraw(r) \/ InGiveaway(r) \/ InShared(r)

CommunityInv ==
  /\ MenuInv /\ Loop /\ Placed
  /\ DuelInv /\ WithdrawInv /\ GiveawayInv /\ SharedInv
  /\ Administered /\ crashes \in Nat

(* Outside of duels there is nothing to know about them; and so on.         *)
LEMMA KnowsElsewhere ==
  ASSUME NEW r
  PROVE  /\ InWithdraw(r) \/ InGiveaway(r) \/ InShared(r) => DuelKnows(r)
         /\ InDuel(r) \/ InGiveaway(r) \/ InShared(r) => WithdrawKnows(r)
         /\ InDuel(r) \/ InWithdraw(r) \/ InShared(r) => GiveawayKnows(r)
         /\ InDuel(r) \/ InWithdraw(r) \/ InGiveaway(r) =>
              pc[r] \notin SharedSteps \ {"idle"}
<1>1. InWithdraw(r) \/ InGiveaway(r) \/ InShared(r) => DuelKnows(r)
  BY DEF InWithdraw, InGiveaway, InShared, DuelKnows, Accepting, AcceptSteps,
         WithdrawSteps, GiveawaySteps, SharedSteps, TransferSteps, Transfers
<1>2. InDuel(r) \/ InGiveaway(r) \/ InShared(r) => WithdrawKnows(r)
  BY DEF InDuel, InGiveaway, InShared, WithdrawKnows, WithdrawSteps, Draining,
         DuelSteps, GiveawaySteps, SharedSteps, TransferSteps
<1>3. InDuel(r) \/ InWithdraw(r) \/ InShared(r) => GiveawayKnows(r)
  BY DEF InDuel, InWithdraw, InShared, GiveawayKnows, Moving, MovingSteps,
         DuelSteps, WithdrawSteps, SharedSteps, TransferSteps, Transfers
<1>4. InDuel(r) \/ InWithdraw(r) \/ InGiveaway(r) =>
        pc[r] \notin SharedSteps \ {"idle"}
  BY DEF InDuel, InWithdraw, InGiveaway, DuelSteps, WithdrawSteps, GiveawaySteps,
         SharedSteps, TransferSteps
<1> QED
  BY <1>1, <1>2, <1>3, <1>4

LEMMA KnowsElsewhereNext ==
  ASSUME NEW r
  PROVE  /\ InWithdraw(r)' \/ InGiveaway(r)' \/ InShared(r)' => DuelKnows(r)'
         /\ InDuel(r)' \/ InGiveaway(r)' \/ InShared(r)' => WithdrawKnows(r)'
         /\ InDuel(r)' \/ InWithdraw(r)' \/ InShared(r)' => GiveawayKnows(r)'
         /\ InDuel(r)' \/ InWithdraw(r)' \/ InGiveaway(r)' =>
              pc'[r] \notin SharedSteps \ {"idle"}
<1>1. InWithdraw(r)' \/ InGiveaway(r)' \/ InShared(r)' => DuelKnows(r)'
  BY DEF InWithdraw, InGiveaway, InShared, DuelKnows, Accepting, AcceptSteps,
         WithdrawSteps, GiveawaySteps, SharedSteps, TransferSteps, Transfers
<1>2. InDuel(r)' \/ InGiveaway(r)' \/ InShared(r)' => WithdrawKnows(r)'
  BY DEF InDuel, InGiveaway, InShared, WithdrawKnows, WithdrawSteps, Draining,
         DuelSteps, GiveawaySteps, SharedSteps, TransferSteps
<1>3. InDuel(r)' \/ InWithdraw(r)' \/ InShared(r)' => GiveawayKnows(r)'
  BY DEF InDuel, InWithdraw, InShared, GiveawayKnows, Moving, MovingSteps,
         DuelSteps, WithdrawSteps, SharedSteps, TransferSteps, Transfers
<1>4. InDuel(r)' \/ InWithdraw(r)' \/ InGiveaway(r)' =>
        pc'[r] \notin SharedSteps \ {"idle"}
  BY DEF InDuel, InWithdraw, InGiveaway, DuelSteps, WithdrawSteps, GiveawaySteps,
         SharedSteps, TransferSteps
<1> QED
  BY <1>1, <1>2, <1>3, <1>4

(* Who stays where it is.                                                   *)
LEMMA PlacedKept ==
  ASSUME MenuJobs, Placed, NEW r \in Requests, Moves(r),
         InDuel(r)' \/ InWithdraw(r)' \/ InGiveaway(r)' \/ InShared(r)'
  PROVE  Placed'
<1>1. \A q \in Requests \ {r} : pc'[q] = pc[q] /\ job'[q] = job[q]
  BY DEF MenuJobs, Moves
<1>2. ASSUME NEW q \in Requests \ {r}
      PROVE  InDuel(q)' \/ InWithdraw(q)' \/ InGiveaway(q)' \/ InShared(q)'
  BY <1>1 DEF Placed, InDuel, InWithdraw, InGiveaway, InShared
<1> QED
  BY <1>2 DEF Placed

(* The menus that a duel opens are for two, those of a giveaway for many.   *)
LEMMA MenusOfDuels ==
  ASSUME Menus, NEW r, DuelSetup(r) \/ DuelFight(r)
  PROVE  \A m \in Messages : \/ menusByMessageId'[m] = menusByMessageId[m]
                             \/ ForMany(menusByMessageId'[m])
<1>1. ASSUME NEW u \in Users, NEW o \in Users, NEW c \in Chats, DuelCommand(r, u, o, c)
      PROVE  \A m \in Messages : \/ menusByMessageId'[m] = menusByMessageId[m]
                                 \/ ForMany(menusByMessageId'[m])
  BY <1>1, CleanupForgets, NoOfferThere DEF DuelCommand, noActiveMenu
<1>2. ASSUME NEW n \in Messages, DuelMenuShown(r, n)
      PROVE  \A m \in Messages : \/ menusByMessageId'[m] = menusByMessageId[m]
                                 \/ ForMany(menusByMessageId'[m])
  <2>1. ForMany(Session(job[r].user, job[r].chat, n, "duel_setup", job[r].data))
    BY DEF ForMany, Session
  <2> QED
    BY <1>2, <2>1, CreateOpens, NoOfferThere DEF DuelMenuShown
<1>3. CASE CreateChecks(r)
  BY <1>3, CleanupForgets, NoOfferThere DEF CreateChecks
<1>4. ASSUME UNCHANGED menuVars
      PROVE  \A m \in Messages : \/ menusByMessageId'[m] = menusByMessageId[m]
                                 \/ ForMany(menusByMessageId'[m])
  BY <1>4 DEF menuVars
<1>5. CASE DuelFight(r)
  BY <1>4, <1>5 DEF DuelFight, AcceptDuel, AcceptStep
<1> QED
  BY <1>1, <1>2, <1>3, <1>4, <1>5
     DEF DuelSetup, ChooseConsequence, InsertDuel, PostChallenge, ChallengePosted

LEMMA MenusOfGiveaways ==
  ASSUME Menus, NEW r, GiveawayRequest(r)
  PROVE  \A m \in Messages : \/ menusByMessageId'[m] = menusByMessageId[m]
                             \/ ForTwo(menusByMessageId'[m])
<1>1. ASSUME NEW u \in Users, NEW c \in Chats, NEW t \in Totals,
             GiveawayCommand(r, u, c, t)
      PROVE  \A m \in Messages : \/ menusByMessageId'[m] = menusByMessageId[m]
                                 \/ ForTwo(menusByMessageId'[m])
  BY <1>1, CleanupForgets, NoChallengeThere DEF GiveawayCommand, noActiveMenu
<1>2. ASSUME NEW n \in Messages, GiveawayMenuShown(r, n)
      PROVE  \A m \in Messages : \/ menusByMessageId'[m] = menusByMessageId[m]
                                 \/ ForTwo(menusByMessageId'[m])
  <2>1. ForTwo(Session(job[r].user, job[r].chat, n, "giveaway_setup", job[r].data))
    BY DEF ForTwo, Session
  <2> QED
    BY <1>2, <2>1, CreateOpens, NoChallengeThere DEF GiveawayMenuShown
<1>3. CASE CreateGiveaway(r)
  BY <1>3, CleanupForgets, NoChallengeThere DEF CreateGiveaway
<1>4. ASSUME UNCHANGED menuVars
      PROVE  \A m \in Messages : \/ menusByMessageId'[m] = menusByMessageId[m]
                                 \/ ForTwo(menusByMessageId'[m])
  BY <1>4 DEF menuVars
<1> QED
  BY <1>1, <1>2, <1>3, <1>4
     DEF GiveawayRequest, PressCreate, InsertGiveaway, Announce, PressClaim,
         CancelGiveaway, GiveawayStep

(* A step of one request keeps everything.                                  *)
LEMMA RequestKeeps ==
  ASSUME CommunityInv, NEW r \in Requests, Request(r)
  PROVE  CommunityInv' /\ Acts(r)
<1> USE DEF CommunityInv
<1>0. Menus /\ MenuJobs /\ UNCHANGED crashes
  BY DEF MenuInv, Request
<1>1. CASE Duels(r)
  <2>1. DuelSetup(r) \/ DuelFight(r)
    BY <1>1 DEF Duels
  <2>2. Acts(r) /\ InDuel(r) /\ InDuel(r)' /\ DuelInv'
    BY <2>1, DuelSetupDone, DuelFightDone DEF Done
  <2>3. MenuInv'
    BY <2>1, DuelSetupKeeps, DuelFightKeeps
  <2>4. UNCHANGED << seized, giveawayVars, sharedVars >>
    BY <1>1 DEF Duels
  <2>5. GiveawayInv'
    <3>1. GiveawayTypeOK' /\ GiveawaysLast
      BY <2>4, SameGiveaways DEF GiveawayInv
    <3>2. GiveawayKnows(r)'
      BY <2>2, KnowsElsewhereNext
    <3> QED
      BY <1>0, <2>1, <2>2, <3>1, <3>2, MenusOfDuels, GiveawayStepKeeps DEF Acts
  <2>6. SharedInv' /\ Administered'
    BY <1>0, <2>2, <2>4, KnowsElsewhere, KnowsElsewhereNext, SharedElsewhere
  <2>7. WithdrawInv'
    BY <1>0, <2>2, <2>4, KnowsElsewhereNext, WithdrawElsewhere DEF WithdrawInv
  <2> QED
    BY <1>0, <2>2, <2>3, <2>5, <2>6, <2>7, ActsKeepLoop, PlacedKept DEF Acts
<1>4. CASE Withdrawals(r)
  <2>1. /\ WithdrawRequest(r)
        /\ UNCHANGED << duels, penalties, menuVars, giveawayVars, sharedVars >>
    BY <1>4 DEF Withdrawals, WithdrawRequest
  <2>2. Acts(r) /\ InWithdraw(r) /\ InWithdraw(r)' /\ WithdrawInv' /\ LockTypeOK'
    BY <2>1, WithdrawalsDone DEF WithdrawDone, DuelInv, DuelTypeOK
  <2>3. MenuInv'
    BY <2>1, WithdrawalsKeep
  <2>4. DuelInv'
    <3>1. DuelTypeOK' /\ RowsLast
      BY <2>1, <2>2, SameRowsLast DEF DuelInv, DuelTypeOK
    <3>2. DuelKnows(r)'
      BY <2>2, KnowsElsewhereNext
    <3> QED
      BY <1>0, <2>1, <2>2, <3>1, <3>2, DuelStepKeeps DEF Acts, menuVars
  <2>5. GiveawayInv'
    <3>1. GiveawayTypeOK' /\ GiveawaysLast
      BY <2>1, SameGiveaways DEF GiveawayInv
    <3>2. GiveawayKnows(r)'
      BY <2>2, KnowsElsewhereNext
    <3> QED
      BY <1>0, <2>1, <2>2, <3>1, <3>2, GiveawayStepKeeps DEF Acts, menuVars
  <2>6. SharedInv' /\ Administered'
    BY <1>0, <2>1, <2>2, KnowsElsewhere, KnowsElsewhereNext, SharedElsewhere
  <2> QED
    BY <1>0, <2>2, <2>3, <2>4, <2>5, <2>6, ActsKeepLoop, PlacedKept DEF Acts
<1>2. CASE Giveaways(r)
  <2>1. GiveawayRequest(r) /\ UNCHANGED << duelVars, seized, sharedVars >>
    BY <1>2 DEF Giveaways
  <2>2. Acts(r) /\ InGiveaway(r) /\ InGiveaway(r)' /\ GiveawayInv'
    BY <2>1, GiveawaysDone DEF GiveawayDone
  <2>3. MenuInv'
    BY <2>1, GiveawaysKeep
  <2>4. DuelInv'
    <3>1. DuelTypeOK' /\ RowsLast
      BY <2>1, SameTables DEF DuelInv
    <3>2. DuelKnows(r)'
      BY <2>2, KnowsElsewhereNext
    <3> QED
      BY <1>0, <2>1, <2>2, <3>1, <3>2, MenusOfGiveaways, DuelStepKeeps DEF Acts
  <2>5. SharedInv' /\ Administered'
    BY <1>0, <2>1, <2>2, KnowsElsewhere, KnowsElsewhereNext, SharedElsewhere
  <2>6. WithdrawInv'
    BY <1>0, <2>1, <2>2, KnowsElsewhereNext, WithdrawElsewhere DEF WithdrawInv
  <2> QED
    BY <1>0, <2>2, <2>3, <2>4, <2>5, <2>6, ActsKeepLoop, PlacedKept DEF Acts
<1>3. CASE Shared(r)
  <2>1. SharedRequest(r) /\ UNCHANGED << menuVars, duelVars, seized, giveawayVars >>
    BY <1>3 DEF Shared
  <2>2. Acts(r) /\ InShared(r) /\ InShared(r)' /\ SharedInv' /\ Administered'
    BY <1>0, <2>1, SharedRequestDone DEF SharedDone
  <2>3. MenuInv'
    BY <1>3, SharedKeeps
  <2>4. DuelInv'
    <3>1. DuelTypeOK' /\ RowsLast
      BY <2>1, SameTables DEF DuelInv
    <3>2. DuelKnows(r)'
      BY <2>2, KnowsElsewhereNext
    <3> QED
      BY <1>0, <2>1, <2>2, <3>1, <3>2, DuelStepKeeps DEF Acts, menuVars
  <2>5. GiveawayInv'
    <3>1. GiveawayTypeOK' /\ GiveawaysLast
      BY <2>1, SameGiveaways DEF GiveawayInv
    <3>2. GiveawayKnows(r)'
      BY <2>2, KnowsElsewhereNext
    <3> QED
      BY <1>0, <2>1, <2>2, <3>1, <3>2, GiveawayStepKeeps DEF Acts, menuVars
  <2>6. WithdrawInv'
    BY <1>0, <2>1, <2>2, KnowsElsewhereNext, WithdrawElsewhere DEF WithdrawInv
  <2> QED
    BY <1>0, <2>2, <2>3, <2>4, <2>5, <2>6, ActsKeepLoop, PlacedKept DEF Acts
<1> QED
  BY <1>1, <1>2, <1>3, <1>4 DEF Request

(* The end of a duel without a fight keeps its players.                     *)
LEMMA EndDuelKeeps ==
  ASSUME DuelTypeOK, EndDuel
  PROVE  DuelTypeOK' /\ RowsLast
<1>1. ASSUME NEW d \in Pending, NEW row, SamePlayers(row, duels[d]),
             duels' = [duels EXCEPT ![d] = row]
      PROVE  DuelTypeOK' /\ RowsLast
  <2>1. d \in Rows
    BY DEF Pending
  <2> QED
    BY <1>1, <2>1, UpdateKeepsRows DEF EndDuel, DuelTypeOK, LockTypeOK
<1>2. ASSUME NEW u \in Users, NEW d \in DuelIds, CancelDuel(u, d) \/ RejectDuel(u, d)
      PROVE  DuelTypeOK' /\ RowsLast
  <2>1. PICK s \in {"cancelled", "rejected"} :
          d \in Pending /\ duels' = [duels EXCEPT ![d].status = s]
    BY <1>2 DEF CancelDuel, RejectDuel, SetStatus
  <2>2. duels[d] \in DuelRow
    BY <2>1 DEF DuelTypeOK, Pending
  <2> DEFINE new == [duels[d] EXCEPT !.status = s]
  <2>3. SamePlayers(new, duels[d]) /\ duels' = [duels EXCEPT ![d] = new]
    BY <2>1, <2>2, StatusUpdate
  <2> HIDE DEF new
  <2> QED
    BY <1>1, <2>1, <2>3
<1>3. ASSUME NEW d \in DuelIds, DuelAges(d)
      PROVE  DuelTypeOK' /\ RowsLast
  <2>1. d \in Pending /\ duels[d] \in DuelRow
    BY <1>3 DEF DuelAges, DuelTypeOK, Pending
  <2> DEFINE new == [duels[d] EXCEPT !.old = TRUE]
  <2>2. SamePlayers(new, duels[d]) /\ duels' = [duels EXCEPT ![d] = new]
    BY <1>3, <2>1, AgeUpdate DEF DuelAges
  <2> HIDE DEF new
  <2> QED
    BY <1>1, <2>1, <2>2
<1>4. CASE CleanExpiredDuels
  <2>1. /\ DOMAIN duels' = DuelIds
        /\ \A d \in DuelIds :
             duels'[d] = IF d \in ExpiredDuels
                         THEN [duels[d] EXCEPT !.status = "expired"] ELSE duels[d]
    BY <1>4 DEF CleanExpiredDuels
  <2>2. ASSUME NEW d \in Rows
        PROVE  SamePlayers(duels'[d], duels[d]) /\ duels'[d] # NoDuel
    <3>1. d \in DuelIds /\ duels[d] \in DuelRow
      BY DEF Rows, DuelTypeOK
    <3>2. SamePlayers([duels[d] EXCEPT !.status = "expired"], duels[d])
      BY <3>1, StatusUpdate
    <3>3. SamePlayers(duels[d], duels[d])
      BY <3>1 DEF SamePlayers
    <3>4. SamePlayers(duels'[d], duels[d])
      BY <2>1, <3>1, <3>2, <3>3
    <3> QED
      BY <3>4, RowIsThere DEF SamePlayers
  <2>3. Rows' = Rows
    BY <2>1, <2>2 DEF Rows, ExpiredDuels, Pending
  <2> QED
    BY <1>4, <2>1, <2>2, <2>3
       DEF EndDuel, DuelTypeOK, LockTypeOK, RowsLast, SamePlayers
<1> QED
  BY <1>2, <1>3, <1>4 DEF EndDuel

(* What passes by itself.                                                   *)
LEMMA MenuStepMenus ==
  ASSUME Menus, MenuStep
  PROVE  \A m \in Messages :
           \/ menusByMessageId'[m] = menusByMessageId[m]
           \/ menusByMessageId'[m] = NoSession
           \/ /\ menusByMessageId'[m].type = menusByMessageId[m].type
              /\ menusByMessageId'[m].user = menusByMessageId[m].user
              /\ menusByMessageId'[m].data = menusByMessageId[m].data
<1>1. ASSUME NEW n \in Messages, MenuExpires(n)
      PROVE  \A m \in Messages :
           \/ menusByMessageId'[m] = menusByMessageId[m]
           \/ /\ menusByMessageId'[m].type = menusByMessageId[m].type
              /\ menusByMessageId'[m].user = menusByMessageId[m].user
              /\ menusByMessageId'[m].data = menusByMessageId[m].data
  <2> DEFINE s == menusByMessageId[n]
             old == [s EXCEPT !.live = FALSE]
  <2>1. IsSession(s)
    BY <1>1 DEF MenuExpires, Menus
  <2>2. old = [type |-> s.type, user |-> s.user, chat |-> s.chat,
               message |-> s.message, live |-> FALSE, data |-> s.data]
    BY <2>1, Expire, Zenon
  <2>3. menusByMessageId' = [menusByMessageId EXCEPT ![n] = old]
    BY <1>1 DEF MenuExpires
  <2> HIDE DEF old
  <2>4. old.type = s.type /\ old.user = s.user /\ old.data = s.data
    BY <2>2
  <2> HIDE DEF s
  <2>5. DOMAIN menusByMessageId = Messages
    BY DEF Menus
  <2> QED
    BY <2>3, <2>4, <2>5 DEF s
<1>2. ASSUME NEW S, Cleanup(S)
      PROVE  \A m \in Messages : \/ menusByMessageId'[m] = menusByMessageId[m]
                                 \/ menusByMessageId'[m] = NoSession
  BY <1>2, CleanupForgets
<1> QED
  BY <1>1, <1>2 DEF MenuStep, CancelMenu, PressExpired, cleanupExpiredSessions

LEMMA BackgroundKeepsAll ==
  ASSUME CommunityInv, Background
  PROVE  CommunityInv'
<1> USE DEF CommunityInv
<1>1. UNCHANGED << pc, job, loopVars, seized, giveawayVars, sharedVars, crashes >>
  <2>1. CASE EndDuel /\ UNCHANGED seized
    BY <2>1 DEF Background, EndDuel, CancelDuel, RejectDuel, DuelAges,
                CleanExpiredDuels, Pass, Drain, loopVars
  <2>2. CASE MenuStep /\ UNCHANGED << pc, job, ledgerVars, duelVars, seized >>
    BY <2>2 DEF Background, MenuStep, CancelMenu, PressExpired,
                cleanupExpiredSessions, Pass, Drain, loopVars, duelVars
  <2>3. CASE LockStep
    BY <2>3 DEF Background, LockStep, LockElapses, CleanExpiredLocks, Drain, loopVars
  <2> QED
    BY <2>1, <2>2, <2>3 DEF Background
<1>2. MenuInv'
  BY BackgroundKeeps
<1>3. Loop' /\ Placed' /\ WithdrawInv'
  BY <1>1 DEF Loop, LoopTypeOK, Placed, InDuel, InWithdraw, InGiveaway, InShared,
              loopVars, WithdrawInv, WithdrawKnows, ByItself
<1>4. DuelTypeOK' /\ RowsLast
  <2>1. CASE EndDuel
    BY <2>1, EndDuelKeeps DEF DuelInv
  <2>2. CASE UNCHANGED duelVars
    BY <2>2, SameTables DEF DuelInv
  <2>3. CASE LockStep
    <3>1. LockTypeOK' /\ UNCHANGED << duels, penalties >>
      <4>1. DeleteLocks(ExpiredLocks) \/ \E u \in Users : Elapse(u)
        BY <2>3 DEF LockStep, CleanExpiredLocks, LockElapses
      <4> QED
        BY <2>3, <4>1, LocksKeepType DEF LockStep, DuelInv, DuelTypeOK
    <3> QED
      BY <3>1, SameRowsLast DEF DuelInv, DuelTypeOK
  <2> QED
    BY <2>1, <2>2, <2>3 DEF Background
<1>5. \A m \in Messages : ForTwo(menusByMessageId'[m]) /\ ForMany(menusByMessageId'[m])
  <2>1. \A m \in Messages : ForTwo(menusByMessageId[m]) /\ ForMany(menusByMessageId[m])
    BY DEF DuelInv, GiveawayInv
  <2>2. CASE EndDuel
    BY <2>1, <2>2 DEF EndDuel, menuVars
  <2>3. CASE MenuStep
    <3>1. Menus
      BY DEF MenuInv
    <3> QED
      BY <2>1, <2>3, <3>1, MenuStepMenus, NoOfferThere, NoChallengeThere
         DEF ForTwo, ForMany
  <2>4. CASE LockStep
    BY <2>1, <2>4 DEF LockStep, menuVars
  <2> QED
    BY <2>2, <2>3, <2>4 DEF Background
<1>6. \A r \in Requests : DuelKnows(r)'
  <2> SUFFICES ASSUME NEW r \in Requests PROVE DuelKnows(r)'
    OBVIOUS
  <2>1. DuelKnows(r)
    BY DEF DuelInv
  <2>2. Accepting(r)' <=> Accepting(r)
    BY <1>1 DEF Accepting
  <2>3. pc[r] = "penalty" => Accepting(r)
    BY DEF Accepting, AcceptSteps
  <2> QED
    BY <1>1, <1>4, <2>1, <2>2, <2>3 DEF DuelKnows, RowsLast
<1>7. GiveawayTypeOK' /\ \A r \in Requests : GiveawayKnows(r)'
  <2>1. GiveawayTypeOK'
    BY <1>1, SameGiveaways DEF GiveawayInv
  <2>2. ASSUME NEW r \in Requests
        PROVE  GiveawayKnows(r)'
    <3>1. GiveawayKnows(r)
      BY DEF GiveawayInv
    <3> QED
      BY <1>1, <3>1
         DEF GiveawayKnows, Moving, giveawayVars, GiveawayRows
  <2> QED
    BY <2>1, <2>2
<1>8. SharedInv' /\ Administered'
  <2>1. SharedRows' = SharedRows /\ shared' = shared /\ permissions' = permissions
    BY <1>1 DEF sharedVars, SharedRows
  <2>2. SharedTables'
    BY <2>1 DEF SharedInv, SharedTables, AccessIsToThisAccount
  <2>3. \A r \in Requests : SharedKnows(r)'
    BY <1>1, <2>1 DEF SharedInv, SharedKnows, ToOther, loopVars
  <2>4. Administered'
    BY <1>1, <2>1 DEF Administered, HasAdmin, GrantsToOthers, ToOther
  <2> QED
    BY <2>2, <2>3, <2>4 DEF SharedInv
<1>9. DuelInv' /\ GiveawayInv'
  BY <1>4, <1>5, <1>6, <1>7 DEF DuelInv, GiveawayInv
<1> QED
  BY <1>1, <1>2, <1>3, <1>8, <1>9

(* After a crash no request is anywhere, and the tables are as they were.   *)
LEMMA NobodyKnows ==
  ASSUME NEW r, pc'[r] = "idle"
  PROVE  /\ DuelKnows(r)' /\ WithdrawKnows(r)' /\ GiveawayKnows(r)' /\ SharedKnows(r)'
         /\ InDuel(r)' /\ InGiveaway(r)' /\ InShared(r)'
<1>1. DuelKnows(r)' /\ InDuel(r)'
  BY IdleKnows
<1>2. GiveawayKnows(r)' /\ InGiveaway(r)'
  BY IdleGives
<1>3. SharedKnows(r)' /\ InShared(r)'
  BY IdleShares
<1>4. WithdrawKnows(r)'
  BY IdleWithdraws
<1> QED
  BY <1>1, <1>2, <1>3, <1>4

LEMMA CrashKeepsAll ==
  ASSUME CommunityInv, Crash
  PROVE  CommunityInv'
<1> USE DEF CommunityInv
<1>1. /\ ready' = {} /\ batch' = FALSE /\ crashes' = crashes + 1
      /\ pc' = [r \in Requests |-> "idle"] /\ job' = [r \in Requests |-> NoJob]
      /\ UNCHANGED << duels, penalties, seized, giveawayVars, sharedVars >>
      /\ menusByMessageId' = [m \in Messages |-> NoSession]
      /\ DeleteLocks(ExpiredLocks)
  BY DEF Crash, RequestsCrash, Halt, ForgetMenus
<1>2. MenuInv'
  <2>1. Menus'
    BY ForgetKeeps DEF Crash, MenuInv
  <2>2. MenuJobs'
    BY <1>1 DEF MenuJobs, Knows
  <2> QED
    BY <2>1, <2>2 DEF MenuInv
<1>3. Loop'
  BY <1>1 DEF Loop, LoopTypeOK
<1>4. \A r \in Requests : pc'[r] = "idle"
  BY <1>1
<1>5. Placed'
  BY <1>4, NobodyKnows DEF Placed
<1>6. DuelTypeOK'
  <2>1. LockTypeOK'
    <3>1. NoLock \in Locks
      BY DEF NoLock, Locks
    <3> QED
      BY <1>1, <3>1 DEF DuelInv, DuelTypeOK, LockTypeOK, DeleteLocks
  <2> QED
    BY <1>1, <2>1 DEF DuelInv, DuelTypeOK, Rows
<1>7. GiveawayTypeOK'
  BY <1>1, SameGiveaways DEF GiveawayInv
<1>8. \A m \in Messages : ForTwo(menusByMessageId'[m]) /\ ForMany(menusByMessageId'[m])
  BY <1>1, NoChallengeThere, NoOfferThere
<1>9. DuelInv' /\ GiveawayInv'
  BY <1>4, <1>6, <1>7, <1>8, NobodyKnows DEF DuelInv, GiveawayInv
<1>10. SharedTables'
  BY <1>1 DEF SharedInv, SharedTables, AccessIsToThisAccount, sharedVars, SharedRows
<1>11. SharedInv'
  BY <1>4, <1>10, NobodyKnows DEF SharedInv
<1>12. crashes' \in Nat /\ crashes' # 0
  BY <1>1
<1>13. WithdrawInv'
  BY <1>1, <1>4, NobodyKnows DEF WithdrawInv
<1> QED
  BY <1>2, <1>3, <1>5, <1>9, <1>11, <1>12, <1>13 DEF Administered

LEMMA NothingHappens ==
  ASSUME CommunityInv, UNCHANGED vars
  PROVE  CommunityInv'
<1> USE DEF CommunityInv
<1>1. UNCHANGED << loopVars, pc, job, menuVars, duelVars, seized, giveawayVars,
                   sharedVars, crashes >>
  BY DEF vars
<1>2. UNCHANGED << ready, batch, activeMenus, menusByMessageId, duels, locks,
                   penalties, giveaways, claims, shared, permissions >>
  BY <1>1 DEF loopVars, menuVars, duelVars, giveawayVars, sharedVars
<1>3. MenuInv'
  <2>1. Menus'
    BY <1>1, UnchangedKeeps DEF MenuInv
  <2> QED
    BY <1>1, <2>1 DEF MenuInv, MenuJobs, Knows
<1>4. Loop' /\ Placed' /\ WithdrawInv'
  BY <1>1, <1>2 DEF Loop, LoopTypeOK, Placed, InDuel, InWithdraw, InGiveaway,
                    InShared, WithdrawInv, WithdrawKnows, ByItself
<1>5. DuelInv'
  <2>1. DuelTypeOK' /\ Rows' = Rows
    BY <1>1, <1>2, SameTables DEF DuelInv, Rows
  <2>2. \A r \in Requests : DuelKnows(r)'
    BY <1>1, <1>2, <2>1 DEF DuelInv, DuelKnows, Accepting
  <2> QED
    BY <1>2, <2>1, <2>2 DEF DuelInv, ForTwo
<1>6. GiveawayInv'
  <2>1. GiveawayTypeOK' /\ GiveawayRows' = GiveawayRows
    BY <1>1, <1>2, SameGiveaways DEF GiveawayInv, GiveawayRows
  <2>2. \A r \in Requests : GiveawayKnows(r)'
    BY <1>1, <1>2, <2>1 DEF GiveawayInv, GiveawayKnows, Moving
  <2> QED
    BY <1>2, <2>1, <2>2 DEF GiveawayInv, ForMany
<1>7. SharedInv' /\ Administered'
  <2>1. SharedRows' = SharedRows
    BY <1>2 DEF SharedRows
  <2>2. SharedTables'
    BY <1>2, <2>1 DEF SharedInv, SharedTables, AccessIsToThisAccount
  <2>3. \A r \in Requests : SharedKnows(r)'
    BY <1>1, <1>2, <2>1 DEF SharedInv, SharedKnows, ToOther
  <2>4. Administered'
    BY <1>1, <1>2, <2>1 DEF Administered, HasAdmin, GrantsToOthers, ToOther
  <2> QED
    BY <2>2, <2>3, <2>4 DEF SharedInv
<1> QED
  BY <1>1, <1>3, <1>4, <1>5, <1>6, <1>7

(* At the start there are at most the challenges an earlier run has left.   *)
LEMMA CommunityStarts == Init => CommunityInv
<1> SUFFICES ASSUME Init PROVE CommunityInv
  OBVIOUS
<1>1. /\ ready = {} /\ batch = FALSE /\ crashes = 0
      /\ pc = [r \in Requests |-> "idle"] /\ job = [r \in Requests |-> NoJob]
      /\ NoMenus /\ GiveawayInit /\ SharedInit
      /\ penalties = [u \in Users |-> {}] /\ LockInit
      /\ duels = [d \in DuelIds |-> NoDuel] \/ duels \in mode.challenges
      /\ mode \in Modes
  BY DEF Init, RequestsInit, LoopInit, DuelInit
<1>2. MenuInv
  <2>1. Menus
    BY <1>1, EmptyMaps
  <2> QED
    BY <1>1, <2>1 DEF MenuInv, MenuJobs, Knows
<1>3. Loop
  BY <1>1 DEF Loop, LoopTypeOK
<1>4. \A r \in Requests : pc[r] = "idle"
  BY <1>1
<1>5. Placed
  BY <1>4 DEF Placed, InShared, SharedSteps
<1>6. DuelTypeOK
  <2>1. DOMAIN duels = DuelIds
    BY <1>1, CommunityAssumption
  <2>2. \A d \in Rows : duels[d] \in DuelRow /\ duels[d].challenger # duels[d].opponent
    BY <1>1, CommunityAssumption DEF Rows
  <2>3. LockTypeOK
    <3>1. NoLock \in Locks
      BY DEF NoLock, Locks
    <3> QED
      BY <1>1, <3>1 DEF LockInit, LockTypeOK
  <2> QED
    BY <1>1, <2>1, <2>2, <2>3 DEF DuelTypeOK
<1>7. GiveawayTypeOK
  BY <1>1 DEF GiveawayInit, GiveawayTypeOK, GiveawayRows
<1>8. \A m \in Messages : ForTwo(menusByMessageId[m]) /\ ForMany(menusByMessageId[m])
  BY <1>1, NoChallengeThere, NoOfferThere DEF NoMenus
<1>9. \A r \in Requests : DuelKnows(r) /\ GiveawayKnows(r) /\ SharedKnows(r)
  BY <1>4 DEF DuelKnows, Accepting, AcceptSteps, TransferSteps, GiveawayKnows,
              Moving, MovingSteps, SharedKnows, PermissionSteps
<1>10. SharedTables /\ Administered
  BY <1>1 DEF SharedInit, SharedTables, AccessIsToThisAccount, SharedRows,
              Administered, GrantsToOthers
<1>11. WithdrawInv
  BY <1>4 DEF Init, WithdrawInit, WithdrawInv, WithdrawKnows, Draining, WithdrawSteps
<1> QED
  BY <1>1, <1>2, <1>3, <1>5, <1>6, <1>7, <1>8, <1>9, <1>10, <1>11
     DEF CommunityInv, DuelInv, GiveawayInv, SharedInv

(* CommunityInv is an invariant of the specification.                       *)
LEMMA CommunityInvariant == Spec => []CommunityInv
<1>1. CommunityInv /\ [Next]_vars => CommunityInv'
  BY RequestKeeps, BackgroundKeepsAll, CrashKeepsAll, NothingHappens DEF Next
<1> QED
  BY <1>1, CommunityStarts, PTL DEF Spec

------------------------------------------------------------------------------
(* What follows of the tables.                                              *)

(* Every row of every table, and every handler's step, keeps its form: the  *)
(* players of a duel are two users, no giveaway counts more claims than it  *)
(* has slots although a claim writes the count it read before its transfer, *)
(* no loser is punished in a duel without a consequence.                    *)
THEOREM CommunityTypeCorrect == Spec => []TypeOK
<1>1. CommunityInv => TypeOK
  <2> SUFFICES ASSUME CommunityInv PROVE TypeOK
    OBVIOUS
  <2>1. LoopTypeOK /\ DuelTypeOK /\ GiveawayTypeOK
    BY DEF CommunityInv, Loop, DuelInv, GiveawayInv
  <2>2. pc \in [Requests -> DuelSteps \cup WithdrawSteps \cup GiveawaySteps
                            \cup SharedSteps]
    <3>1. \A r \in Requests : pc[r] \in DuelSteps \cup WithdrawSteps
                                           \cup GiveawaySteps \cup SharedSteps
      BY DEF CommunityInv, Placed, InDuel, InWithdraw, InGiveaway, InShared,
             DuelSteps, GiveawaySteps
    <3>2. pc = [r \in Requests |-> pc[r]]
      BY DEF CommunityInv, MenuInv, MenuJobs
    <3> QED
      BY <3>1, <3>2
  <2>3. SharedTypeOK
    <3>1. SharedTables
      BY DEF CommunityInv, SharedInv
    <3>2. \A i \in SharedRows : shared[i].name \in Names /\ shared[i].createdBy \in Users
      BY <3>1, RowOfAccount DEF AccountRows
    <3>3. \A k \in DOMAIN permissions : permissions[k].level \in DOMAIN Rank
      BY <3>1 DEF SharedTables, PermissionRows, Levels, NoPermission, Rank
    <3> QED
      BY <3>2, <3>3 DEF SharedTypeOK
  <2>4. seized \subseteq Users
    BY DEF CommunityInv, WithdrawInv
  <2> QED
    BY <2>1, <2>2, <2>3, <2>4 DEF TypeOK
<1> QED
  BY <1>1, CommunityInvariant, PTL

(* The ids of shared accounts are used again.  No permission outlives the   *)
(* account it was granted on: not the rows that deleteSharedAccount leaves  *)
(* to the cascade, and not a grant that looked its account up before.       *)
THEOREM NobodyInheritsAccess == Spec => []AccessIsToThisAccount
<1>1. CommunityInv => AccessIsToThisAccount
  BY DEF CommunityInv, SharedInv, SharedTables
<1> QED
  BY <1>1, CommunityInvariant, PTL

(* Without a crash between its two inserts an account is never without its  *)
(* creator among the admins, however the commands of its admins interleave. *)
THEOREM CreatorStaysAdmin == Spec => []CreatorKeepsAdmin
<1>1. CommunityInv => CreatorKeepsAdmin
  BY DEF CommunityInv, Administered, HasAdmin, CreatorKeepsAdmin, Idle
<1> QED
  BY <1>1, CommunityInvariant, PTL

------------------------------------------------------------------------------
(* Whose the locks of duels are.                                            *)

(* Whose locks r has inserted and not yet deleted.                          *)
Owned(r) ==
  IF pc[r] \in {"lockOpponent", "insertOpponent", "backOff"} THEN {challenger(r)}
  ELSE IF \/ pc[r] \in {"resolve", "penalty", "telegram", "releaseChallenger"}
          \/ pc[r] \in TransferSteps /\ job[r].kind = "duel"
       THEN {challenger(r), opponent(r)}
  ELSE IF pc[r] = "releaseOpponent" THEN {opponent(r)} ELSE {}

Holds(r, u) == locks[u].type = "duel" /\ locks[u].holder = r

(* r has waited for Telegram, where withdrawals may have taken its locks.   *)
Late(r) ==
  \/ pc[r] = "telegram"
  \/ pc[r] \in {"releaseChallenger", "releaseOpponent"} /\ ByItself(r)

(* Until then a duel is runnable from its press of the button on.           *)
Awake == \A r \in Requests : Accepting(r) /\ pc[r] # "telegram" => r \in ready

LocksOwned ==
  \A r \in Requests : \A u \in Owned(r) : Holds(r, u) \/ (u \in seized /\ Late(r))

LocksInv == Awake /\ LocksOwned

(* What a step of r may do to the row of u: nothing, insert one, delete one *)
(* of its own duel, seize one for a withdrawal.                             *)
LockMove(r, u) ==
  \/ locks'[u] = locks[u] /\ (u \in Owned(r)' => u \in Owned(r))
  \/ ~HasLock(u) /\ (u \in Owned(r)' => Holds(r, u)')
  \/ u \in Owned(r) /\ u \notin Owned(r)' /\ pc[r] # "telegram"
  \/ u \notin Owned(r)' /\ ByItself(r) /\ u \in seized'

MovesLocks(r) ==
  /\ seized \subseteq seized'
  /\ \A u \in Users : LockMove(r, u)
  /\ Late(r) /\ Owned(r)' # {} => Late(r)'
  /\ Accepting(r)' /\ pc'[r] # "telegram" => r \in ready'

(* Who has locks is accepting a duel, whose players are two users.          *)
LEMMA OwnedFacts ==
  ASSUME DuelInv, NEW r \in Requests
  PROVE  /\ Owned(r) \subseteq Users
         /\ Owned(r) # {} => Accepting(r)
         /\ Accepting(r) =>
              /\ job[r] \in DuelJobs /\ job[r].duel \in Rows
              /\ duels[job[r].duel] \in DuelRow
              /\ challenger(r) \in Users /\ opponent(r) \in Users
              /\ challenger(r) # opponent(r)
<1>1. Accepting(r) =>
        /\ job[r] \in DuelJobs /\ job[r].duel \in Rows
        /\ duels[job[r].duel] \in DuelRow /\ challenger(r) # opponent(r)
  BY DEF DuelInv, DuelKnows, DuelTypeOK, challenger, opponent
<1>2. Accepting(r) => challenger(r) \in Users /\ opponent(r) \in Users
  BY <1>1 DEF challenger, opponent, DuelRow
<1>3. Owned(r) # {} => Accepting(r)
  BY DEF Owned, Accepting, AcceptSteps
<1>4. Owned(r) \subseteq {challenger(r), opponent(r)}
  BY DEF Owned
<1> QED
  BY <1>1, <1>2, <1>3, <1>4

LEMMA NothingOwned ==
  ASSUME NEW r
  PROVE  /\ ~Accepting(r) => Owned(r) = {}
         /\ ~Accepting(r)' => Owned(r)' = {}
BY DEF Owned, Accepting, AcceptSteps

(* Who does not move keeps its locks.                                       *)
LEMMA OwnedKept ==
  ASSUME DuelInv, RowsLast, NEW q \in Requests, pc'[q] = pc[q], job'[q] = job[q]
  PROVE  Owned(q)' = Owned(q)
<1>1. CASE ~Accepting(q)
  <2>1. ~Accepting(q)'
    BY <1>1 DEF Accepting
  <2> QED
    BY <1>1, <2>1, NothingOwned
<1>2. CASE Accepting(q)
  <2>1. job[q].duel \in Rows
    BY <1>2, OwnedFacts
  <2>2. challenger(q)' = challenger(q) /\ opponent(q)' = opponent(q)
    BY <2>1 DEF RowsLast, challenger, opponent
  <2> QED
    BY <2>2 DEF Owned
<1> QED
  BY <1>1, <1>2

(* Who owns locks after a step owns those of users.                         *)
LEMMA OwnedNext ==
  ASSUME DuelInv', NEW r \in Requests
  PROVE  Owned(r)' \subseteq Users
<1>1. CASE Accepting(r)'
  <2>1. (Accepting(r) => challenger(r) \in Users /\ opponent(r) \in Users)'
    BY DEF DuelInv, DuelKnows, DuelTypeOK, challenger, opponent, DuelRow
  <2> QED
    BY <1>1, <2>1 DEF Owned
<1>2. CASE ~Accepting(r)'
  BY <1>2, NothingOwned
<1> QED
  BY <1>1, <1>2

(* The locks after a step that changes them as MovesLocks allows.           *)
LEMMA LocksFollow ==
  ASSUME MenuJobs, Loop, DuelInv, DuelInv', RowsLast, NEW r \in Requests, Acts(r),
         MovesLocks(r), LocksInv
  PROVE  LocksInv'
<1>1. ASSUME NEW q \in Requests \ {r}
      PROVE  pc'[q] = pc[q] /\ job'[q] = job[q] /\ Owned(q)' = Owned(q)
  BY <1>1, OwnedKept DEF MenuJobs, Acts, Moves
<1>2. Awake'
  <2>1. ASSUME NEW q \in Requests \ {r}, Accepting(q)', pc'[q] # "telegram"
        PROVE  q \in ready'
    <3>1. Accepting(q) /\ pc[q] # "telegram"
      BY <1>1, <2>1 DEF Accepting
    <3> QED
      BY <3>1 DEF LocksInv, Awake, Acts, Runs
  <2> QED
    BY <2>1 DEF Awake, MovesLocks
<1>3. ASSUME NEW q \in Requests \ {r}, Late(q)
      PROVE  Late(q)'
  BY <1>1, <1>3, StaysByItself DEF Late
<1>4. ASSUME NEW u \in Owned(r)'
      PROVE  Holds(r, u)' \/ (u \in seized' /\ Late(r)')
  <2>1. LockMove(r, u)
    BY OwnedNext DEF MovesLocks
  <2>2. CASE u \in Owned(r) /\ locks'[u] = locks[u]
    BY <2>2 DEF LocksInv, LocksOwned, MovesLocks, Holds
  <2> QED
    BY <2>1, <2>2 DEF LockMove
<1>5. ASSUME NEW q \in Requests \ {r}, NEW u \in Owned(q)
      PROVE  Holds(q, u)' \/ (u \in seized' /\ Late(q)')
  <2>1. LockMove(r, u) /\ seized \subseteq seized'
    BY OwnedFacts DEF MovesLocks
  <2>2. CASE u \in seized /\ Late(q)
    BY <1>3, <2>1, <2>2
  <2>3. CASE Holds(q, u)
    <3>1. CASE locks'[u] = locks[u]
      BY <2>3, <3>1 DEF Holds
    <3>2. CASE ByItself(r) /\ u \in seized'
      <4>1. Accepting(q) /\ q \notin ready
        BY <3>2, OwnedFacts DEF ByItself
      <4>2. Late(q)
        BY <4>1 DEF LocksInv, Awake, Late
      <4> QED
        BY <1>3, <3>2, <4>2
    <3>3. CASE u \in Owned(r) /\ pc[r] # "telegram"
      <4>1. u \in seized /\ Late(r)
        BY <2>3, <3>3 DEF LocksInv, LocksOwned, Holds
      <4>2. ByItself(r) /\ u \in seized'
        BY <2>1, <3>3, <4>1 DEF Late
      <4> QED
        BY <3>2, <4>2
    <3>4. HasLock(u)
      BY <2>3 DEF Holds, HasLock, NoLock
    <3> QED
      BY <2>1, <3>1, <3>2, <3>3, <3>4 DEF LockMove
  <2> QED
    BY <2>2, <2>3 DEF LocksInv, LocksOwned
<1>6. \A q \in Requests : \A u \in Owned(q)' : Holds(q, u)' \/ (u \in seized' /\ Late(q)')
  BY <1>1, <1>4, <1>5
<1> QED
  BY <1>2, <1>6 DEF LocksInv, LocksOwned

(* The statements on the locks, as changes of the set that r owns.          *)
LEMMA DeleteMove ==
  ASSUME NEW r, NEW v, DeleteLocks({v}), pc[r] # "telegram",
         Owned(r) = Owned(r)' \cup {v}, v \notin Owned(r)'
  PROVE  \A u \in Users : LockMove(r, u)
BY DEF DeleteLocks, LockMove

LEMMA InsertMove ==
  ASSUME DuelInv, NEW r, NEW v, InsertLock(v, "duel", r), Owned(r)' = Owned(r) \cup {v}
  PROVE  \A u \in Users : LockMove(r, u)
<1>1. locks = [u \in Users |-> locks[u]]
  BY DEF DuelInv, DuelTypeOK, LockTypeOK
<1>2. ~HasLock(v) /\ locks' = [locks EXCEPT ![v] = NewLock("duel", r)]
  BY DEF InsertLock
<1>3. /\ v \in Users => locks'[v] = NewLock("duel", r)
      /\ \A u \in Users \ {v} : locks'[u] = locks[u]
  BY <1>1, <1>2
<1>4. NewLock("duel", r).type = "duel" /\ NewLock("duel", r).holder = r
  BY DEF NewLock
<1> QED
  BY <1>2, <1>3, <1>4 DEF LockMove, Holds

(* A step that leaves the rows as they are and r without any.               *)
LEMMA MovesNoLock ==
  ASSUME UNCHANGED << locks, seized >>, NEW r, Owned(r)' = {},
         Accepting(r)' => r \in ready'
  PROVE  MovesLocks(r)
BY DEF MovesLocks, LockMove

(* r is between the first read and the log entry of a transfer.             *)
Mover(r) == pc[r] \in TransferSteps

Ends(r) == {job[r].from, job[r].to}

(* The two accounts of a transfer; those of a duel are its players'.        *)
Payer(r) ==
  /\ job[r].from \in Accounts /\ job[r].to \in Accounts /\ job[r].from # job[r].to
  /\ job[r].amt \in Int
  /\ job[r].kind = "duel" => Ends(r) = {challenger(r), opponent(r)}

(* What a step of r has to do with transfers: it is one, it is outside of   *)
(* them, or the next one begins.                                            *)
Refuses(r, refused) ==
  /\ pc[r] = "readFrom" /\ Tick(r) /\ Continue(r, refused)
  /\ UNCHANGED << job, ledgerVars >>

Pays(r) ==
  \E done, refused :
    /\ {done, refused} \cap TransferSteps = {}
    /\ TransferStep(r, done, refused) \/ Refuses(r, refused)

Pauses(r) == UNCHANGED ledgerVars /\ ~Mover(r) /\ ~Mover(r)'

Enters(r) ==
  /\ UNCHANGED ledgerVars /\ ~Mover(r)
  /\ pc'[r] = "readFrom" /\ r \in ready' /\ Payer(r)'
  /\ mode.batching => job'[r].kind = "duel"

(* acceptAndExecuteDuel, as a sequence of statements on locks and balances. *)
LEMMA AcceptPays ==
  ASSUME MenuJobs, DuelInv, RowsLast, NEW r \in Requests, AcceptStep(r),
         UNCHANGED seized
  PROVE  /\ MovesLocks(r)
         /\ Pays(r) \/ Pauses(r) \/ Enters(r)
<1>1. DOMAIN pc = Requests /\ DOMAIN job = Requests
  BY DEF MenuJobs
<1>2. Accepting(r)
  BY DEF AcceptStep, Accepting, AcceptSteps, CheckChallenger, CancelPoor,
         LockChallenger, LockOpponent, BackOff, Pay, Resolve, ReadLock,
         ApplyConsequence, PenaltyAnswered, ReleaseDuelLocks,
         TransferStep, TransferSteps
<1>3. /\ job[r] \in DuelJobs /\ job[r].kind = "duel" /\ job[r].duel \in Rows
      /\ challenger(r) \in Users /\ opponent(r) \in Users /\ challenger(r) # opponent(r)
  BY <1>2, OwnedFacts DEF DuelJobs
\* The handler returns, or goes on outside of the transfer.
<1>4. ASSUME Finish(r)
      PROVE  pc'[r] = "idle" /\ Owned(r)' = {} /\ ~Mover(r)' /\ ~Accepting(r)'
  BY <1>1, <1>4 DEF Finish, Owned, Mover, Accepting, AcceptSteps, TransferSteps
<1>5. ASSUME NEW step, Continue(r, step), UNCHANGED job
      PROVE  /\ pc'[r] = step /\ job'[r] = job[r]
             /\ challenger(r)' = challenger(r) /\ opponent(r)' = opponent(r)
  BY <1>1, <1>3, <1>5 DEF Continue, RowsLast, challenger, opponent
<1>6. ASSUME UNCHANGED << locks, ledgerVars >>,
             pc[r] \notin TransferSteps
                         \cup {"telegram", "releaseChallenger", "releaseOpponent"},
             \/ Finish(r)
             \/ \E step \in AcceptSteps :
                  /\ Tick(r) \/ step = "telegram"
                  /\ Continue(r, step) /\ UNCHANGED job /\ Owned(r)' \subseteq Owned(r)
      PROVE  MovesLocks(r) /\ Pauses(r)
  <2>1. ~Late(r)
    BY <1>6 DEF Late
  <2>2. CASE Finish(r)
    BY <1>4, <1>6, <2>1, <2>2 DEF MovesLocks, LockMove, Pauses, Mover
  <2>3. ASSUME NEW step \in AcceptSteps, Tick(r) \/ step = "telegram",
               Continue(r, step), UNCHANGED job, Owned(r)' \subseteq Owned(r)
        PROVE  MovesLocks(r) /\ Pauses(r)
    <3>1. pc'[r] = step /\ (r \in ready' \/ step = "telegram")
      BY <1>5, <2>3 DEF Tick
    <3>2. ~Mover(r) /\ ~Mover(r)'
      BY <1>6, <3>1 DEF Mover, AcceptSteps, TransferSteps
    <3> QED
      BY <1>6, <2>1, <2>3, <3>1, <3>2 DEF MovesLocks, LockMove, Pauses
  <2> QED
    BY <1>6, <2>2, <2>3
<1>7. CASE CheckChallenger(r)
  <2>1. PICK step \in {"lockChallenger", "cancelPoor"} :
          Tick(r) /\ Continue(r, step) /\ UNCHANGED << job, locks, ledgerVars >>
    BY <1>7 DEF CheckChallenger, duelVars
  <2>2. pc[r] = "challengerBalance" /\ Owned(r)' = {}
    BY <1>5, <1>7, <2>1 DEF CheckChallenger, Owned, TransferSteps
  <2> QED
    BY <1>6, <2>1, <2>2 DEF AcceptSteps, TransferSteps
<1>8. CASE CancelPoor(r)
  BY <1>6, <1>8 DEF CancelPoor, TransferSteps
<1>9. CASE LockChallenger(r)
  <2>1. pc[r] \in {"lockChallenger", "insertChallenger"} /\ UNCHANGED ledgerVars
    BY <1>9 DEF LockChallenger, ReadLock
  <2>2. CASE GiveUp(r) /\ UNCHANGED locks
    BY <1>6, <2>1, <2>2 DEF GiveUp, TransferSteps
  <2>3. CASE Tick(r) /\ Continue(r, "insertChallenger") /\ UNCHANGED << job, locks >>
    <3>1. Owned(r)' = {}
      BY <1>5, <2>3 DEF Owned, TransferSteps
    <3> QED
      BY <1>6, <2>1, <2>3, <3>1 DEF AcceptSteps, TransferSteps
  <2>4. CASE /\ InsertLock(challenger(r), "duel", r) /\ Tick(r)
             /\ Continue(r, "lockOpponent") /\ UNCHANGED job
    <3>1. Owned(r) = {} /\ Owned(r)' = {challenger(r)} /\ ~Mover(r) /\ ~Mover(r)'
      BY <1>5, <2>1, <2>4 DEF Owned, Mover, TransferSteps
    <3>2. \A u \in Users : LockMove(r, u)
      BY <2>4, <3>1, InsertMove
    <3>3. ~Late(r) /\ r \in ready'
      BY <2>1, <2>4 DEF Late, Tick
    <3> QED
      BY <2>1, <3>1, <3>2, <3>3 DEF MovesLocks, Pauses
  <2> QED
    BY <1>9, <2>2, <2>3, <2>4 DEF LockChallenger, ReadLock, duelVars
<1>10. CASE LockOpponent(r)
  <2>1. pc[r] \in {"lockOpponent", "insertOpponent"} /\ UNCHANGED ledgerVars
    BY <1>10 DEF LockOpponent, ReadLock
  <2>2. CASE GiveUp(r) /\ UNCHANGED locks
    BY <1>6, <2>1, <2>2 DEF GiveUp, TransferSteps
  <2>3. CASE /\ Continue(r, "insertOpponent") \/ Continue(r, "backOff")
             /\ Tick(r) /\ UNCHANGED << job, locks >>
    <3>1. Owned(r) = {challenger(r)} /\ Owned(r)' = {challenger(r)}
      BY <1>5, <2>1, <2>3 DEF Owned
    <3> QED
      BY <1>6, <2>1, <2>3, <3>1 DEF AcceptSteps, TransferSteps
  <2>4. CASE /\ Tick(r) /\ InsertLock(opponent(r), "duel", r)
             /\ Fight(r) /\ Continue(r, "readFrom")
    <3>1. PICK loser \in Users, winner \in Users :
            /\ {loser, winner} = {challenger(r), opponent(r)} /\ loser # winner
            /\ job' = [job EXCEPT ![r].from = loser, ![r].to = winner]
      BY <1>3, <2>4 DEF Fight
    <3>2. ASSUME NEW j \in DuelJobs
          PROVE  LET k == [j EXCEPT !.from = loser, !.to = winner]
                 IN  /\ k.duel = j.duel /\ k.kind = j.kind /\ k.from = loser
                     /\ k.to = winner /\ k.amt = Wager
      BY DEF DuelJobs
    <3>3. /\ job'[r].duel = job[r].duel /\ job'[r].kind = "duel"
          /\ job'[r].from = loser /\ job'[r].to = winner /\ job'[r].amt = Wager
      BY <1>1, <1>3, <3>1, <3>2
    <3>4. pc'[r] = "readFrom" /\ pc'[r] \in TransferSteps
      BY <1>1, <2>4 DEF Continue, TransferSteps
    <3>5. challenger(r)' = challenger(r) /\ opponent(r)' = opponent(r)
      BY <1>3, <3>3 DEF RowsLast, challenger, opponent
    <3>6. Owned(r) = {challenger(r)} /\ Owned(r)' = {challenger(r), opponent(r)}
      BY <2>1, <3>3, <3>4, <3>5 DEF Owned
    <3>7. \A u \in Users : LockMove(r, u)
      BY <2>4, <3>6, InsertMove
    <3>8. Payer(r)'
      <4>1. Ends(r)' = {challenger(r)', opponent(r)'}
        BY <3>1, <3>3, <3>5 DEF Ends
      <4>2. loser \in Accounts /\ winner \in Accounts /\ Wager \in Int
        BY DuelAssumption DEF Accounts
      <4> QED
        BY <3>1, <3>3, <4>1, <4>2 DEF Payer
    <3>9. ~Late(r) /\ ~Mover(r) /\ r \in ready'
      BY <2>1, <2>4 DEF Late, Mover, TransferSteps, Tick
    <3> QED
      BY <2>1, <3>3, <3>4, <3>7, <3>8, <3>9 DEF MovesLocks, Enters
  <2> QED
    BY <1>10, <2>2, <2>3, <2>4 DEF LockOpponent, ReadLock, duelVars
<1>11. CASE BackOff(r)
  <2>1. pc[r] = "backOff" /\ DeleteLocks({challenger(r)}) /\ Finish(r) /\ UNCHANGED ledgerVars
    BY <1>11 DEF BackOff
  <2>2. /\ Owned(r) = {challenger(r)} /\ Owned(r)' = {} /\ ~Mover(r) /\ ~Mover(r)'
        /\ ~Accepting(r)'
    BY <1>4, <2>1 DEF Owned, Mover, TransferSteps
  <2>3. \A u \in Users : LockMove(r, u)
    BY <2>1, <2>2, DeleteMove
  <2> QED
    BY <2>1, <2>2, <2>3 DEF MovesLocks, Pauses
<1>12. CASE Pay(r)
  <2>1. /\ TransferStep(r, "resolve", "releaseChallenger") /\ UNCHANGED << locks, job >>
        /\ pc[r] \in TransferSteps /\ r \in ready'
    BY <1>12 DEF Pay, TransferStep, TransferSteps, Tick
  <2>2. {"resolve", "releaseChallenger"} \cap TransferSteps = {}
    BY DEF TransferSteps
  <2>3. Pays(r)
    BY <2>1, <2>2 DEF Pays
  <2>4. Owned(r) = {challenger(r), opponent(r)} /\ ~Late(r)
    BY <1>3, <2>1 DEF Owned, Late, TransferSteps
  <2>5. challenger(r)' = challenger(r) /\ opponent(r)' = opponent(r)
    BY <1>3, <2>1 DEF RowsLast, challenger, opponent
  <2>6. Owned(r)' \subseteq {challenger(r)', opponent(r)'}
    BY DEF Owned
  <2> QED
    BY <2>1, <2>3, <2>4, <2>5, <2>6 DEF LockMove, MovesLocks
<1>13. CASE Resolve(r)
  <2> DEFINE step == afterResolve(duels[job[r].duel].cons)
  <2>1. /\ pc[r] = "resolve" /\ Tick(r) /\ Continue(r, step)
        /\ UNCHANGED << job, locks, ledgerVars >>
    BY <1>13 DEF Resolve
  <2>2. step \in {"releaseChallenger", "penalty"}
    BY DEF afterResolve
  <2> HIDE DEF step
  <2>3. Owned(r)' = Owned(r)
    BY <1>5, <2>1, <2>2 DEF Owned, TransferSteps
  <2> QED
    BY <1>6, <2>1, <2>2, <2>3 DEF AcceptSteps, TransferSteps
<1>14. CASE ApplyConsequence(r)
  <2>1. /\ pc[r] = "penalty" /\ UNCHANGED << job, locks, ledgerVars >>
        /\ Continue(r, "telegram") \/ (Tick(r) /\ Continue(r, "releaseChallenger"))
    BY <1>14 DEF ApplyConsequence
  <2>2. Owned(r)' = Owned(r)
    BY <1>5, <2>1 DEF Owned, TransferSteps
  <2> QED
    BY <1>6, <2>1, <2>2 DEF AcceptSteps, TransferSteps
<1>15. CASE PenaltyAnswered(r)
  <2>1. /\ pc[r] = "telegram" /\ UNCHANGED << job, locks, ledgerVars >> /\ Wake(r)
        /\ Continue(r, "releaseChallenger")
    BY <1>15 DEF PenaltyAnswered, duelVars
  <2>2. pc'[r] = "releaseChallenger" /\ Owned(r)' = Owned(r)
    BY <1>5, <2>1 DEF Owned, TransferSteps
  <2>3. Late(r)' /\ r \in ready' /\ ~Mover(r) /\ ~Mover(r)'
    BY <2>1, <2>2 DEF Late, ByItself, Wake, Mover, TransferSteps
  <2> QED
    BY <2>1, <2>2, <2>3 DEF MovesLocks, LockMove, Pauses
<1>16. CASE ReleaseDuelLocks(r)
  <2>1. UNCHANGED ledgerVars
    BY <1>16 DEF ReleaseDuelLocks
  <2>2. CASE pc[r] = "releaseChallenger"
    <3>1. /\ DeleteLocks({challenger(r)}) /\ Continue(r, "releaseOpponent")
          /\ Tick(r) /\ UNCHANGED job
      BY <1>16, <2>2 DEF ReleaseDuelLocks
    <3>2. /\ Owned(r) = {challenger(r), opponent(r)} /\ Owned(r)' = {opponent(r)}
          /\ ~Mover(r) /\ ~Mover(r)' /\ pc'[r] = "releaseOpponent"
      BY <1>5, <2>2, <3>1 DEF Owned, Mover, TransferSteps
    <3>3. \A u \in Users : LockMove(r, u)
      BY <1>3, <2>2, <3>1, <3>2, DeleteMove
    <3>4. r \in ready' /\ (Late(r) => Late(r)')
      BY <2>2, <3>1, <3>2 DEF Tick, Late, ByItself
    <3> QED
      BY <2>1, <3>2, <3>3, <3>4 DEF MovesLocks, Pauses
  <2>3. CASE pc[r] = "releaseOpponent"
    <3>1. DeleteLocks({opponent(r)}) /\ Finish(r)
      BY <1>16, <2>3 DEF ReleaseDuelLocks
    <3>2. /\ Owned(r) = {opponent(r)} /\ Owned(r)' = {} /\ ~Mover(r) /\ ~Mover(r)'
          /\ ~Accepting(r)'
      BY <1>4, <2>3, <3>1 DEF Owned, Mover, TransferSteps
    <3>3. \A u \in Users : LockMove(r, u)
      BY <2>3, <3>1, <3>2, DeleteMove
    <3> QED
      BY <2>1, <3>2, <3>3 DEF MovesLocks, Pauses
  <2> QED
    BY <1>16, <2>2, <2>3 DEF ReleaseDuelLocks
<1> QED
  BY <1>7, <1>8, <1>9, <1>10, <1>11, <1>12, <1>13, <1>14, <1>15, <1>16 DEF AcceptStep

(* A withdrawal deletes the row of its user and inserts its own.            *)
LEMMA WithdrawMoves ==
  ASSUME LockTypeOK, WithdrawInv, NEW r \in Requests, WithdrawRequest(r)
  PROVE  /\ seized \subseteq seized'
         /\ \A u \in Users :
              \/ locks'[u] = locks[u]
              \/ ~HasLock(u) /\ locks'[u].type # "duel"
              \/ ByItself(r) /\ u \in seized' /\ locks'[u] = NoLock
<1>1. WithdrawKnows(r) /\ locks = [u \in Users |-> locks[u]]
  BY DEF WithdrawInv, LockTypeOK
<1>2. CASE pc[r] = "seize" /\ LockWithdrawal(r)
  <2>1. ByItself(r)
    BY <1>1, <1>2 DEF WithdrawKnows, Draining, WithdrawSteps
  <2> QED
    BY <1>2, <2>1 DEF LockWithdrawal, DeleteLocks
<1>3. CASE pc[r] = "lock" /\ LockWithdrawal(r)
  <2>1. NewLock("withdrawal", r).type # "duel"
    BY DEF NewLock
  <2> QED
    BY <1>1, <1>3, <2>1 DEF LockWithdrawal, InsertLock
<1>4. CASE UNCHANGED << locks, seized >>
  BY <1>4
<1> QED
  BY <1>2, <1>3, <1>4
     DEF WithdrawRequest, BeginWithdrawal, LockWithdrawal, DebitWithdrawal,
         WithdrawalSent, RefundWithdrawal, ReleaseWithdrawalLock, Releasable

(* Time and the cleaner leave the rows of duels alone.                      *)
LEMMA CleanerMoves ==
  ASSUME LockTypeOK, DeleteLocks(ExpiredLocks) \/ \E u \in Users : Elapse(u)
  PROVE  \A u \in Users :
           locks[u].type = "duel" \/ locks'[u].type = "duel" => locks'[u] = locks[u]
<1>1. CASE DeleteLocks(ExpiredLocks)
  <2>1. NoLock.type # "duel"
    BY DEF NoLock
  <2> QED
    BY <1>1, <2>1 DEF DeleteLocks, ExpiredLocks, Expirable
<1>2. ASSUME NEW v \in Users, Elapse(v)
      PROVE  \A u \in Users :
               locks[u].type = "duel" \/ locks'[u].type = "duel" => locks'[u] = locks[u]
  <2> DEFINE row == [locks[v] EXCEPT !.expired = TRUE]
  <2>1. locks[v] \in Locks /\ locks = [u \in Users |-> locks[u]]
    BY DEF LockTypeOK
  <2>2. row.type = locks[v].type
    BY <2>1 DEF Locks
  <2>3. locks' = [locks EXCEPT ![v] = row]
    BY <1>2 DEF Elapse
  <2>4. locks[v].type # "duel"
    BY <1>2 DEF Elapse, Expirable
  <2> HIDE DEF row
  <2> QED
    BY <2>1, <2>2, <2>3, <2>4
<1> QED
  BY <1>1, <1>2

(* Who is elsewhere accepts no duel.                                        *)
LEMMA NotAccepting ==
  ASSUME NEW r
  PROVE  /\ InWithdraw(r) \/ InGiveaway(r) \/ InShared(r) => ~Accepting(r)
         /\ InWithdraw(r)' \/ InGiveaway(r)' \/ InShared(r)' => ~Accepting(r)'
BY DEF InWithdraw, InGiveaway, InShared, Accepting, AcceptSteps, WithdrawSteps,
       GiveawaySteps, SharedSteps, TransferSteps, Transfers

(* What each feature does to the rows of transaction_locks.                 *)
LEMMA RequestMovesLocks ==
  ASSUME CommunityInv, NEW r \in Requests, Request(r)
  PROVE  RowsLast /\ MovesLocks(r)
<1>1. CommunityInv' /\ Acts(r)
  BY RequestKeeps
<1>2. /\ MenuJobs /\ MenuInv /\ Loop /\ DuelInv /\ DuelInv' /\ GiveawayInv /\ SharedInv
      /\ WithdrawInv /\ LockTypeOK /\ Administered /\ DOMAIN pc = Requests
  BY <1>1 DEF CommunityInv, MenuInv, DuelInv, DuelTypeOK, MenuJobs
<1>3. ASSUME UNCHANGED << duelVars, seized >>, ~Accepting(r)'
      PROVE  RowsLast /\ MovesLocks(r)
  BY <1>3, SameRowsLast, NothingOwned, MovesNoLock DEF duelVars
<1>4. CASE Duels(r)
  <2>1. UNCHANGED seized
    BY <1>4 DEF Duels
  <2>2. RowsLast
    BY <1>2, <1>4, DuelSetupDone, DuelFightDone DEF Duels, Done
  <2>3. CASE DuelSetup(r)
    <3>1. ~Accepting(r)' /\ UNCHANGED locks
      BY <1>2, <2>3
         DEF DuelSetup, DuelCommand, DuelMenuShown, ChooseConsequence, CreateChecks,
             InsertDuel, PostChallenge, ChallengePosted, Start, Continue, Finish,
             Accepting, AcceptSteps, TransferSteps, duelVars
    <3> QED
      BY <2>1, <2>2, <3>1, NothingOwned, MovesNoLock
  <2>4. ASSUME NEW u \in Users, NEW d \in DuelIds, AcceptDuel(r, u, d)
        PROVE  MovesLocks(r)
    <3>1. pc'[r] = "challengerBalance" /\ UNCHANGED locks /\ r \in ready'
      BY <1>2, <2>4 DEF AcceptDuel, Start, duelVars, Arrive
    <3>2. Owned(r)' = {}
      BY <3>1 DEF Owned, TransferSteps
    <3> QED
      BY <2>1, <3>1, <3>2, MovesNoLock
  <2>5. CASE AcceptStep(r)
    BY <1>2, <2>1, <2>2, <2>5, AcceptPays
  <2> QED
    BY <1>4, <2>2, <2>3, <2>4, <2>5 DEF Duels, DuelFight
<1>5. CASE Withdrawals(r)
  <2>1. WithdrawRequest(r) /\ UNCHANGED duels
    BY <1>5 DEF Withdrawals, WithdrawRequest
  <2>2. Owned(r) = {} /\ Owned(r)' = {} /\ ~Accepting(r)'
    BY <1>2, <2>1, WithdrawalsDone, NotAccepting, NothingOwned DEF WithdrawDone
  <2>3. \A u \in Users : LockMove(r, u)
    BY <1>2, <2>1, <2>2, WithdrawMoves DEF LockMove
  <2> QED
    BY <1>2, <2>1, <2>2, <2>3, SameRowsLast, WithdrawMoves DEF MovesLocks
<1>6. CASE Giveaways(r)
  <2>1. GiveawayRequest(r) /\ UNCHANGED << duelVars, seized >>
    BY <1>6 DEF Giveaways
  <2>2. ~Accepting(r)'
    BY <1>2, <2>1, GiveawaysDone, NotAccepting DEF GiveawayDone
  <2> QED
    BY <1>3, <2>1, <2>2
<1>7. CASE Shared(r)
  <2>1. SharedRequest(r) /\ UNCHANGED << duelVars, seized >>
    BY <1>7 DEF Shared
  <2>2. ~Accepting(r)'
    BY <1>2, <2>1, SharedRequestDone, NotAccepting DEF SharedDone, Request
  <2> QED
    BY <1>3, <2>1, <2>2
<1> QED
  BY <1>4, <1>5, <1>6, <1>7 DEF Request

(* In the background nobody moves, and the rows of duels stay.              *)
LEMMA BackgroundFacts ==
  ASSUME CommunityInv, Background
  PROVE  /\ UNCHANGED << pc, job, loopVars, seized, ledgerVars, mode, crashes >>
         /\ RowsLast
         /\ \A u \in Users :
              locks[u].type = "duel" \/ locks'[u].type = "duel" => locks'[u] = locks[u]
<1>1. DuelInv /\ DuelTypeOK /\ LockTypeOK
  BY DEF CommunityInv, DuelInv, DuelTypeOK
<1>2. CASE EndDuel /\ UNCHANGED seized
  BY <1>1, <1>2, EndDuelKeeps
     DEF Background, EndDuel, CancelDuel, RejectDuel, DuelAges, CleanExpiredDuels,
         Pass, Drain, loopVars
<1>3. CASE MenuStep /\ UNCHANGED << pc, job, ledgerVars, duelVars, seized >>
  BY <1>3, SameRowsLast
     DEF Background, MenuStep, CancelMenu, PressExpired, cleanupExpiredSessions, Pass,
         Drain, loopVars, duelVars
<1>4. CASE LockStep
  <2>1. DeleteLocks(ExpiredLocks) \/ \E u \in Users : Elapse(u)
    BY <1>4 DEF LockStep, CleanExpiredLocks, LockElapses
  <2>2. /\ UNCHANGED << pc, job, loopVars, seized, ledgerVars, mode, crashes >>
        /\ RowsLast
    BY <1>4, SameRowsLast
       DEF Background, LockStep, LockElapses, CleanExpiredLocks, Drain, loopVars
  <2> QED
    BY <1>1, <2>1, <2>2, CleanerMoves
<1> QED
  BY <1>2, <1>3, <1>4 DEF Background

LEMMA BackgroundKeepsLocks ==
  ASSUME CommunityInv, LocksInv, Background
  PROVE  LocksInv'
<1>1. DuelInv
  BY DEF CommunityInv
<1>2. \A r \in Requests :
        /\ Owned(r)' = Owned(r) /\ (Late(r)' <=> Late(r))
        /\ (Accepting(r)' <=> Accepting(r)) /\ pc'[r] = pc[r]
  BY <1>1, BackgroundFacts, OwnedKept DEF Late, ByItself, Accepting, loopVars
<1>3. \A r \in Requests : \A u \in Owned(r) : Holds(r, u) => Holds(r, u)'
  BY <1>1, BackgroundFacts, OwnedFacts DEF Holds
<1> QED
  BY <1>2, <1>3, BackgroundFacts DEF LocksInv, Awake, LocksOwned, loopVars

LEMMA LocksStart ==
  ASSUME \A r \in Requests : pc[r] = "idle"
  PROVE  LocksInv
BY DEF LocksInv, Awake, LocksOwned, Owned, Accepting, AcceptSteps, TransferSteps

LEMMA CrashKeepsLocks ==
  ASSUME Crash
  PROVE  LocksInv'
<1>1. \A r \in Requests : pc'[r] = "idle"
  BY DEF Crash, RequestsCrash
<1> QED
  BY <1>1 DEF LocksInv, Awake, LocksOwned, Owned, Accepting, AcceptSteps, TransferSteps

LEMMA LocksNext ==
  ASSUME CommunityInv, LocksInv, [Next]_vars
  PROVE  LocksInv'
<1>1. ASSUME NEW r \in Requests, Request(r)
      PROVE  LocksInv'
  <2>1. CommunityInv' /\ Acts(r) /\ RowsLast /\ MovesLocks(r)
    BY <1>1, RequestKeeps, RequestMovesLocks
  <2> QED
    BY <2>1, LocksFollow DEF CommunityInv, MenuInv
<1>2. CASE UNCHANGED vars
  <2>1. UNCHANGED << ready, batch, pc, job, duels, locks, seized >>
    BY <1>2 DEF vars, loopVars, duelVars
  <2>2. \A r \in Requests :
          /\ Owned(r)' = Owned(r) /\ (Late(r)' <=> Late(r))
          /\ (Accepting(r)' <=> Accepting(r))
    BY <2>1 DEF Owned, challenger, opponent, Late, ByItself, Accepting
  <2> QED
    BY <2>1, <2>2 DEF LocksInv, Awake, LocksOwned, Holds
<1> QED
  BY <1>1, <1>2, BackgroundKeepsLocks, CrashKeepsLocks DEF Next

(* A duel's handler holds its two locks up to their release, except those   *)
(* that withdrawals have taken while it waited for Telegram.                *)
LEMMA LocksInvariant == Spec => []LocksInv
<1>1. Init => LocksInv
  BY LocksStart DEF Init, RequestsInit
<1> QED
  BY <1>1, LocksNext, CommunityInvariant, PTL DEF Spec

------------------------------------------------------------------------------
(* Duels are paid once.                                                     *)

(* r has accepted a duel that is not decided.                               *)
Undecided(r) ==
  \/ pc[r] \in {"challengerBalance", "cancelPoor", "lockChallenger",
                "insertChallenger", "lockOpponent", "insertOpponent", "resolve"}
  \/ pc[r] \in TransferSteps /\ job[r].kind = "duel"

(* Both locks are there, and no payment has been logged.                    *)
Fighting(r) == pc[r] \in TransferSteps /\ job[r].kind = "duel"

(* What a crash leaves of a duel that was paid and not completed: rows that *)
(* nobody owns, unless a withdrawal takes them.                             *)
Stuck(u) == locks[u].type = "duel" /\ \A r \in Requests : u \notin Owned(r)

Frozen(d) ==
  /\ crashes > 0
  /\ \A u \in {duels[d].challenger, duels[d].opponent} : u \in seized \/ Stuck(u)

OneRuns == \A p, q \in ready : p = q

FightKnows(r) ==
  /\ Undecided(r) => duels[job[r].duel].status = "pending"
  /\ Fighting(r) => duels[job[r].duel].paid = 0 \/ BothSeized(job[r].duel)
  /\ pc[r] = "resolve" => duels[job[r].duel].paid >= 1
  /\ pc[r] = "insertOpponent" => ~HasLock(opponent(r))

Resolving(d) == \E r \in Requests : pc[r] = "resolve" /\ job[r].duel = d

PaidRow(d) ==
  /\ duels[d].status = "completed" => duels[d].paid >= 1
  /\ \/ BothSeized(d)
     \/ /\ duels[d].paid <= 1
        /\ duels[d].status = "pending" /\ duels[d].paid = 1 => Resolving(d) \/ Frozen(d)

NoLockForgotten ==
  crashes = 0 =>
    \A u \in Users :
      locks[u].type = "duel" =>
        locks[u].holder \in Requests /\ u \in Owned(locks[u].holder)

FightInv ==
  ~mode.batching =>
    /\ OneRuns /\ NoLockForgotten
    /\ \A r \in Requests : FightKnows(r)
    /\ \A d \in Rows : PaidRow(d)

(* What a step of r may do to the lock of u: nothing, insert it for r,      *)
(* delete the one that r has inserted; or leave no row of a duel, and note  *)
(* whose it has seized.                                                     *)
LockChange(r, u) ==
  \/ locks'[u] = locks[u] /\ (u \in Owned(r)' <=> u \in Owned(r))
  \/ ~HasLock(u) /\ u \in Owned(r)' /\ locks'[u] = NewLock("duel", r)
  \/ u \in Owned(r) /\ u \notin Owned(r)' /\ locks'[u] = NoLock
  \/ /\ u \notin Owned(r) /\ u \notin Owned(r)' /\ locks'[u].type # "duel"
     /\ locks[u].type = "duel" => u \in seized'

LockChanges(r) == seized \subseteq seized' /\ \A u \in Users : LockChange(r, u)

(* A row that a step of r, unless r is completing it, leaves unpaid or paid *)
(* as it was, and whose status it leaves or makes one without a fight.      *)
Unfought(r, d) ==
  /\ d \in Rows
  /\ duels'[d].paid = duels[d].paid
  /\ \/ duels'[d].status = duels[d].status
     \/ duels'[d].status \notin {"pending", "completed"}
  /\ pc[r] = "resolve" => job[r].duel # d

(* A history that stays.                                                    *)
LEMMA BothSeizedKept ==
  ASSUME RowsLast, UNCHANGED crashes, seized \subseteq seized',
         NEW d \in Rows, BothSeized(d)
  PROVE  BothSeized(d)'
BY DEF RowsLast, BothSeized

(* A lock that nobody owns stays, unless it is seized.                      *)
LEMMA FrozenKept ==
  ASSUME MenuJobs, DuelInv, RowsLast, NEW r \in Requests, Moves(r),
         LockChanges(r), UNCHANGED crashes, NEW d \in Rows, Frozen(d)
  PROVE  Frozen(d)'
<1>1. /\ duels'[d].challenger = duels[d].challenger /\ duels[d].challenger \in Users
      /\ duels'[d].opponent = duels[d].opponent /\ duels[d].opponent \in Users
  BY DEF RowsLast, DuelInv, DuelTypeOK, DuelRow
<1>2. \A q \in Requests \ {r} : Owned(q)' = Owned(q)
  BY OwnedKept DEF MenuJobs, Moves
<1>3. ASSUME NEW u \in Users, Stuck(u)
      PROVE  u \in seized' \/ Stuck(u)'
  <2>1. LockChange(r, u) /\ HasLock(u) /\ u \notin Owned(r)
    BY <1>3 DEF LockChanges, Stuck, HasLock, NoLock
  <2>2. CASE locks'[u] = locks[u] /\ u \notin Owned(r)'
    BY <1>2, <1>3, <2>2 DEF Stuck
  <2> QED
    BY <1>3, <2>1, <2>2 DEF LockChange, Stuck
<1> QED
  BY <1>1, <1>3 DEF Frozen, LockChanges

(* The locks after a step that changes them as LockChange allows.           *)
LEMMA NoLockForgottenKept ==
  ASSUME MenuJobs, DuelInv, RowsLast, NEW r \in Requests, Moves(r),
         LockChanges(r), UNCHANGED crashes, NoLockForgotten
  PROVE  NoLockForgotten'
<1>1. \A q \in Requests \ {r} : Owned(q)' = Owned(q)
  BY OwnedKept DEF MenuJobs, Moves
<1>2. NoLock.type # "duel" /\ NewLock("duel", r).holder = r
  BY DEF NewLock, NoLock
<1>3. ASSUME crashes = 0, NEW u \in Users, locks'[u].type = "duel"
      PROVE  locks'[u].holder \in Requests /\ u \in Owned(locks[u].holder)'
  <2>1. CASE locks'[u] = locks[u] /\ (u \in Owned(r)' <=> u \in Owned(r))
    <3>1. PICK q \in Requests : q = locks[u].holder /\ u \in Owned(q)
      BY <1>3, <2>1 DEF NoLockForgotten
    <3> QED
      BY <1>1, <2>1, <3>1
  <2>2. CASE u \in Owned(r)' /\ locks'[u] = NewLock("duel", r)
    BY <1>2, <2>2
  <2> QED
    BY <1>2, <1>3, <2>1, <2>2 DEF LockChanges, LockChange
<1> QED
  BY <1>3 DEF NoLockForgotten

(* What a step of r has to show.  While one request runs at a time r is the *)
(* only one that can be deciding a duel.                                    *)
LEMMA FightStep ==
  ASSUME MenuJobs, DuelInv, DuelInv', RowsLast, LocksInv, FightInv, ~mode.batching,
         NEW r \in Requests, Acts(r), ready \subseteq {r},
         UNCHANGED << mode, crashes >>, LockChanges(r),
         FightKnows(r)',
         \A d \in Rows' : PaidRow(d)' \/ Unfought(r, d)
  PROVE  FightInv'
<1>1. /\ OneRuns /\ NoLockForgotten
      /\ \A q \in Requests : FightKnows(q)
      /\ \A d \in Rows : PaidRow(d)
  BY DEF FightInv
<1>2. Moves(r) /\ ready' \subseteq {r}
  BY DEF Acts, Runs
<1>3. OneRuns'
  BY <1>2 DEF OneRuns
<1>4. NoLockForgotten'
  BY <1>1, <1>2, NoLockForgottenKept
<1>5. ASSUME NEW q \in Requests \ {r}
      PROVE  FightKnows(q)'
  <2>1. pc'[q] = pc[q] /\ job'[q] = job[q]
    BY <1>2 DEF MenuJobs, Moves
  <2>2. Accepting(q) => pc[q] = "telegram"
    BY DEF LocksInv, Awake
  <2>3. Accepting(q)' => pc'[q] = "telegram"
    BY <2>1, <2>2 DEF Accepting
  <2>4. ~Undecided(q)' /\ ~Fighting(q)' /\ pc'[q] \notin {"resolve", "insertOpponent"}
    BY <2>1, <2>2 DEF Undecided, Fighting, Accepting, AcceptSteps, TransferSteps
  <2> QED
    BY <2>4 DEF FightKnows
<1>6. ASSUME NEW d \in Rows'
      PROVE  PaidRow(d)'
  <2>1. CASE Unfought(r, d)
    <3>1. d \in Rows /\ PaidRow(d)
      BY <1>1, <2>1 DEF Unfought
    <3>2. duels'[d].status = "completed" => duels'[d].paid >= 1
      BY <2>1, <3>1 DEF Unfought, PaidRow
    <3>3. CASE BothSeized(d)
      BY <3>1, <3>2, <3>3, BothSeizedKept DEF PaidRow, LockChanges
    <3>4. CASE ~BothSeized(d) /\ duels'[d].status = "pending" /\ duels[d].paid = 1
      <4>1. duels[d].status = "pending"
        BY <2>1, <3>4 DEF Unfought
      <4>2. ~Resolving(d)
        <5>1. \A q \in Requests : pc[q] = "resolve" => q \in ready
          BY DEF LocksInv, Awake, Accepting, AcceptSteps
        <5> QED
          BY <2>1, <5>1 DEF Resolving, Unfought
      <4>3. Frozen(d)
        BY <3>1, <3>4, <4>1, <4>2 DEF PaidRow
      <4>4. Frozen(d)'
        BY <1>2, <3>1, <4>3, FrozenKept
      <4> QED
        BY <2>1, <3>1, <3>2, <3>4, <4>4 DEF PaidRow, Unfought
    <3>5. CASE ~BothSeized(d) /\ ~(duels'[d].status = "pending" /\ duels[d].paid = 1)
      BY <2>1, <3>1, <3>2, <3>5 DEF PaidRow, Unfought
    <3> QED
      BY <3>3, <3>4, <3>5
  <2> QED
    BY <2>1
<1> QED
  BY <1>3, <1>4, <1>5, <1>6 DEF FightInv

(* A step outside of acceptAndExecuteDuel that does not touch the duels.    *)
LEMMA OutsideFight ==
  ASSUME MenuJobs, DuelInv, DuelInv', LocksInv, FightInv, ~mode.batching,
         NEW r \in Requests, Acts(r), ready \subseteq {r},
         UNCHANGED << mode, crashes, duels >>,
         ~Accepting(r), ~Accepting(r)', LockChanges(r)
  PROVE  FightInv'
<1>1. RowsLast /\ Rows' = Rows
  BY SameRowsLast
<1>2. FightKnows(r)'
  BY DEF FightKnows, Undecided, Fighting, Accepting, AcceptSteps
<1>3. pc[r] # "resolve"
  BY DEF Accepting, AcceptSteps
<1>4. \A d \in Rows' : Unfought(r, d)
  BY <1>1, <1>3 DEF Unfought
<1> QED
  BY <1>1, <1>2, <1>4, FightStep

(* Where no row of transaction_locks changes.                               *)
LEMMA NoLockChange ==
  ASSUME UNCHANGED << locks, seized >>, NEW r, Owned(r)' = Owned(r)
  PROVE  LockChanges(r)
BY DEF LockChanges, LockChange

(* Making a duel: the new row is pending and nobody has paid.               *)
LEMMA SetupKeepsFight ==
  ASSUME MenuJobs, DuelInv, DuelInv', LocksInv, FightInv, ~mode.batching,
         NEW r \in Requests, Acts(r), ready \subseteq {r},
         UNCHANGED << mode, crashes, seized >>, DuelSetup(r)
  PROVE  FightInv'
<1>1. DOMAIN pc = Requests
  BY DEF MenuJobs
<1>2. ~Accepting(r) /\ ~Accepting(r)' /\ pc[r] # "resolve"
  BY <1>1 DEF DuelSetup, DuelCommand, DuelMenuShown, ChooseConsequence, CreateChecks,
         InsertDuel, PostChallenge, ChallengePosted, Start, Continue, Finish,
         Accepting, AcceptSteps, TransferSteps
<1>3. UNCHANGED locks => LockChanges(r)
  BY <1>2, NothingOwned, NoLockChange
<1>4. ASSUME RowsLast, UNCHANGED locks,
             \A d \in Rows' : PaidRow(d)' \/ Unfought(r, d)
      PROVE  FightInv'
  <2>1. FightKnows(r)'
    BY <1>2 DEF FightKnows, Undecided, Fighting, Accepting, AcceptSteps
  <2> QED
    BY <1>3, <1>4, <2>1, FightStep
<1>5. ASSUME NEW d \in DuelIds, InsertDuel(r, d)
      PROVE  FightInv'
  <2> DEFINE row == NewDuel(job[r].user, job[r].opponent, job[r].cons)
  <2>1. /\ d \notin Rows /\ DOMAIN duels = DuelIds /\ UNCHANGED locks
        /\ duels' = [duels EXCEPT ![d] = row]
    BY <1>5 DEF InsertDuel, DuelInv, DuelTypeOK
  <2>2. row.status = "pending" /\ row.paid = 0 /\ row # NoDuel
    BY DEF NewDuel, NoDuel
  <2> HIDE DEF row
  <2>3. duels'[d] = row /\ \A e \in DuelIds \ {d} : duels'[e] = duels[e]
    BY <2>1
  <2>4. Rows' = Rows \cup {d}
    BY <2>2, <2>3 DEF Rows
  <2>5. RowsLast
    BY <2>1, <2>3, <2>4 DEF RowsLast, Rows
  <2>6. PaidRow(d)'
    BY <2>2, <2>3 DEF PaidRow
  <2>7. \A e \in Rows' \ {d} : Unfought(r, e)
    BY <1>2, <2>3, <2>4 DEF Unfought, Rows
  <2> QED
    BY <1>4, <2>1, <2>5, <2>6, <2>7
<1>6. ASSUME NEW s \in {"message", "row"}, pc[r] \in {"post", "posted"},
             duels' = [duels EXCEPT ![job[r].duel].shown = s], UNCHANGED locks
      PROVE  FightInv'
  <2>1. job[r].duel \in Rows /\ duels[job[r].duel] \in DuelRow /\ DuelTypeOK
    BY <1>6 DEF DuelInv, DuelKnows, DuelTypeOK
  <2> DEFINE new == [duels[job[r].duel] EXCEPT !.shown = s]
  <2>2. /\ SamePlayers(new, duels[job[r].duel])
        /\ new.status = duels[job[r].duel].status /\ new.paid = duels[job[r].duel].paid
        /\ duels' = [duels EXCEPT ![job[r].duel] = new]
    BY <1>6, <2>1, ShownUpdate
  <2> HIDE DEF new
  <2>3. /\ RowsLast /\ Rows' = Rows /\ duels'[job[r].duel] = new
        /\ \A e \in DuelIds \ {job[r].duel} : duels'[e] = duels[e]
    BY <2>1, <2>2, UpdateKeepsRows
  <2>4. \A e \in Rows' : Unfought(r, e)
    BY <1>2, <2>2, <2>3 DEF Unfought, Rows
  <2> QED
    BY <1>4, <1>6, <2>3, <2>4
<1>7. CASE PostChallenge(r)
  BY <1>6, <1>7 DEF PostChallenge
<1>8. CASE UNCHANGED << duels, locks >>
  BY <1>2, <1>3, <1>8, OutsideFight
<1>9. CASE ChallengePosted(r)
  <2>1. CASE pc[r] = "posted"
    BY <1>6, <1>9, <2>1 DEF ChallengePosted
  <2>2. CASE pc[r] # "posted"
    BY <1>8, <1>9, <2>2 DEF ChallengePosted
  <2> QED
    BY <2>1, <2>2
<1> QED
  BY <1>5, <1>7, <1>8, <1>9
     DEF DuelSetup, DuelCommand, DuelMenuShown, ChooseConsequence, CreateChecks,
         duelVars

(* The press of the accept button takes no lock yet.                        *)
LEMMA AcceptKeepsFight ==
  ASSUME MenuJobs, DuelInv, DuelInv', LocksInv, FightInv, ~mode.batching,
         NEW r \in Requests, Acts(r), ready \subseteq {r},
         UNCHANGED << mode, crashes, seized >>,
         NEW u \in Users, NEW d \in DuelIds, AcceptDuel(r, u, d)
  PROVE  FightInv'
<1> DEFINE j == [kind |-> "duel", duel |-> d, from |-> u,
                 to |-> duels[d].challenger, amt |-> Wager]
<1>1. /\ pc[r] = "idle" /\ pc'[r] = "challengerBalance" /\ job'[r] = j
      /\ r \in ready' /\ UNCHANGED duelVars
      /\ d \in Rows /\ duels[d].status = "pending"
  BY DEF AcceptDuel, MenuJobs, Start, Arrive, acceptable, Pending
<1>2. j.duel = d
  OBVIOUS
<1> HIDE DEF j
<1>3. RowsLast /\ Rows' = Rows /\ duels' = duels /\ locks' = locks
  BY <1>1, SameRowsLast DEF duelVars
<1>4. Owned(r) = {} /\ Owned(r)' = {}
  BY <1>1 DEF Owned, TransferSteps
<1>5. LockChanges(r)
  BY <1>3, <1>4, NoLockChange
<1>6. FightKnows(r)'
  BY <1>1, <1>2, <1>3 DEF FightKnows, Fighting, TransferSteps
<1>7. \A e \in Rows' : Unfought(r, e)
  BY <1>1, <1>3 DEF Unfought
<1> QED
  BY <1>3, <1>5, <1>6, <1>7, FightStep

(* The statements on the locks, as changes of the set that r owns.          *)
LEMMA DeleteChange ==
  ASSUME UNCHANGED seized, NEW r, NEW v, DeleteLocks({v}),
         Owned(r) = Owned(r)' \cup {v}, v \notin Owned(r)'
  PROVE  LockChanges(r)
BY DEF DeleteLocks, LockChanges, LockChange

LEMMA InsertChange ==
  ASSUME UNCHANGED seized, DuelInv, NEW r, NEW v, InsertLock(v, "duel", r),
         v \in Users, Owned(r)' = Owned(r) \cup {v}
  PROVE  LockChanges(r)
<1>1. locks = [u \in Users |-> locks[u]]
  BY DEF DuelInv, DuelTypeOK, LockTypeOK
<1>2. ~HasLock(v) /\ locks' = [locks EXCEPT ![v] = NewLock("duel", r)]
  BY DEF InsertLock
<1>3. locks'[v] = NewLock("duel", r) /\ \A u \in Users \ {v} : locks'[u] = locks[u]
  BY <1>1, <1>2
<1> QED
  BY <1>2, <1>3 DEF LockChanges, LockChange

(* A step of acceptAndExecuteDuel.                                          *)
LEMMA FightStepKeepsFight ==
  ASSUME MenuJobs, Loop, DuelInv, DuelInv', LocksInv, FightInv, ~mode.batching,
         NEW r \in Requests, Acts(r), ready \subseteq {r}, crashes \in Nat,
         UNCHANGED << mode, crashes, seized >>, AcceptStep(r)
  PROVE  FightInv'
<1>0. /\ DOMAIN pc = Requests /\ DOMAIN job = Requests
      /\ FightKnows(r) /\ \A d \in Rows : PaidRow(d)
  BY DEF MenuJobs, FightInv
<1>1. Accepting(r)
  BY DEF AcceptStep, Accepting, AcceptSteps, CheckChallenger, CancelPoor,
         LockChallenger, LockOpponent, BackOff, Pay, Resolve, ReadLock,
         ApplyConsequence, PenaltyAnswered, ReleaseDuelLocks,
         TransferStep, TransferSteps
<1>2. /\ job[r] \in DuelJobs /\ job[r].kind = "duel" /\ job[r].duel \in Rows
      /\ duels[job[r].duel] \in DuelRow /\ PaidRow(job[r].duel) /\ DuelTypeOK
      /\ challenger(r) \in Users /\ opponent(r) \in Users
      /\ challenger(r) # opponent(r)
  BY <1>0, <1>1, OwnedFacts DEF DuelJobs, DuelInv
<1>20. RowsLast => \A d \in Rows : BothSeized(d) => BothSeized(d)'
  BY BothSeizedKept
<1>21. duels[job[r].duel].paid \in Nat
  BY <1>2 DEF DuelRow
\* The handler returns without a lock.
<1>3. ASSUME Finish(r), RowsLast, LockChanges(r),
             \A d \in Rows' : PaidRow(d)' \/ Unfought(r, d)
      PROVE  FightInv'
  <2>1. pc'[r] = "idle"
    BY <1>0, <1>3 DEF Finish
  <2>2. FightKnows(r)'
    BY <2>1 DEF FightKnows, Undecided, Fighting, Accepting, AcceptSteps, TransferSteps
  <2> QED
    BY <1>3, <2>2, FightStep
<1>4. ASSUME Finish(r)
      PROVE  Owned(r)' = {}
  BY <1>0, <1>4 DEF Finish, Owned, TransferSteps
\* The handler goes on.
<1>5. ASSUME NEW step, Continue(r, step), UNCHANGED job, RowsLast
      PROVE  /\ pc'[r] = step /\ job'[r] = job[r]
             /\ challenger(r)' = challenger(r) /\ opponent(r)' = opponent(r)
  BY <1>0, <1>2, <1>5 DEF Continue, RowsLast, challenger, opponent
<1>6. ASSUME UNCHANGED duels, pc[r] # "resolve"
      PROVE  RowsLast /\ \A d \in Rows' : Unfought(r, d)
  BY <1>6, SameRowsLast DEF Unfought
<1>7. ASSUME UNCHANGED locks, Owned(r)' = Owned(r)
      PROVE  LockChanges(r)
  BY <1>7, NoLockChange
<1>8. CASE CheckChallenger(r)
  <2>1. PICK step \in {"lockChallenger", "cancelPoor"} :
          Continue(r, step) /\ Tick(r) /\ UNCHANGED << job, duels, locks >>
    BY <1>8 DEF CheckChallenger, duelVars
  <2>2. pc[r] = "challengerBalance"
    BY <1>8 DEF CheckChallenger
  <2>3. RowsLast /\ \A d \in Rows' : Unfought(r, d)
    BY <1>6, <2>1, <2>2
  <2>4. pc'[r] = step /\ job'[r] = job[r]
    BY <1>5, <2>1, <2>3
  <2>5. Owned(r) = {} /\ Owned(r)' = {}
    BY <2>2, <2>4 DEF Owned, TransferSteps
  <2>6. FightKnows(r)'
    BY <1>0, <2>1, <2>2, <2>4
       DEF FightKnows, Undecided, Fighting, TransferSteps, Tick
  <2>7. LockChanges(r)
    BY <1>7, <2>1, <2>5
  <2> QED
    BY <2>3, <2>6, <2>7, FightStep
<1>9. CASE CancelPoor(r)
  <2> DEFINE new == [duels[job[r].duel] EXCEPT !.status = "cancelled"]
  <2>1. /\ SamePlayers(new, duels[job[r].duel])
        /\ new.status = "cancelled" /\ new.paid = duels[job[r].duel].paid
    BY <1>2, StatusUpdate
  <2>2. duels' = [duels EXCEPT ![job[r].duel] = new]
    BY <1>9 DEF CancelPoor, SetStatus
  <2> HIDE DEF new
  <2>3. /\ RowsLast /\ Rows' = Rows /\ duels'[job[r].duel] = new
        /\ \A e \in DuelIds \ {job[r].duel} : duels'[e] = duels[e]
    BY <1>2, <2>1, <2>2, UpdateKeepsRows
  <2>4. pc[r] = "cancelPoor" /\ Finish(r) /\ UNCHANGED locks
    BY <1>9 DEF CancelPoor
  <2>5. \A e \in Rows' : Unfought(r, e)
    BY <2>1, <2>3, <2>4 DEF Unfought, Rows
  <2>6. Owned(r) = {}
    BY <2>4 DEF Owned, TransferSteps
  <2>7. LockChanges(r)
    BY <1>4, <1>7, <2>4, <2>6
  <2> QED
    BY <1>3, <2>3, <2>4, <2>5, <2>7
<1>10. CASE LockChallenger(r)
  <2>1. pc[r] \in {"lockChallenger", "insertChallenger"}
    BY <1>10 DEF LockChallenger, ReadLock
  <2>2. UNCHANGED duels
    BY <1>10 DEF LockChallenger, ReadLock, duelVars
  <2>3. RowsLast /\ \A d \in Rows' : Unfought(r, d)
    BY <1>6, <2>1, <2>2
  <2>4. Owned(r) = {}
    BY <2>1 DEF Owned, TransferSteps
  <2>5. CASE GiveUp(r) /\ UNCHANGED locks
    <3>1. LockChanges(r)
      BY <1>4, <1>7, <2>4, <2>5 DEF GiveUp
    <3> QED
      BY <1>3, <2>3, <2>5, <3>1 DEF GiveUp
  <2>6. CASE Tick(r) /\ Continue(r, "insertChallenger") /\ UNCHANGED << job, locks >>
    <3>1. pc'[r] = "insertChallenger" /\ job'[r] = job[r]
      BY <1>5, <2>3, <2>6
    <3>2. Owned(r)' = {}
      BY <3>1 DEF Owned, TransferSteps
    <3>3. FightKnows(r)'
      BY <1>0, <2>1, <2>2, <2>6, <3>1
         DEF FightKnows, Undecided, Fighting, TransferSteps, Tick
    <3>4. LockChanges(r)
      BY <1>7, <2>4, <2>6, <3>2
    <3> QED
      BY <2>3, <3>3, <3>4, FightStep
  <2>7. CASE /\ pc[r] = "insertChallenger" /\ Tick(r)
             /\ InsertLock(challenger(r), "duel", r)
             /\ Continue(r, "lockOpponent") /\ UNCHANGED job
    <3>1. pc'[r] = "lockOpponent" /\ job'[r] = job[r] /\ challenger(r)' = challenger(r)
      BY <1>5, <2>3, <2>7
    <3>2. Owned(r)' = {challenger(r)}
      BY <3>1 DEF Owned
    <3>3. LockChanges(r)
      BY <1>2, <2>4, <2>7, <3>2, InsertChange
    <3>4. duels[job[r].duel].status = "pending"
      BY <1>0, <2>7 DEF FightKnows, Undecided
    <3>5. FightKnows(r)'
      BY <2>2, <3>1, <3>4 DEF FightKnows, Fighting, TransferSteps
    <3> QED
      BY <2>3, <3>3, <3>5, FightStep
  <2> QED
    BY <1>10, <2>5, <2>6, <2>7 DEF LockChallenger, ReadLock, duelVars
<1>11. CASE LockOpponent(r)
  <2>1. pc[r] \in {"lockOpponent", "insertOpponent"}
    BY <1>11 DEF LockOpponent, ReadLock
  <2>2. UNCHANGED duels
    BY <1>11 DEF LockOpponent, ReadLock, duelVars
  <2>3. RowsLast /\ \A d \in Rows' : Unfought(r, d)
    BY <1>6, <2>1, <2>2
  <2>4. Owned(r) = {challenger(r)}
    BY <2>1 DEF Owned
  <2>5. duels[job[r].duel].status = "pending"
    BY <1>0, <2>1 DEF FightKnows, Undecided
  <2>6. CASE ReadLock(r, opponent(r), "lockOpponent", "insertOpponent",
                      Tick(r) /\ Continue(r, "backOff") /\ UNCHANGED job)
    <3>1. PICK step \in {"backOff", "insertOpponent"} :
            /\ Tick(r) /\ Continue(r, step) /\ UNCHANGED << job, locks >>
            /\ step = "insertOpponent" => ~HasLock(opponent(r))
      BY <2>6 DEF ReadLock, duelVars
    <3>2. /\ pc'[r] = step /\ job'[r] = job[r] /\ challenger(r)' = challenger(r)
          /\ opponent(r)' = opponent(r)
      BY <1>5, <2>3, <3>1
    <3>3. Owned(r)' = {challenger(r)}
      BY <3>2 DEF Owned
    <3>4. LockChanges(r)
      BY <1>7, <2>4, <3>1, <3>3
    <3>5. step = "insertOpponent" => ~HasLock(opponent(r))'
      BY <3>1, <3>2 DEF HasLock
    <3>6. FightKnows(r)'
      BY <2>2, <2>5, <3>1, <3>2, <3>5
         DEF FightKnows, Undecided, Fighting, TransferSteps, Tick
    <3> QED
      BY <2>3, <3>4, <3>6, FightStep
  <2>7. CASE /\ Tick(r) /\ InsertLock(opponent(r), "duel", r)
             /\ Fight(r) /\ Continue(r, "readFrom")
    <3>1. PICK loser, winner :
            job' = [job EXCEPT ![r].from = loser, ![r].to = winner]
      BY <2>7 DEF Fight
    <3>2. ASSUME NEW j \in DuelJobs
          PROVE  LET k == [j EXCEPT !.from = loser, !.to = winner]
                 IN  k.duel = j.duel /\ k.kind = j.kind
      BY DEF DuelJobs
    <3>3. job'[r].duel = job[r].duel /\ job'[r].kind = "duel"
      BY <1>0, <1>2, <3>1, <3>2
    <3>4. pc'[r] = "readFrom" /\ pc'[r] \in TransferSteps
      BY <1>0, <2>7 DEF Continue, TransferSteps
    <3>5. challenger(r)' = challenger(r) /\ opponent(r)' = opponent(r)
      BY <1>2, <2>3, <3>3 DEF RowsLast, challenger, opponent
    <3>6. Owned(r)' = {challenger(r), opponent(r)}
      BY <3>3, <3>4, <3>5 DEF Owned
    <3>7. LockChanges(r)
      BY <1>2, <2>4, <2>7, <3>6, InsertChange
\* The duel has not been paid; or neither player has a row that a crash left.
    <3>8. duels[job[r].duel].paid = 0 \/ BothSeized(job[r].duel)
      <4> DEFINE d == job[r].duel
      <4>1. ~Resolving(d)
        <5>1. \A q \in Requests : pc[q] = "resolve" => q \in ready
          BY DEF LocksInv, Awake, Accepting, AcceptSteps
        <5> QED
          BY <2>1, <5>1 DEF Resolving
      <4>2. ~Stuck(duels[d].challenger)
        BY <2>4 DEF Stuck, challenger
      <4>3. ~Stuck(duels[d].opponent)
        BY <2>7 DEF Stuck, InsertLock, HasLock, NoLock, opponent
      <4>4. Frozen(d) => BothSeized(d)
        BY <4>2, <4>3 DEF Frozen, BothSeized
      <4>5. duels[d].paid \in Nat
        BY <1>2 DEF DuelRow
      <4> QED
        BY <1>2, <2>5, <4>1, <4>4, <4>5 DEF PaidRow
    <3>9. BothSeized(job[r].duel) => BothSeized(job[r].duel)'
      BY <1>2, <1>20, <2>3, <3>3
    <3>10. FightKnows(r)'
      BY <2>2, <2>5, <3>3, <3>4, <3>8, <3>9 DEF FightKnows, BothSeized
    <3> QED
      BY <2>3, <3>7, <3>10, FightStep
  <2>8. ~(pc[r] = "insertOpponent" /\ HasLock(opponent(r)))
    BY <1>0 DEF FightKnows
  <2> QED
    BY <1>11, <2>6, <2>7, <2>8 DEF LockOpponent
<1>12. CASE BackOff(r)
  <2>1. /\ pc[r] = "backOff" /\ DeleteLocks({challenger(r)}) /\ Finish(r)
        /\ UNCHANGED duels
    BY <1>12 DEF BackOff
  <2>2. RowsLast /\ \A d \in Rows' : Unfought(r, d)
    BY <1>6, <2>1
  <2>3. Owned(r) = {challenger(r)} /\ Owned(r)' = {}
    BY <1>4, <2>1 DEF Owned
  <2>4. LockChanges(r)
    BY <2>1, <2>3, DeleteChange
  <2> QED
    BY <1>3, <2>1, <2>2, <2>4
<1>13. CASE Pay(r)
  <2>1. /\ r \in ready /\ ready' = ready /\ pc[r] \in TransferSteps
        /\ job'[r] = job[r] /\ UNCHANGED locks
        /\ pc'[r] \in {"resolve", "releaseChallenger"} \cup TransferSteps
        /\ pc[r] = "record" => pc'[r] = "resolve"
        /\ pc[r] # "record" => pc'[r] \in {"releaseChallenger"} \cup TransferSteps
    BY <1>13, ActsTransfer DEF Pay, TransferStep, Tick
  <2>2. /\ duels[job[r].duel].status = "pending" /\ duels[job[r].duel].paid \in Nat
        /\ duels[job[r].duel].paid = 0 \/ BothSeized(job[r].duel)
    BY <1>0, <1>2, <2>1 DEF FightKnows, Undecided, Fighting, DuelRow
  <2>3. pc[r] # "resolve"
    BY <2>1 DEF TransferSteps
  <2>4. ASSUME RowsLast
        PROVE  LockChanges(r)
    <3>1. challenger(r)' = challenger(r) /\ opponent(r)' = opponent(r)
      BY <1>2, <2>1, <2>4 DEF RowsLast, challenger, opponent
    <3>2. Owned(r)' = {challenger(r), opponent(r)}
      BY <1>2, <2>1, <3>1 DEF Owned, TransferSteps
    <3>3. Owned(r) = {challenger(r), opponent(r)}
      BY <1>2, <2>1 DEF Owned, TransferSteps
    <3> QED
      BY <1>7, <2>1, <3>2, <3>3
  <2>5. CASE pc[r] = "record"
    <3> DEFINE n == duels[job[r].duel].paid + 1
               new == [duels[job[r].duel] EXCEPT !.paid = n]
    <3>1. duels' = [duels EXCEPT ![job[r].duel] = new]
      BY <1>13, <2>2, <2>5 DEF Pay
    <3>2. /\ SamePlayers(new, duels[job[r].duel])
          /\ new.status = "pending" /\ new.paid = n
      <4>1. n \in Nat
        BY <1>21
      <4> HIDE DEF n
      <4>2. /\ SamePlayers(new, duels[job[r].duel])
            /\ new.status = duels[job[r].duel].status /\ new.paid = n
        BY <1>2, <4>1, PaidUpdate
      <4> QED
        BY <2>2, <4>2
    <3> HIDE DEF new
    <3>3. /\ RowsLast /\ Rows' = Rows /\ duels'[job[r].duel] = new
          /\ \A e \in DuelIds \ {job[r].duel} : duels'[e] = duels[e]
      BY <1>2, <3>1, <3>2, UpdateKeepsRows
    <3>4. \A e \in Rows' : PaidRow(e)' \/ Unfought(r, e)
      <4>1. ASSUME NEW e \in Rows', e = job[r].duel
            PROVE  PaidRow(e)'
        <5>1. e = job'[r].duel
          BY <2>1, <4>1
        <5>2. BothSeized(e) => BothSeized(e)'
          BY <1>2, <3>3, <4>1, BothSeizedKept
        <5> QED
          BY <2>1, <2>2, <2>5, <3>2, <3>3, <4>1, <5>1, <5>2 DEF PaidRow, Resolving
      <4>2. ASSUME NEW e \in Rows', e # job[r].duel
            PROVE  Unfought(r, e)
        BY <2>3, <3>3, <4>2 DEF Unfought, Rows
      <4> QED
        BY <4>1, <4>2
    <3>5. FightKnows(r)'
      BY <2>1, <2>2, <2>5, <3>2, <3>3
         DEF FightKnows, Undecided, Fighting, TransferSteps
    <3> QED
      BY <2>4, <3>3, <3>4, <3>5, FightStep
  <2>6. CASE pc[r] # "record"
    <3>1. UNCHANGED duels
      BY <1>13, <2>6 DEF Pay
    <3>2. RowsLast /\ \A d \in Rows' : Unfought(r, d)
      BY <1>6, <2>3, <3>1
    <3>3. BothSeized(job[r].duel) => BothSeized(job[r].duel)'
      BY <1>2, <1>20, <2>1, <3>2
    <3>4. FightKnows(r)'
      BY <2>1, <2>2, <2>6, <3>1, <3>3 DEF FightKnows, Fighting, TransferSteps
    <3> QED
      BY <2>4, <3>2, <3>4, FightStep
  <2> QED
    BY <2>5, <2>6
<1>14. CASE Resolve(r)
  <2> DEFINE new == [duels[job[r].duel] EXCEPT !.status = "completed",
                                               !.loser = job[r].from]
             step == afterResolve(duels[job[r].duel].cons)
  <2>1. /\ pc[r] = "resolve" /\ Tick(r) /\ Continue(r, step) /\ UNCHANGED << job, locks >>
        /\ duels' = [duels EXCEPT ![job[r].duel] = new]
    BY <1>14 DEF Resolve
  <2>2. duels[job[r].duel].paid >= 1
    BY <1>0, <2>1 DEF FightKnows
  <2>3. /\ SamePlayers(new, duels[job[r].duel])
        /\ new.status = "completed" /\ new.paid = duels[job[r].duel].paid
    BY <1>2, <2>2, CompletedUpdate DEF DuelJobs
  <2> HIDE DEF new
  <2>4. step \in {"releaseChallenger", "penalty"}
    BY DEF afterResolve
  <2> HIDE DEF step
  <2>5. /\ RowsLast /\ Rows' = Rows /\ duels'[job[r].duel] = new
        /\ \A e \in DuelIds \ {job[r].duel} : duels'[e] = duels[e]
    BY <1>2, <2>1, <2>3, UpdateKeepsRows
  <2>6. /\ pc'[r] \in {"releaseChallenger", "penalty"} /\ job'[r] = job[r]
        /\ challenger(r)' = challenger(r) /\ opponent(r)' = opponent(r)
    <3>1. pc'[r] = step
      BY <1>0, <2>1 DEF Continue
    <3> QED
      BY <1>2, <2>1, <2>4, <2>5, <3>1 DEF RowsLast, challenger, opponent
  <2>7. \A e \in Rows' : PaidRow(e)' \/ Unfought(r, e)
    <3>1. ASSUME NEW e \in Rows', e = job[r].duel
          PROVE  PaidRow(e)'
      <4>1. BothSeized(e) => BothSeized(e)'
        BY <1>2, <2>5, <3>1, BothSeizedKept
      <4> QED
        BY <1>2, <2>2, <2>3, <2>5, <3>1, <4>1 DEF PaidRow
    <3>2. ASSUME NEW e \in Rows', e # job[r].duel
          PROVE  Unfought(r, e)
      BY <2>5, <3>2 DEF Unfought, Rows
    <3> QED
      BY <3>1, <3>2
  <2>8. Owned(r) = {challenger(r), opponent(r)} /\ Owned(r)' = Owned(r)
    BY <2>1, <2>6 DEF Owned
  <2>9. LockChanges(r)
    BY <1>7, <2>1, <2>8
  <2>10. FightKnows(r)'
    BY <2>1, <2>6 DEF FightKnows, Undecided, Fighting, TransferSteps, Tick
  <2> QED
    BY <2>5, <2>7, <2>9, <2>10, FightStep
<1>15. CASE ApplyConsequence(r) \/ PenaltyAnswered(r)
  <2>1. /\ pc[r] \in {"penalty", "telegram"} /\ UNCHANGED << duels, locks, job >>
        /\ \/ Continue(r, "telegram")
           \/ Continue(r, "releaseChallenger") /\ r \in ready'
    BY <1>15 DEF ApplyConsequence, PenaltyAnswered, Tick, Wake, duelVars
  <2>2. RowsLast /\ \A d \in Rows' : Unfought(r, d)
    BY <1>6, <2>1
  <2>3. /\ job'[r] = job[r]
        /\ \/ pc'[r] = "telegram"
           \/ pc'[r] = "releaseChallenger" /\ r \in ready'
        /\ challenger(r)' = challenger(r) /\ opponent(r)' = opponent(r)
    BY <1>5, <2>1, <2>2
  <2>4. Owned(r) = {challenger(r), opponent(r)} /\ Owned(r)' = Owned(r)
    BY <2>1, <2>3 DEF Owned
  <2>5. LockChanges(r)
    BY <1>7, <2>1, <2>4
  <2>6. FightKnows(r)'
    BY <2>3 DEF FightKnows, Undecided, Fighting, TransferSteps
  <2> QED
    BY <2>2, <2>5, <2>6, FightStep
<1>16. CASE ReleaseDuelLocks(r)
  <2>1. pc[r] \in {"releaseChallenger", "releaseOpponent"} /\ UNCHANGED duels
    BY <1>16 DEF ReleaseDuelLocks
  <2>2. RowsLast /\ \A d \in Rows' : Unfought(r, d)
    BY <1>6, <2>1
  <2>3. CASE pc[r] = "releaseChallenger"
    <3>1. /\ Tick(r) /\ DeleteLocks({challenger(r)}) /\ Continue(r, "releaseOpponent")
          /\ UNCHANGED job
      BY <1>16, <2>3 DEF ReleaseDuelLocks
    <3>2. pc'[r] = "releaseOpponent" /\ opponent(r)' = opponent(r)
      BY <1>5, <2>2, <3>1
    <3>3. Owned(r) = {challenger(r), opponent(r)} /\ Owned(r)' = {opponent(r)}
      BY <2>3, <3>2 DEF Owned, TransferSteps
    <3>4. LockChanges(r)
      BY <1>2, <3>1, <3>3, DeleteChange
    <3>5. FightKnows(r)'
      BY <3>1, <3>2 DEF FightKnows, Undecided, Fighting, TransferSteps, Tick
    <3> QED
      BY <2>2, <3>4, <3>5, FightStep
  <2>4. CASE pc[r] = "releaseOpponent"
    <3>1. DeleteLocks({opponent(r)}) /\ Finish(r)
      BY <1>16, <2>4 DEF ReleaseDuelLocks
    <3>2. Owned(r) = {opponent(r)} /\ Owned(r)' = {}
      BY <1>4, <2>4, <3>1 DEF Owned, TransferSteps
    <3>3. LockChanges(r)
      BY <3>1, <3>2, DeleteChange
    <3> QED
      BY <1>3, <2>2, <3>1, <3>3
  <2> QED
    BY <2>1, <2>3, <2>4
<1> QED
  BY <1>8, <1>9, <1>10, <1>11, <1>12, <1>13, <1>14, <1>15, <1>16 DEF AcceptStep

LEMMA RequestKeepsFight ==
  ASSUME CommunityInv, LocksInv, FightInv, NEW r \in Requests, Request(r)
  PROVE  FightInv'
<1>1. /\ CommunityInv' /\ Acts(r)
  BY RequestKeeps
<1>2. /\ MenuJobs /\ Loop /\ DuelInv /\ DuelInv' /\ MenuInv /\ GiveawayInv /\ SharedInv
      /\ WithdrawInv /\ LockTypeOK /\ Administered /\ crashes \in Nat
  BY <1>1 DEF CommunityInv, MenuInv, DuelInv, DuelTypeOK
<1>3. UNCHANGED << mode, crashes >>
  BY DEF Request
<1>4. CASE mode.batching
  BY <1>3, <1>4 DEF FightInv
<1>5. CASE ~mode.batching
  <2>1. ready \subseteq {r}
    BY <1>5 DEF Request, Alone, FightInv, OneRuns
  <2>2. ASSUME UNCHANGED duels, ~Accepting(r), ~Accepting(r)', LockChanges(r)
        PROVE  FightInv'
    BY <1>1, <1>2, <1>3, <1>5, <2>1, <2>2, OutsideFight
  <2>3. ASSUME UNCHANGED << duelVars, seized >>, ~Accepting(r), ~Accepting(r)'
        PROVE  FightInv'
    BY <2>2, <2>3, NothingOwned, NoLockChange DEF duelVars
  <2>4. CASE Duels(r)
    <3>1. UNCHANGED seized
      BY <2>4 DEF Duels
    <3>2. CASE DuelSetup(r)
      BY <1>1, <1>2, <1>3, <1>5, <2>1, <3>1, <3>2, SetupKeepsFight
    <3>3. CASE DuelFight(r)
      <4>1. ASSUME NEW u \in Users, NEW d \in DuelIds, AcceptDuel(r, u, d)
            PROVE  FightInv'
        BY <1>1, <1>2, <1>3, <1>5, <2>1, <3>1, <4>1, AcceptKeepsFight
      <4>2. CASE AcceptStep(r)
        BY <1>1, <1>2, <1>3, <1>5, <2>1, <3>1, <4>2, FightStepKeepsFight
      <4> QED
        BY <3>3, <4>1, <4>2 DEF DuelFight
    <3> QED
      BY <2>4, <3>2, <3>3 DEF Duels
  <2>5. CASE Withdrawals(r)
    <3>1. WithdrawRequest(r) /\ UNCHANGED duels
      BY <2>5 DEF Withdrawals, WithdrawRequest
    <3>2. ~Accepting(r) /\ ~Accepting(r)'
      BY <1>2, <3>1, WithdrawalsDone, NotAccepting DEF WithdrawDone
    <3>3. Owned(r) = {} /\ Owned(r)' = {}
      BY <3>2, NothingOwned
    <3>4. NoLock.type # "duel"
      BY DEF NoLock
    <3>5. LockChanges(r)
      BY <1>2, <3>1, <3>3, <3>4, WithdrawMoves DEF LockChanges, LockChange, HasLock
    <3> QED
      BY <2>2, <3>1, <3>2, <3>5
  <2>6. CASE Giveaways(r)
    <3>1. GiveawayRequest(r) /\ UNCHANGED << duelVars, seized >>
      BY <2>6 DEF Giveaways
    <3> QED
      BY <1>2, <2>3, <3>1, GiveawaysDone, NotAccepting DEF GiveawayDone
  <2>7. CASE Shared(r)
    <3>1. SharedRequest(r) /\ UNCHANGED << duelVars, seized >>
      BY <2>7 DEF Shared
    <3> QED
      BY <1>2, <1>3, <2>3, <3>1, SharedRequestDone, NotAccepting DEF SharedDone
  <2> QED
    BY <2>4, <2>5, <2>6, <2>7 DEF Request
<1> QED
  BY <1>4, <1>5

(* A row whose duel ends without a fight.                                   *)
Ended(d) ==
  /\ duels'[d].paid = duels[d].paid
  /\ \/ duels'[d].status = duels[d].status
     \/ duels'[d].status \notin {"pending", "completed"}

LEMMA EndDuelEnds ==
  ASSUME DuelTypeOK, EndDuel
  PROVE  Rows' = Rows /\ \A d \in Rows : Ended(d)
<1>1. ASSUME NEW d \in Rows, NEW row, SamePlayers(row, duels[d]),
             row.paid = duels[d].paid,
             row.status = duels[d].status \/ row.status \notin {"pending", "completed"},
             duels' = [duels EXCEPT ![d] = row]
      PROVE  Rows' = Rows /\ \A e \in Rows : Ended(e)
  <2>1. /\ Rows' = Rows /\ duels'[d] = row
        /\ \A e \in DuelIds \ {d} : duels'[e] = duels[e]
    BY <1>1, UpdateKeepsRows
  <2> QED
    BY <1>1, <2>1 DEF Ended, Rows
<1>2. ASSUME NEW u \in Users, NEW d \in DuelIds, CancelDuel(u, d) \/ RejectDuel(u, d)
      PROVE  Rows' = Rows /\ \A e \in Rows : Ended(e)
  <2>1. PICK s \in {"cancelled", "rejected"} :
          d \in Pending /\ duels' = [duels EXCEPT ![d].status = s]
    BY <1>2 DEF CancelDuel, RejectDuel, SetStatus
  <2>2. d \in Rows /\ duels[d] \in DuelRow
    BY <2>1 DEF DuelTypeOK, Pending
  <2> DEFINE new == [duels[d] EXCEPT !.status = s]
  <2>3. /\ SamePlayers(new, duels[d]) /\ new.status = s /\ new.paid = duels[d].paid
        /\ duels' = [duels EXCEPT ![d] = new]
    BY <2>1, <2>2, StatusUpdate
  <2> HIDE DEF new
  <2> QED
    BY <1>1, <2>2, <2>3
<1>3. ASSUME NEW d \in DuelIds, DuelAges(d)
      PROVE  Rows' = Rows /\ \A e \in Rows : Ended(e)
  <2>1. d \in Rows /\ duels[d] \in DuelRow
    BY <1>3 DEF DuelAges, DuelTypeOK, Pending
  <2> DEFINE new == [duels[d] EXCEPT !.old = TRUE]
  <2>2. /\ SamePlayers(new, duels[d])
        /\ new.status = duels[d].status /\ new.paid = duels[d].paid
        /\ duels' = [duels EXCEPT ![d] = new]
    BY <1>3, <2>1, AgeUpdate DEF DuelAges
  <2> HIDE DEF new
  <2> QED
    BY <1>1, <2>1, <2>2
<1>4. CASE CleanExpiredDuels
  <2>1. \A d \in DuelIds :
          duels'[d] = IF d \in ExpiredDuels
                      THEN [duels[d] EXCEPT !.status = "expired"] ELSE duels[d]
    BY <1>4 DEF CleanExpiredDuels
  <2>2. ASSUME NEW d \in Rows
        PROVE  Ended(d) /\ duels'[d] # NoDuel
    <3>1. d \in DuelIds /\ duels[d] \in DuelRow
      BY DEF Rows, DuelTypeOK
    <3> DEFINE new == [duels[d] EXCEPT !.status = "expired"]
    <3>2. SamePlayers(new, duels[d]) /\ new.status = "expired"
          /\ new.paid = duels[d].paid
      BY <3>1, StatusUpdate
    <3>3. duels'[d] = new \/ duels'[d] = duels[d]
      BY <2>1, <3>1
    <3> HIDE DEF new
    <3> QED
      BY <3>1, <3>2, <3>3, RowIsThere DEF Ended, SamePlayers
  <2>3. Rows' = Rows
    BY <2>1, <2>2 DEF Rows, ExpiredDuels, Pending
  <2> QED
    BY <2>2, <2>3
<1> QED
  BY <1>2, <1>3, <1>4 DEF EndDuel

LEMMA BackgroundKeepsFight ==
  ASSUME CommunityInv, LocksInv, FightInv, Background
  PROVE  FightInv'
<1>1. /\ UNCHANGED << pc, job, loopVars, seized, mode, crashes >> /\ RowsLast
      /\ \A u \in Users :
           locks[u].type = "duel" \/ locks'[u].type = "duel" => locks'[u] = locks[u]
  BY BackgroundFacts
<1>2. DuelInv /\ DuelTypeOK
  BY DEF CommunityInv, DuelInv
<1>3. CASE mode.batching
  BY <1>1, <1>3 DEF FightInv
<1>4. CASE ~mode.batching
  <2>1. /\ OneRuns /\ NoLockForgotten
        /\ \A q \in Requests : FightKnows(q)
        /\ \A d \in Rows : PaidRow(d)
    BY <1>4 DEF FightInv
  <2>2. ready = {} /\ ready' = {}
    BY <1>1, <1>4 DEF Background, Alone, loopVars
  <2>3. Rows' = Rows /\ \A d \in Rows : Ended(d)
    <3>1. CASE EndDuel
      BY <1>2, <3>1, EndDuelEnds
    <3>2. CASE UNCHANGED duels
      BY <3>2, SameRowsLast DEF Ended
    <3> QED
      BY <3>1, <3>2 DEF Background, duelVars, LockStep
  <2>4. \A q \in Requests : Owned(q)' = Owned(q)
    BY <1>1, <1>2, OwnedKept
  <2>5. NoLockForgotten'
    BY <1>1, <2>1, <2>4 DEF NoLockForgotten
  <2>6. \A q \in Requests : Accepting(q) => pc[q] = "telegram"
    BY <2>2 DEF LocksInv, Awake
  <2>7. ASSUME NEW q \in Requests
        PROVE  FightKnows(q)'
    <3>1. Accepting(q)' => pc'[q] = "telegram"
      BY <1>1, <2>6 DEF Accepting
    <3>2. ~Undecided(q)' /\ ~Fighting(q)' /\ pc'[q] \notin {"resolve", "insertOpponent"}
      BY <1>1, <2>6 DEF Undecided, Fighting, Accepting, AcceptSteps, TransferSteps
    <3> QED
      BY <3>2 DEF FightKnows
  <2>8. ASSUME NEW d \in Rows
        PROVE  PaidRow(d)'
    <3>1. ~Resolving(d)
      BY <2>6 DEF Resolving, Accepting, AcceptSteps
    <3>2. BothSeized(d) => BothSeized(d)'
      BY <1>1, BothSeizedKept
    <3>3. duels[d].challenger \in Users /\ duels[d].opponent \in Users
      BY <1>2 DEF DuelTypeOK, DuelRow
    <3>4. Frozen(d) => Frozen(d)'
      BY <1>1, <2>4, <3>3 DEF Frozen, Stuck, RowsLast
    <3> QED
      BY <2>1, <2>3, <3>1, <3>2, <3>4 DEF PaidRow, Ended
  <2>9. OneRuns'
    BY <2>2 DEF OneRuns
  <2> QED
    BY <2>3, <2>5, <2>7, <2>8, <2>9 DEF FightInv
<1> QED
  BY <1>3, <1>4

(* A crash leaves the rows of the duels that were being fought: they have   *)
(* no timeout.                                                              *)
LEMMA CrashKeepsFight ==
  ASSUME CommunityInv, LocksInv, FightInv, Crash
  PROVE  FightInv'
<1>1. /\ ready' = {} /\ crashes' = crashes + 1 /\ UNCHANGED << mode, duels, seized >>
      /\ pc' = [r \in Requests |-> "idle"]
      /\ DeleteLocks(ExpiredLocks)
  BY DEF Crash, RequestsCrash, Halt
<1>2. DuelInv /\ LockTypeOK /\ DuelTypeOK /\ crashes' > 0 /\ RowsLast /\ Rows' = Rows
  BY <1>1, SameRowsLast DEF CommunityInv, DuelInv, DuelTypeOK
<1>3. CASE mode.batching
  BY <1>1, <1>3 DEF FightInv
<1>4. CASE ~mode.batching
  <2>1. \A d \in Rows : PaidRow(d)
    BY <1>4 DEF FightInv
  <2>2. \A u \in Users : locks[u].type = "duel" => locks'[u] = locks[u]
    BY <1>1, <1>2, CleanerMoves
  <2>3. \A r \in Requests : pc'[r] = "idle" /\ Owned(r)' = {}
    BY <1>1 DEF Owned, TransferSteps
  <2>4. \A r \in Requests : FightKnows(r)'
    BY <2>3 DEF FightKnows, Undecided, Fighting, Accepting, AcceptSteps, TransferSteps
  <2>5. ASSUME NEW d \in Rows
        PROVE  PaidRow(d)'
    <3>1. duels[d].challenger \in Users /\ duels[d].opponent \in Users
      BY <1>2 DEF DuelTypeOK, DuelRow
    <3>2. ASSUME NEW u \in Users, locks[u].type = "duel"
          PROVE  Stuck(u)'
      BY <2>2, <2>3, <3>2 DEF Stuck
    <3>3. ASSUME Resolving(d)
          PROVE  \A u \in {duels[d].challenger, duels[d].opponent} : locks[u].type = "duel"
      <4>1. PICK r \in Requests : pc[r] = "resolve" /\ job[r].duel = d
        BY <3>3 DEF Resolving
      <4>2. Owned(r) = {duels[d].challenger, duels[d].opponent} /\ ~Late(r)
        BY <4>1 DEF Owned, challenger, opponent, Late
      <4> QED
        BY <4>2 DEF LocksInv, LocksOwned, Holds
    <3>4. Resolving(d) \/ Frozen(d) => Frozen(d)'
      BY <1>1, <1>2, <3>1, <3>2, <3>3 DEF Frozen, Stuck
    <3>5. BothSeized(d) => BothSeized(d)'
      BY <1>1, <1>2 DEF BothSeized
    <3> QED
      BY <1>1, <2>1, <3>4, <3>5 DEF PaidRow
  <2>6. OneRuns' /\ NoLockForgotten'
    BY <1>1, <1>2 DEF OneRuns, NoLockForgotten
  <2> QED
    BY <1>2, <2>4, <2>5, <2>6 DEF FightInv
<1> QED
  BY <1>3, <1>4

LEMMA StutterKeepsFight ==
  ASSUME FightInv, UNCHANGED vars
  PROVE  FightInv'
<1>1. UNCHANGED << ready, pc, job, duels, locks, seized, mode, crashes >>
  BY DEF vars, loopVars, duelVars
<1>2. \A r \in Requests :
        /\ Owned(r)' = Owned(r)
        /\ (Undecided(r)' <=> Undecided(r)) /\ (Fighting(r)' <=> Fighting(r))
        /\ opponent(r)' = opponent(r)
  BY <1>1 DEF Owned, Undecided, Fighting, challenger, opponent
<1>3. \A d : BothSeized(d)' <=> BothSeized(d)
  BY <1>1 DEF BothSeized
<1>4. \A r \in Requests : FightKnows(r)' <=> FightKnows(r)
  BY <1>1, <1>2, <1>3 DEF FightKnows, HasLock
<1>5. \A d \in Rows : PaidRow(d)' <=> PaidRow(d)
  BY <1>1, <1>2, <1>3 DEF PaidRow, Resolving, Frozen, Stuck
<1>6. NoLockForgotten => NoLockForgotten'
  BY <1>1, <1>2 DEF NoLockForgotten
<1>7. (OneRuns' <=> OneRuns) /\ Rows' = Rows
  BY <1>1 DEF OneRuns, Rows
<1> QED
  BY <1>1, <1>4, <1>5, <1>6, <1>7 DEF FightInv

LEMMA FightStarts == Init => FightInv
<1> SUFFICES ASSUME Init PROVE FightInv
  OBVIOUS
<1>1. /\ ready = {} /\ pc = [r \in Requests |-> "idle"]
      /\ locks = [u \in Users |-> NoLock]
      /\ duels = [d \in DuelIds |-> NoDuel] \/ duels \in mode.challenges
      /\ mode \in Modes
  BY DEF Init, RequestsInit, LoopInit, DuelInit, LockInit
<1>2. \A r \in Requests : pc[r] = "idle"
  BY <1>1
<1>3. \A r \in Requests : FightKnows(r)
  BY <1>2 DEF FightKnows, Undecided, Fighting, Accepting, AcceptSteps, TransferSteps
<1>4. \A d \in Rows : duels[d].status = "pending" /\ duels[d].paid = 0
  BY <1>1, CommunityAssumption DEF Rows
<1>5. \A d \in Rows : PaidRow(d)
  BY <1>4 DEF PaidRow
<1>6. NoLock.type # "duel"
  BY DEF NoLock
<1> QED
  BY <1>1, <1>3, <1>5, <1>6 DEF FightInv, OneRuns, NoLockForgotten

LEMMA FightInvariant == Spec => []FightInv
<1>1. CommunityInv /\ LocksInv /\ FightInv /\ [Next]_vars => FightInv'
  BY RequestKeepsFight, BackgroundKeepsFight, CrashKeepsFight, StutterKeepsFight DEF Next
<1> QED
  BY <1>1, FightStarts, CommunityInvariant, LocksInvariant, PTL DEF Spec

(* A duel is paid at most once, and whoever reads that it is completed can  *)
(* rely on its payment, whatever crashes come between the transfer, the     *)
(* update of the row and the release of the locks, and whatever rows        *)
(* withdrawals delete: a second payment takes a crash and withdrawals of    *)
(* both players.  Handlers of one batch are excluded here as they are in    *)
(* the property.                                                            *)
THEOREM DuelsArePaidOnce == Spec => []PaidOnce
<1>1. FightInv => PaidOnce
  BY DEF FightInv, PaidOnce, PaidRow
<1> QED
  BY <1>1, FightInvariant, PTL

(* No path through acceptAndExecuteDuel, however it ends, forgets one of    *)
(* the two locks: a row of a duel belongs to a duel that is being handled,  *)
(* also when withdrawals have deleted rows and later duels inserted others. *)
THEOREM DuelsLeaveNoLock == Spec => []NoDuelLockLeft
<1>1. FightInv => NoDuelLockLeft
  <2> SUFFICES ASSUME FightInv, ~mode.batching, crashes = 0,
                      NEW u \in Users, locks[u].type = "duel"
               PROVE  pc[locks[u].holder] # "idle"
    BY DEF NoDuelLockLeft
  <2>1. PICK r \in Requests : r = locks[u].holder /\ u \in Owned(r)
    BY DEF FightInv, NoLockForgotten
  <2>2. pc[r] # "idle"
    BY <2>1 DEF Owned, TransferSteps
  <2> QED
    BY <2>1, <2>2
<1> QED
  BY <1>1, FightInvariant, PTL

------------------------------------------------------------------------------
(* Balances agree with the log.                                             *)

(* What the log says of a.                                                  *)
Recorded(a) == Funds[a] + audit[a]

(* How far the two balances of a transfer have got, and what was read.      *)
Halfway(r) ==
  LET from == job[r].from
      to == job[r].to
      amt == job[r].amt
  IN  /\ pc[r] \in {"readFrom", "readTo", "writeFrom"} => bal[from] = Recorded(from)
      /\ pc[r] \in {"writeTo", "record"} => bal[from] = Recorded(from) - amt
      /\ pc[r] # "record" => bal[to] = Recorded(to)
      /\ pc[r] = "record" => bal[to] = Recorded(to) + amt
      /\ pc[r] \in {"readTo", "writeFrom"} => snap[r].from = bal[from]
      /\ pc[r] \in {"writeFrom", "writeTo"} => snap[r].to = bal[to]

Books ==
  /\ \A r \in Requests : Mover(r) => Halfway(r)
  /\ \A a \in Accounts :
       (\A r \in Requests : Mover(r) => a \notin Ends(r)) => bal[a] = Recorded(a)

(* Between the UPDATE of a balance and its row in the log.                  *)
HalfWithdrawn(r) == pc[r] \in {"logDebit", "logRefund"}

Unlogged(r) ==
  \A a \in Accounts :
    bal[a] = Recorded(a) + (IF a # job[r].user THEN 0
                            ELSE IF pc[r] = "logDebit" THEN -Wager ELSE Wager)

(* Two transfers at once are two duels of a batch, which hold their locks.  *)
Paying ==
  /\ \A r \in Requests : Mover(r) => r \in ready /\ Payer(r)
  /\ mode.batching => \A r \in Requests : Mover(r) => job[r].kind = "duel"

(* Neither a crash nor a withdrawal has left the log behind the balances.   *)
Even == crashes = 0 /\ \A r \in Requests : ~HalfWithdrawn(r)

BooksInv ==
  /\ mode \in Modes /\ LedgerTypeOK /\ Paying
  /\ Even => Books
  /\ crashes = 0 => \A r \in Requests : HalfWithdrawn(r) => Unlogged(r)

(* No account takes part in two transfers.                                  *)
LEMMA TransfersApart ==
  ASSUME FightInv, LocksInv, Paying, NEW p \in Requests, NEW q \in Requests,
         Mover(p), Mover(q), p # q
  PROVE  Ends(p) \cap Ends(q) = {}
<1>1. mode.batching
  BY DEF FightInv, Paying, OneRuns
<1>2. ASSUME NEW r \in Requests, Mover(r)
      PROVE  \A u \in Ends(r) : locks[u].holder = r
  <2>1. job[r].kind = "duel" /\ Ends(r) = {challenger(r), opponent(r)}
    BY <1>1, <1>2 DEF Paying, Payer
  <2>2. Owned(r) = Ends(r) /\ ~Late(r)
    BY <1>2, <2>1 DEF Owned, Late, Mover, TransferSteps
  <2> QED
    BY <2>2 DEF LocksInv, LocksOwned, Holds
<1> QED
  BY <1>2

(* Nor after a step.                                                        *)
LEMMA TransfersApartNext ==
  ASSUME FightInv', LocksInv', Paying', NEW p \in Requests, NEW q \in Requests,
         Mover(p)', Mover(q)', p # q
  PROVE  Ends(p)' \cap Ends(q)' = {}
<1>1. mode'.batching
  BY DEF FightInv, Paying, OneRuns
<1>2. ASSUME NEW r \in Requests, Mover(r)'
      PROVE  \A u \in Ends(r)' : locks'[u].holder = r
  <2>1. job'[r].kind = "duel" /\ Ends(r)' = {challenger(r)', opponent(r)'}
    BY <1>1, <1>2 DEF Paying, Payer
  <2>2. Owned(r)' = Ends(r)' /\ ~Late(r)'
    BY <1>2, <2>1 DEF Owned, Late, Mover, TransferSteps
  <2> QED
    BY <2>2 DEF LocksInv, LocksOwned, Holds
<1> QED
  BY <1>2

(* What a step of the transfer of r does: it writes the balances of the two *)
(* accounts, and when it is over both agree with the log.                   *)
LEMMA TransferEffect ==
  ASSUME MenuJobs, LedgerTypeOK, NEW r \in Requests, Payer(r), Halfway(r),
         NEW done, NEW refused, {done, refused} \cap TransferSteps = {},
         TransferStep(r, done, refused) \/ Refuses(r, refused)
  PROVE  /\ LedgerTypeOK'
         /\ \A a \in Accounts \ Ends(r) : bal'[a] = bal[a] /\ audit'[a] = audit[a]
         /\ \A q \in Requests \ {r} : snap'[q] = snap[q]
         /\ Mover(r)' => Halfway(r)'
         /\ ~Mover(r)' => \A a \in Ends(r) : bal'[a] = Recorded(a)'
<1>1. PICK from \in Accounts : from = job[r].from
  BY DEF Payer
<1>2. PICK to \in Accounts : to = job[r].to
  BY DEF Payer
<1>3. PICK amt \in Int : amt = job[r].amt
  BY DEF Payer
<1>4. from # to /\ Ends(r) = {from, to}
  BY <1>1, <1>2 DEF Payer, Ends
<1>5. job'[r].from = from /\ job'[r].to = to /\ job'[r].amt = amt /\ Ends(r)' = Ends(r)
  BY <1>1, <1>2, <1>3 DEF TransferStep, Refuses, Ends
<1>6. /\ DOMAIN pc = Requests /\ bal \in [Accounts -> Int] /\ audit \in [Accounts -> Int]
      /\ snap \in [Requests -> [from: Int, to: Int]]
  BY DEF MenuJobs, LedgerTypeOK
<1>7. Funds \in [Accounts -> Int]
  BY CommunityAssumption
<1>8. /\ pc[r] \in {"readFrom", "readTo", "writeFrom"} => bal[from] = Recorded(from)
      /\ pc[r] \in {"writeTo", "record"} => bal[from] = Recorded(from) - amt
      /\ pc[r] # "record" => bal[to] = Recorded(to)
      /\ pc[r] = "record" => bal[to] = Recorded(to) + amt
      /\ pc[r] \in {"readTo", "writeFrom"} => snap[r].from = bal[from]
      /\ pc[r] \in {"writeFrom", "writeTo"} => snap[r].to = bal[to]
  BY <1>1, <1>2, <1>3 DEF Halfway
<1>9. CASE pc[r] = "readFrom" /\ ReadFrom(r, from) /\ Continue(r, "readTo")
  <2>1. /\ pc'[r] = "readTo" /\ UNCHANGED << bal, audit >>
        /\ snap' = [snap EXCEPT ![r].from = bal[from]]
    BY <1>6, <1>9 DEF ReadFrom, Continue
  <2>2. /\ snap'[r].from = bal[from] /\ snap' \in [Requests -> [from: Int, to: Int]]
        /\ \A q \in Requests \ {r} : snap'[q] = snap[q]
    BY <1>6, <2>1
  <2> QED
    BY <1>5, <1>6, <1>8, <1>9, <2>1, <2>2
       DEF LedgerTypeOK, Mover, TransferSteps, Halfway, Recorded
<1>10. CASE pc[r] = "readFrom" /\ Continue(r, refused) /\ UNCHANGED ledgerVars
  <2>1. pc'[r] = refused /\ UNCHANGED << bal, audit, snap >> /\ ~Mover(r)'
    BY <1>6, <1>10 DEF Continue, ledgerVars, Mover
  <2> QED
    BY <1>4, <1>8, <1>10, <2>1 DEF LedgerTypeOK, Recorded
<1>11. CASE pc[r] = "readTo" /\ ReadTo(r, to) /\ Continue(r, "writeFrom")
  <2>1. /\ pc'[r] = "writeFrom" /\ UNCHANGED << bal, audit >>
        /\ snap' = [snap EXCEPT ![r].to = bal[to]]
    BY <1>6, <1>11 DEF ReadTo, Continue
  <2>2. /\ snap'[r].to = bal[to] /\ snap'[r].from = snap[r].from
        /\ snap' \in [Requests -> [from: Int, to: Int]]
        /\ \A q \in Requests \ {r} : snap'[q] = snap[q]
    BY <1>6, <2>1
  <2> QED
    BY <1>5, <1>6, <1>8, <1>11, <2>1, <2>2
       DEF LedgerTypeOK, Mover, TransferSteps, Halfway, Recorded
<1>12. CASE pc[r] = "writeFrom" /\ WriteFrom(r, from, amt) /\ Continue(r, "writeTo")
  <2>1. /\ pc'[r] = "writeTo" /\ UNCHANGED << audit, snap >>
        /\ bal' = [bal EXCEPT ![from] = snap[r].from - amt]
    BY <1>6, <1>12 DEF WriteFrom, Continue, Subtract
  <2>2. snap[r].from - amt \in Int
    BY <1>6
  <2>3. /\ bal' \in [Accounts -> Int] /\ bal'[from] = bal[from] - amt
        /\ \A a \in Accounts \ {from} : bal'[a] = bal[a]
    BY <1>6, <1>8, <1>12, <2>1, <2>2
  <2>4. Recorded(from)' = Recorded(from) /\ Recorded(to)' = Recorded(to)
    BY <2>1 DEF Recorded
  <2>5. bal'[from] = Recorded(from)' - amt /\ bal'[to] = Recorded(to)' /\ snap'[r].to = bal'[to]
    BY <1>4, <1>8, <1>12, <2>1, <2>3, <2>4
  <2> QED
    BY <1>4, <1>5, <1>6, <2>1, <2>3, <2>5
       DEF LedgerTypeOK, Mover, TransferSteps, Halfway
<1>13. CASE pc[r] = "writeTo" /\ WriteTo(r, to, amt) /\ Continue(r, "record")
  <2>1. /\ pc'[r] = "record" /\ UNCHANGED << audit, snap >>
        /\ bal' = [bal EXCEPT ![to] = snap[r].to + amt]
    BY <1>6, <1>13 DEF WriteTo, Continue, Add
  <2>2. snap[r].to + amt \in Int
    BY <1>6
  <2>3. /\ bal' \in [Accounts -> Int] /\ bal'[to] = bal[to] + amt
        /\ \A a \in Accounts \ {to} : bal'[a] = bal[a]
    BY <1>6, <1>8, <1>13, <2>1, <2>2
  <2>4. Recorded(from)' = Recorded(from) /\ Recorded(to)' = Recorded(to)
    BY <2>1 DEF Recorded
  <2>5. bal'[from] = Recorded(from)' - amt /\ bal'[to] = Recorded(to)' + amt
    BY <1>4, <1>8, <1>13, <2>1, <2>3, <2>4
  <2> QED
    BY <1>4, <1>5, <1>6, <2>1, <2>3, <2>5
       DEF LedgerTypeOK, Mover, TransferSteps, Halfway
<1>14. CASE pc[r] = "record" /\ RecordTransfer(r, from, to, amt) /\ Continue(r, done)
  <2>1. /\ pc'[r] = done /\ UNCHANGED bal /\ ~Mover(r)'
        /\ snap' = [snap EXCEPT ![r] = NoSnap]
    BY <1>6, <1>14 DEF RecordTransfer, Continue, Mover
  <2>2. /\ audit' \in [Accounts -> Int]
        /\ audit'[from] = audit[from] - amt /\ audit'[to] = audit[to] + amt
        /\ \A a \in Accounts \ {from, to} : audit'[a] = audit[a]
    BY <1>4, <1>6, <1>14 DEF RecordTransfer
  <2>3. NoSnap \in [from: Int, to: Int]
    BY DEF NoSnap
  <2>4. /\ snap' \in [Requests -> [from: Int, to: Int]]
        /\ \A q \in Requests \ {r} : snap'[q] = snap[q]
    BY <1>6, <2>1, <2>3
  <2>5. bal'[from] = Recorded(from)' /\ bal'[to] = Recorded(to)'
    BY <1>6, <1>7, <1>8, <1>14, <2>1, <2>2 DEF Recorded
  <2> QED
    BY <1>4, <1>6, <2>1, <2>2, <2>4, <2>5 DEF LedgerTypeOK
<1> QED
  BY <1>1, <1>2, <1>3, <1>9, <1>10, <1>11, <1>12, <1>13, <1>14
     DEF TransferStep, Refuses

(* Whatever the balances were, the tables keep their type.                  *)
LEMMA TransferTypes ==
  ASSUME LedgerTypeOK, NEW r \in Requests, Payer(r), NEW done, NEW refused,
         TransferStep(r, done, refused) \/ Refuses(r, refused)
  PROVE  LedgerTypeOK'
<1>1. /\ bal \in [Accounts -> Int] /\ audit \in [Accounts -> Int]
      /\ snap \in [Requests -> [from: Int, to: Int]]
      /\ job[r].from \in Accounts /\ job[r].to \in Accounts /\ job[r].amt \in Int
  BY DEF LedgerTypeOK, Payer
<1>2. NoSnap \in [from: Int, to: Int]
  BY DEF NoSnap
<1>3. CASE ReadFrom(r, job[r].from)
  BY <1>1, <1>3 DEF ReadFrom, LedgerTypeOK
<1>4. CASE UNCHANGED ledgerVars
  BY <1>1, <1>4 DEF ledgerVars, LedgerTypeOK
<1>5. CASE ReadTo(r, job[r].to)
  BY <1>1, <1>5 DEF ReadTo, LedgerTypeOK
<1>6. CASE WriteFrom(r, job[r].from, job[r].amt)
  BY <1>1, <1>6 DEF WriteFrom, Subtract, LedgerTypeOK
<1>7. CASE WriteTo(r, job[r].to, job[r].amt)
  BY <1>1, <1>7 DEF WriteTo, Add, LedgerTypeOK
<1>8. CASE RecordTransfer(r, job[r].from, job[r].to, job[r].amt)
  <2>1. audit' \in [Accounts -> Int]
    BY <1>1, <1>8 DEF RecordTransfer
  <2> QED
    BY <1>1, <1>2, <1>8, <2>1 DEF RecordTransfer, LedgerTypeOK
<1> QED
  BY <1>3, <1>4, <1>5, <1>6, <1>7, <1>8 DEF TransferStep, Refuses

(* The books after a step of r that touches the accounts of T only.         *)
LEMMA BooksAfter ==
  ASSUME MenuJobs, Books, NEW r \in Requests, Moves(r), NEW T \in SUBSET Accounts,
         T = IF Mover(r) THEN Ends(r) ELSE {},
         \A q \in Requests \ {r} : Mover(q) => Ends(q) \cap T = {} /\ Ends(q) \subseteq Accounts,
         \A a \in Accounts \ T : bal'[a] = bal[a] /\ audit'[a] = audit[a],
         \A q \in Requests \ {r} : snap'[q] = snap[q],
         Mover(r)' => Halfway(r)',
         \A a \in T : (Mover(r)' => a \notin Ends(r)') => bal'[a] = Recorded(a)'
  PROVE  Books'
<1>1. ASSUME NEW q \in Requests \ {r}
      PROVE  /\ pc'[q] = pc[q] /\ job'[q] = job[q]
             /\ (Mover(q)' <=> Mover(q)) /\ Ends(q)' = Ends(q)
  BY DEF MenuJobs, Moves, Mover, Ends
<1>2. ASSUME NEW q \in Requests, Mover(q)'
      PROVE  Halfway(q)'
  <2>1. CASE q = r
    BY <1>2, <2>1
  <2>2. CASE q # r
    <3>1. Mover(q) /\ Halfway(q)
      BY <1>1, <1>2, <2>2 DEF Books
    <3>2. \A a \in Ends(q) : bal'[a] = bal[a] /\ Recorded(a)' = Recorded(a)
      BY <2>2, <3>1 DEF Recorded
    <3>3. snap'[q] = snap[q]
      BY <2>2
    <3> QED
      BY <1>1, <2>2, <3>1, <3>2, <3>3 DEF Halfway, Ends
  <2> QED
    BY <2>1, <2>2
<1>3. ASSUME NEW a \in Accounts, \A q \in Requests : Mover(q)' => a \notin Ends(q)'
      PROVE  bal'[a] = Recorded(a)'
  <2>1. CASE a \in T
    BY <1>3, <2>1
  <2>2. CASE a \notin T
    <3>1. \A q \in Requests : Mover(q) => a \notin Ends(q)
      BY <1>1, <1>3, <2>2
    <3>2. bal[a] = Recorded(a)
      BY <3>1 DEF Books
    <3> QED
      BY <2>2, <3>2 DEF Recorded
  <2> QED
    BY <2>1, <2>2
<1>4. /\ \A q \in Requests : Mover(q)' => Halfway(q)'
      /\ \A a \in Accounts :
           (\A q \in Requests : Mover(q)' => a \notin Ends(q)') => bal'[a] = Recorded(a)'
  BY <1>2, <1>3
<1> QED
  BY <1>4 DEF Books

LEMMA PaysFacts ==
  ASSUME MenuJobs, NEW r \in Requests, Pays(r)
  PROVE  Mover(r) /\ job' = job /\ ready' = ready
BY DEF Pays, TransferStep, Refuses, Mover, TransferSteps, Tick

(* Who stays in a transfer is still in it as it was.                        *)
LEMMA PayerKept ==
  ASSUME DuelInv, RowsLast, NEW q \in Requests, Mover(q), Payer(q), job'[q] = job[q]
  PROVE  Payer(q)'
<1>1. CASE job[q].kind = "duel"
  <2>1. job[q].duel \in Rows
    BY <1>1 DEF DuelInv, DuelKnows, Accepting, Mover
  <2>2. challenger(q)' = challenger(q) /\ opponent(q)' = opponent(q)
    BY <2>1 DEF RowsLast, challenger, opponent
  <2> QED
    BY <2>2 DEF Payer, Ends
<1>2. CASE job[q].kind # "duel"
  BY <1>2 DEF Payer
<1> QED
  BY <1>1, <1>2

LEMMA PayingKept ==
  ASSUME MenuJobs, DuelInv, RowsLast, Paying, NEW r \in Requests, Acts(r),
         UNCHANGED mode, Pays(r) \/ Pauses(r) \/ Enters(r)
  PROVE  Paying'
<1>1. ASSUME NEW q \in Requests \ {r}, Mover(q)'
      PROVE  q \in ready' /\ Payer(q)' /\ (mode.batching => job'[q].kind = "duel")
  <2>1. pc'[q] = pc[q] /\ job'[q] = job[q]
    BY DEF MenuJobs, Acts, Moves
  <2>2. Mover(q)
    BY <1>1, <2>1 DEF Mover
  <2>3. q \in ready'
    BY <1>1, <2>2 DEF Paying, Acts, Runs
  <2> QED
    BY <1>1, <2>1, <2>2, <2>3, PayerKept DEF Paying
<1>2. ASSUME Mover(r)'
      PROVE  r \in ready' /\ Payer(r)' /\ (mode.batching => job'[r].kind = "duel")
  <2>1. CASE Pays(r)
    <3>1. Mover(r) /\ job' = job /\ ready' = ready
      BY <2>1, PaysFacts
    <3> QED
      BY <3>1, PayerKept DEF Paying
  <2>2. CASE Enters(r)
    BY <2>2 DEF Enters
  <2> QED
    BY <1>2, <2>1, <2>2 DEF Pauses
<1> QED
  BY <1>1, <1>2 DEF Paying

LEMMA BooksKept ==
  ASSUME MenuJobs, FightInv, FightInv', LocksInv, LocksInv', BooksInv, Paying',
         NEW r \in Requests, Acts(r),
         Pays(r) \/ Pauses(r) \/ Enters(r)
  PROVE  LedgerTypeOK' /\ (Even => Books')
<1>1. Moves(r) /\ LedgerTypeOK /\ Paying
  BY DEF Acts, BooksInv
<1>2. \A q \in Requests : Mover(q) => Ends(q) \subseteq Accounts
  BY <1>1 DEF Paying, Payer, Ends
<1>3. CASE Pays(r)
  <2>1. PICK done, refused :
          /\ {done, refused} \cap TransferSteps = {}
          /\ TransferStep(r, done, refused) \/ Refuses(r, refused)
    BY <1>3 DEF Pays
  <2>2. Mover(r) /\ Payer(r) /\ Ends(r)' = Ends(r)
    BY <1>1, <1>3, PaysFacts DEF Paying, Ends
  <2>3. ASSUME Even
        PROVE  LedgerTypeOK' /\ Books'
    <3>1. Books /\ Halfway(r)
      BY <2>2, <2>3 DEF BooksInv, Books
    <3>2. /\ LedgerTypeOK'
          /\ \A a \in Accounts \ Ends(r) : bal'[a] = bal[a] /\ audit'[a] = audit[a]
          /\ \A q \in Requests \ {r} : snap'[q] = snap[q]
          /\ Mover(r)' => Halfway(r)'
          /\ ~Mover(r)' => \A a \in Ends(r) : bal'[a] = Recorded(a)'
      BY <1>1, <2>1, <2>2, <3>1, TransferEffect
    <3>3. PICK T \in SUBSET Accounts : T = Ends(r)
      BY <1>2, <2>2
    <3>4. \A q \in Requests \ {r} :
            Mover(q) => Ends(q) \cap T = {} /\ Ends(q) \subseteq Accounts
      BY <1>1, <1>2, <2>2, <3>3, TransfersApart
    <3> QED
      BY <1>1, <2>2, <3>1, <3>2, <3>3, <3>4, BooksAfter
  <2>4. LedgerTypeOK'
    BY <1>1, <2>1, <2>2, TransferTypes
  <2> QED
    BY <2>3, <2>4
<1>4. CASE Pauses(r) \/ Enters(r)
  <2>1. UNCHANGED << bal, audit, snap >> /\ ~Mover(r)
    BY <1>4 DEF Pauses, Enters, ledgerVars
  <2>2. LedgerTypeOK'
    BY <1>1, <2>1 DEF LedgerTypeOK
  <2>3. ASSUME Even
        PROVE  Books'
    <3>1. Books
      BY <2>3 DEF BooksInv
    <3>2. ASSUME Mover(r)'
          PROVE  Halfway(r)'
      <4>1. Enters(r) /\ pc'[r] = "readFrom" /\ Payer(r)'
        BY <1>4, <3>2 DEF Pauses, Enters
      <4>2. ASSUME NEW a \in Ends(r)', NEW q \in Requests, Mover(q)
            PROVE  a \notin Ends(q)
        <5>1. q # r
          BY <2>1, <4>2
        <5>2. Mover(q)' /\ Ends(q)' = Ends(q)
          BY <1>1, <4>2, <5>1 DEF MenuJobs, Moves, Mover, Ends
        <5> QED
          BY <3>2, <4>2, <5>1, <5>2, TransfersApartNext
      <4>3. \A a \in Ends(r)' : a \in Accounts /\ bal[a] = Recorded(a)
        BY <3>1, <4>1, <4>2 DEF Books, Payer, Ends
      <4> QED
        BY <2>1, <4>1, <4>3 DEF Halfway, Ends, Recorded
    <3>3. PICK T \in SUBSET Accounts : T = {}
      OBVIOUS
    <3>4. T = IF Mover(r) THEN Ends(r) ELSE {}
      BY <2>1, <3>3
    <3>5. /\ \A q \in Requests \ {r} :
               Mover(q) => Ends(q) \cap T = {} /\ Ends(q) \subseteq Accounts
          /\ \A a \in Accounts \ T : bal'[a] = bal[a] /\ audit'[a] = audit[a]
          /\ \A q \in Requests \ {r} : snap'[q] = snap[q]
          /\ \A a \in T : (Mover(r)' => a \notin Ends(r)') => bal'[a] = Recorded(a)'
      BY <1>2, <2>1, <3>3
    <3> QED
      BY <1>1, <3>1, <3>2, <3>4, <3>5, BooksAfter
  <2> QED
    BY <2>2, <2>3
<1> QED
  BY <1>3, <1>4

(* The requests of giveaways, when the handlers of a batch follow each      *)
(* other: InsertGiveaway, BeginClaimSlot and CancelGiveaway begin transfers.*)
LEMMA GiveawayPays ==
  ASSUME MenuJobs, GiveawayInv, GiveawayInv', NEW r \in Requests, GiveawayRequest(r),
         ~mode.batching
  PROVE  Pays(r) \/ Pauses(r) \/ Enters(r)
<1>1. DOMAIN pc = Requests /\ DOMAIN job = Requests
  BY DEF MenuJobs
<1>2. ASSUME UNCHANGED ledgerVars, pc[r] \notin TransferSteps, pc'[r] \notin TransferSteps
      PROVE  Pauses(r)
  BY <1>2 DEF Pauses, Mover
<1>3. ASSUME UNCHANGED ledgerVars, pc[r] \notin TransferSteps, pc'[r] = "readFrom",
             r \in ready', job'[r].kind \in Transfers
      PROVE  Enters(r)
  <2>1. (Moving(r) => job[r] \in MovingJobs)'
    BY DEF GiveawayInv, GiveawayKnows
  <2>2. job'[r] \in MovingJobs
    BY <1>3, <2>1 DEF Moving, TransferSteps
  <2>3. job'[r].kind # "duel"
    BY <1>3 DEF Transfers
  <2>4. Payer(r)'
    BY <2>2, <2>3 DEF Payer, MovingJobs
  <2> QED
    BY <1>3, <2>4 DEF Enters, Mover
<1>4. ASSUME NEW u \in Users, NEW c \in Chats, NEW t \in Totals, GiveawayCommand(r, u, c, t)
      PROVE  Pauses(r)
  BY <1>1, <1>2, <1>4 DEF GiveawayCommand, Start, TransferSteps
<1>5. ASSUME NEW m \in Messages, GiveawayMenuShown(r, m)
      PROVE  Pauses(r)
  BY <1>1, <1>2, <1>5 DEF GiveawayMenuShown, Finish, TransferSteps
<1>6. ASSUME NEW u \in Users, NEW m \in Messages, PressCreate(r, u, m)
      PROVE  Pauses(r)
  BY <1>1, <1>2, <1>6 DEF PressCreate, Start, TransferSteps
<1>7. CASE CreateGiveaway(r)
  BY <1>1, <1>2, <1>7 DEF CreateGiveaway, Continue, Finish, TransferSteps
<1>8. ASSUME NEW g \in GiveawayIds, InsertGiveaway(r, g)
      PROVE  Enters(r)
  <2>1. job'[r] = Transferring(job[r].row.fundedBy, Escrow(g), job[r].row.total,
                               "fund", g, 0)
    BY <1>1, <1>8 DEF InsertGiveaway
  <2>2. job'[r].kind \in Transfers
    BY <2>1 DEF Transferring, Transfers
  <2> QED
    BY <1>1, <1>3, <1>8, <2>2 DEF InsertGiveaway, Continue, Tick, TransferSteps
<1>9. CASE Announce(r)
  BY <1>1, <1>2, <1>9 DEF Announce, Continue, Finish, TransferSteps
<1>10. ASSUME NEW u \in Users, NEW g \in GiveawayIds, PressClaim(r, u, g)
       PROVE  Pauses(r)
  BY <1>1, <1>2, <1>10 DEF PressClaim, Start, TransferSteps
<1>11. ASSUME NEW u \in Users, NEW g \in GiveawayIds, CancelGiveaway(r, u, g)
       PROVE  Pauses(r) \/ Enters(r)
  <2>1. PICK step \in {"readFrom", "cancelled"} :
          Start(r, step, Transferring(Escrow(g), giveaways[g].fundedBy,
                           unclaimedAmount(g), "cancel", g, giveaways[g].claimed))
    BY <1>11 DEF CancelGiveaway
  <2>2. pc[r] = "idle" /\ pc'[r] = step /\ job'[r].kind \in Transfers
    BY <1>1, <2>1 DEF Start, Transferring, Transfers
  <2>3. r \in ready' /\ UNCHANGED ledgerVars
    BY <1>11 DEF CancelGiveaway, Arrive
  <2> QED
    BY <1>2, <1>3, <2>2, <2>3 DEF TransferSteps
<1>12. CASE BeginClaimSlot(r)
  <2>1. pc[r] = "claim" /\ UNCHANGED ledgerVars
    BY <1>12 DEF BeginClaimSlot
  <2>2. CASE Finish(r)
    BY <1>1, <1>2, <2>1, <2>2 DEF Finish, TransferSteps
  <2>3. CASE ~Finish(r)
    <3>1. Wake(r) /\ Continue(r, "readFrom")
      BY <1>12, <2>3 DEF BeginClaimSlot
    <3>2. job'[r] = Transferring(Escrow(job[r].giveaway), job[r].user,
                      giveaways[job[r].giveaway].perSlot, "claim", job[r].giveaway,
                      giveaways[job[r].giveaway].claimed)
      BY <1>1, <1>12, <2>3 DEF BeginClaimSlot
    <3>3. job'[r].kind \in Transfers
      BY <3>2 DEF Transferring, Transfers
    <3> QED
      BY <1>1, <1>3, <2>1, <3>1, <3>3 DEF Continue, Wake, TransferSteps
  <2> QED
    BY <2>2, <2>3
<1>13. CASE RecordClaim(r) \/ CountClaim(r)
  BY <1>1, <1>2, <1>13 DEF RecordClaim, CountClaim, Continue, Finish, TransferSteps
<1>14. CASE CompleteGiveaway(r) \/ Cancelled(r) \/ TransferRefused(r)
  BY <1>1, <1>2, <1>14
     DEF CompleteGiveaway, Cancelled, TransferRefused, Finish, TransferSteps
<1>15. CASE MoveFunds(r)
  <2>1. /\ job[r].kind \in Transfers
        /\ \/ TransferStep(r, afterTransfer[job[r].kind], "refused")
           \/ Refuses(r, "refused")
    BY <1>15 DEF MoveFunds, Refuses, afterTransfer, Transfers
  <2>2. {afterTransfer[job[r].kind], "refused"} \cap TransferSteps = {}
    BY <2>1 DEF afterTransfer, Transfers, TransferSteps
  <2> QED
    BY <2>1, <2>2 DEF Pays
<1> QED
  BY <1>4, <1>5, <1>6, <1>7, <1>8, <1>9, <1>10, <1>11, <1>12, <1>13, <1>14, <1>15
     DEF GiveawayRequest, GiveawayStep

(* Giveaways do not arrive in batches: /cancelgiveaway, which awaits four   *)
(* microtasks between reading and writing, would share the drain of a duel. *)
NoBatchedGiveaways == \A m \in Modes : m.batching => "giveaway" \notin m.features

(* A step that does not touch the books of a withdrawal.                    *)
LEMMA OrdinaryStep ==
  ASSUME CommunityInv, FightInv, FightInv', LocksInv, LocksInv', BooksInv,
         NEW r \in Requests, Acts(r), RowsLast, UNCHANGED << mode, crashes >>,
         ~HalfWithdrawn(r), ~HalfWithdrawn(r)',
         Pays(r) \/ Pauses(r) \/ Enters(r)
  PROVE  BooksInv'
<1>1. MenuJobs /\ Loop /\ DuelInv /\ WithdrawInv /\ Moves(r) /\ Paying
  BY DEF CommunityInv, MenuInv, Acts, BooksInv
<1>2. Paying'
  BY <1>1, PayingKept
<1>3. LedgerTypeOK' /\ (Even => Books')
  BY <1>1, <1>2, BooksKept
<1>4. ASSUME NEW q \in Requests \ {r}
      PROVE  pc'[q] = pc[q] /\ job'[q] = job[q]
  BY <1>1 DEF MenuJobs, Moves
<1>5. Even' => Even
  BY <1>4 DEF Even, HalfWithdrawn
<1>6. ASSUME crashes' = 0, NEW q \in Requests, HalfWithdrawn(q)'
      PROVE  Unlogged(q)'
  <2>1. q # r /\ HalfWithdrawn(q) /\ Unlogged(q)
    BY <1>4, <1>6 DEF HalfWithdrawn, BooksInv
  <2>2. ready = {q}
    BY <1>1, <2>1 DEF WithdrawInv, WithdrawKnows, HalfWithdrawn, Draining,
                      WithdrawSteps, ByItself
  <2>3. ~Mover(r)
    BY <1>1, <2>1, <2>2 DEF Paying
  <2>4. UNCHANGED << bal, audit >>
    BY <1>1, <2>3, PaysFacts DEF Pauses, Enters, ledgerVars
  <2> QED
    BY <1>4, <2>1, <2>4 DEF Unlogged, Recorded
<1> QED
  BY <1>2, <1>3, <1>5, <1>6 DEF BooksInv

(* The UPDATE and the row of a withdrawal, while nobody pays.               *)
LEMMA WithdrawKeepsBooks ==
  ASSUME CommunityInv, FightInv, FightInv', LocksInv, LocksInv', BooksInv,
         NEW r \in Requests, Acts(r), RowsLast, UNCHANGED << mode, crashes >>,
         WithdrawRequest(r)
  PROVE  BooksInv'
<1>1. /\ MenuJobs /\ WithdrawKnows(r) /\ Paying /\ LedgerTypeOK
      /\ DOMAIN pc = Requests /\ mode \in Modes
  BY DEF CommunityInv, MenuInv, MenuJobs, WithdrawInv, BooksInv
<1>2. ASSUME NEW q \in Requests \ {r}
      PROVE  pc'[q] = pc[q] /\ job'[q] = job[q]
  BY <1>1 DEF MenuJobs, Acts, Moves
\* It is at a statement on a balance or on the log.
<1>3. ASSUME NEW step \in WithdrawSteps, pc[r] \in Draining, Continue(r, step) \/ Finish(r),
             LedgerTypeOK'
      PROVE  /\ Paying' /\ \A q \in Requests : ~Mover(q) /\ ~Mover(q)'
             /\ \A q \in Requests \ {r} : ~HalfWithdrawn(q) /\ ~HalfWithdrawn(q)'
  <2>1. ready = {r}
    BY <1>1, <1>3 DEF WithdrawKnows, ByItself
  <2>2. \A q \in Requests \ {r} : ~Mover(q) /\ ~HalfWithdrawn(q)
    BY <1>1, <2>1 DEF Paying, CommunityInv, WithdrawInv, WithdrawKnows, Draining,
                      WithdrawSteps, HalfWithdrawn, ByItself
  <2>3. ~Mover(r) /\ ~Mover(r)'
    BY <1>1, <1>3 DEF Continue, Finish, Mover, Draining, WithdrawSteps, TransferSteps
  <2>4. \A q \in Requests \ {r} : ~Mover(q)' /\ ~HalfWithdrawn(q)'
    BY <1>2, <2>2 DEF Mover, HalfWithdrawn
  <2> QED
    BY <2>2, <2>3, <2>4 DEF Paying
<1>4. ASSUME UNCHANGED ledgerVars, ~HalfWithdrawn(r), ~HalfWithdrawn(r)',
             ~Mover(r), ~Mover(r)'
      PROVE  BooksInv'
  BY <1>4, OrdinaryStep DEF Pauses
<1>5. pc[r] \in WithdrawSteps \ {"idle"} => job[r].user \in Accounts
  BY <1>1 DEF WithdrawKnows, WithdrawJobs, Accounts
<1>6. Wager \in Int /\ Funds \in [Accounts -> Int]
  BY DuelAssumption, CommunityAssumption
\* The UPDATE: the log is behind it by a wager.
<1>7. ASSUME NEW amt \in {Wager, -Wager}, pc[r] \in {"debit", "refund"}, UNCHANGED job,
             bal' = [bal EXCEPT ![job[r].user] = @ + amt], UNCHANGED << audit, snap >>,
             Continue(r, IF amt = Wager THEN "logRefund" ELSE "logDebit")
      PROVE  BooksInv'
  <2>1. job[r].user \in Accounts /\ pc[r] \in Draining
    BY <1>5, <1>7 DEF WithdrawSteps, Draining
  <2>2. LedgerTypeOK'
    BY <1>1, <1>6, <1>7, <2>1 DEF LedgerTypeOK
  <2>3. /\ Paying' /\ \A q \in Requests : ~Mover(q) /\ ~Mover(q)'
        /\ \A q \in Requests \ {r} : ~HalfWithdrawn(q) /\ ~HalfWithdrawn(q)'
    BY <1>3, <1>7, <2>1, <2>2 DEF WithdrawSteps
  <2>4. HalfWithdrawn(r)' /\ ~HalfWithdrawn(r) /\ (pc'[r] = "logRefund" <=> amt = Wager)
        /\ pc'[r] \in {"logDebit", "logRefund"}
    BY <1>1, <1>7 DEF Continue, HalfWithdrawn
  <2>5. ASSUME crashes = 0
        PROVE  Unlogged(r)'
    <3>1. \A a \in Accounts : bal[a] = Recorded(a)
      BY <2>3, <2>4, <2>5 DEF BooksInv, Even, Books
    <3>2. \A a \in Accounts :
            bal'[a] = Recorded(a) + (IF a = job[r].user THEN amt ELSE 0)
      BY <1>1, <1>6, <1>7, <2>1, <3>1 DEF LedgerTypeOK, Recorded
    <3>3. amt = IF pc'[r] = "logDebit" THEN -Wager ELSE Wager
      BY <1>7, <2>4
    <3> QED
      BY <1>7, <3>2, <3>3 DEF Unlogged, Recorded
  <2> QED
    BY <1>1, <2>2, <2>3, <2>4, <2>5 DEF BooksInv, Even
\* The row: the log has caught up.
<1>8. ASSUME NEW amt \in {Wager, -Wager}, HalfWithdrawn(r),
             amt = IF pc[r] = "logDebit" THEN -Wager ELSE Wager,
             audit' = [audit EXCEPT ![job[r].user] = @ + amt], UNCHANGED << bal, snap >>,
             Continue(r, "sending") \/ Finish(r)
      PROVE  BooksInv'
  <2>1. job[r].user \in Accounts /\ pc[r] \in Draining
    BY <1>5, <1>8 DEF WithdrawSteps, Draining, HalfWithdrawn
  <2>2. LedgerTypeOK'
    BY <1>1, <1>6, <1>8, <2>1 DEF LedgerTypeOK
  <2>3. /\ Paying' /\ \A q \in Requests : ~Mover(q)'
        /\ \A q \in Requests \ {r} : ~HalfWithdrawn(q)'
    BY <1>3, <1>8, <2>1, <2>2 DEF WithdrawSteps
  <2>4. ~HalfWithdrawn(r)'
    BY <1>1, <1>8 DEF Continue, Finish, HalfWithdrawn
  <2>5. ASSUME crashes = 0
        PROVE  \A a \in Accounts : bal'[a] = Recorded(a)'
    <3>1. Unlogged(r)
      BY <1>8, <2>5 DEF BooksInv
    <3>2. ASSUME NEW a \in Accounts
          PROVE  bal'[a] = Recorded(a)'
      <4>1. /\ bal[a] = Funds[a] + audit[a] + (IF a = job[r].user THEN amt ELSE 0)
            /\ audit'[a] = audit[a] + (IF a = job[r].user THEN amt ELSE 0)
            /\ audit[a] \in Int /\ Funds[a] \in Int /\ amt \in Int
        BY <1>1, <1>6, <1>8, <2>1, <3>1 DEF Unlogged, Recorded, LedgerTypeOK
      <4> QED
        BY <1>8, <4>1 DEF Recorded
    <3> QED
      BY <3>2
  <2> QED
    BY <1>1, <2>2, <2>3, <2>4, <2>5 DEF BooksInv, Even, Books
<1>9. ASSUME NEW u \in Users, BeginWithdrawal(r, u)
      PROVE  BooksInv'
  BY <1>1, <1>4, <1>9 DEF BeginWithdrawal, Start, HalfWithdrawn, Mover, TransferSteps
<1>10. CASE LockWithdrawal(r)
  BY <1>1, <1>4, <1>10 DEF LockWithdrawal, Continue, HalfWithdrawn, Mover, TransferSteps
<1>11. CASE DebitWithdrawal(r)
  <2>1. CASE pc[r] = "debit"
    <3>1. bal' = [bal EXCEPT ![job[r].user] = @ + (-Wager)]
      <4>1. \A x \in Int : x - Wager = x + (-Wager)
        BY <1>6
      <4>2. bal[job[r].user] \in Int
        BY <1>1, <1>5, <2>1 DEF WithdrawSteps, LedgerTypeOK
      <4> QED
        BY <1>11, <2>1, <4>1, <4>2 DEF DebitWithdrawal, Debit, Subtract
    <3> QED
      BY <1>6, <1>7, <1>11, <2>1, <3>1, DuelAssumption DEF DebitWithdrawal, Debit
  <2>2. CASE pc[r] = "logDebit"
    <3>1. audit' = [audit EXCEPT ![job[r].user] = @ + (-Wager)]
      <4>1. \A x \in Int : x - Wager = x + (-Wager)
        BY <1>6
      <4>2. audit[job[r].user] \in Int
        BY <1>1, <1>5, <2>2 DEF WithdrawSteps, LedgerTypeOK
      <4> QED
        BY <1>11, <2>2, <4>1, <4>2 DEF DebitWithdrawal, RecordDebit
    <3> QED
      BY <1>8, <1>11, <2>2, <3>1 DEF DebitWithdrawal, RecordDebit, HalfWithdrawn
  <2> QED
    BY <1>11, <2>1, <2>2 DEF DebitWithdrawal
<1>12. CASE WithdrawalSent(r)
  BY <1>1, <1>4, <1>12
     DEF WithdrawalSent, Continue, Finish, HalfWithdrawn, Mover, TransferSteps
<1>13. CASE RefundWithdrawal(r)
  <2>1. CASE pc[r] = "refund"
    BY <1>7, <1>13, <2>1 DEF RefundWithdrawal, Credit, Add
  <2>2. CASE pc[r] = "logRefund"
    BY <1>8, <1>13, <2>2 DEF RefundWithdrawal, RecordCredit, HalfWithdrawn
  <2> QED
    BY <1>13, <2>1, <2>2 DEF RefundWithdrawal
<1> QED
  BY <1>9, <1>10, <1>11, <1>12, <1>13 DEF WithdrawRequest

(* Who is elsewhere is at no statement of a withdrawal.                     *)
LEMMA NotWithdrawing ==
  ASSUME NEW r
  PROVE  /\ InDuel(r) \/ InGiveaway(r) \/ InShared(r) => ~HalfWithdrawn(r)
         /\ InDuel(r)' \/ InGiveaway(r)' \/ InShared(r)' => ~HalfWithdrawn(r)'
BY DEF InDuel, InGiveaway, InShared, HalfWithdrawn, DuelSteps, GiveawaySteps,
       SharedSteps, TransferSteps

LEMMA RequestKeepsBooks ==
  ASSUME mode.batching => ~Uses("giveaway"), CommunityInv, FightInv, FightInv',
         LocksInv, LocksInv', BooksInv, NEW r \in Requests, Request(r)
  PROVE  BooksInv'
<1>1. CommunityInv' /\ Acts(r) /\ RowsLast
  BY RequestKeeps, RequestMovesLocks
<1>2. /\ MenuJobs /\ MenuInv /\ Loop /\ DuelInv /\ DuelInv' /\ GiveawayInv /\ GiveawayInv'
      /\ SharedInv /\ Administered /\ UNCHANGED << mode, crashes >>
  BY <1>1 DEF CommunityInv, MenuInv, Request
<1>3. ASSUME InDuel(r) \/ InGiveaway(r) \/ InShared(r),
             InDuel(r)' \/ InGiveaway(r)' \/ InShared(r)',
             Pays(r) \/ Pauses(r) \/ Enters(r)
      PROVE  BooksInv'
  BY <1>1, <1>2, <1>3, NotWithdrawing, OrdinaryStep
<1>4. CASE Duels(r)
  <2>1. InDuel(r) /\ InDuel(r)'
    BY <1>2, <1>4, DuelSetupDone, DuelFightDone DEF Duels, Done
  <2>2. CASE DuelSetup(r)
    <3>1. DOMAIN pc = Requests
      BY <1>2 DEF MenuJobs
    <3>2. Pauses(r)
      BY <2>2, <3>1
         DEF DuelSetup, DuelCommand, DuelMenuShown, ChooseConsequence, CreateChecks,
             InsertDuel, PostChallenge, ChallengePosted, Start, Continue, Finish,
             TransferSteps, Pauses, Mover, duelVars
    <3> QED
      BY <1>3, <2>1, <3>2
  <2>3. ASSUME NEW u \in Users, NEW d \in DuelIds, AcceptDuel(r, u, d)
        PROVE  BooksInv'
    <3>1. pc[r] = "idle" /\ pc'[r] = "challengerBalance" /\ UNCHANGED ledgerVars
      BY <1>2, <2>3 DEF AcceptDuel, Start, MenuJobs
    <3>2. Pauses(r)
      BY <3>1 DEF Pauses, Mover, TransferSteps
    <3> QED
      BY <1>3, <2>1, <3>2
  <2>4. CASE AcceptStep(r)
    <3>1. UNCHANGED seized
      BY <1>4 DEF Duels
    <3> QED
      BY <1>1, <1>2, <1>3, <2>1, <2>4, <3>1, AcceptPays
  <2> QED
    BY <1>4, <2>2, <2>3, <2>4 DEF Duels, DuelFight
<1>5. CASE Withdrawals(r)
  BY <1>1, <1>2, <1>5, WithdrawKeepsBooks DEF Withdrawals
<1>6. CASE Giveaways(r)
  <2>1. GiveawayRequest(r) /\ ~mode.batching
    BY <1>6 DEF Giveaways
  <2>2. InGiveaway(r) /\ InGiveaway(r)'
    BY <1>2, <2>1, GiveawaysDone DEF GiveawayDone
  <2> QED
    BY <1>2, <1>3, <2>1, <2>2, GiveawayPays
<1>7. CASE Shared(r)
  <2>1. SharedRequest(r) /\ UNCHANGED ledgerVars
    BY <1>7 DEF Shared
  <2>2. InShared(r) /\ InShared(r)'
    BY <1>2, <2>1, SharedRequestDone DEF SharedDone
  <2>3. Pauses(r)
    BY <2>1, <2>2 DEF InShared, SharedSteps, Pauses, Mover, TransferSteps
  <2> QED
    BY <1>3, <2>2, <2>3
<1> QED
  BY <1>4, <1>5, <1>6, <1>7 DEF Request

(* What changes neither requests nor balances.                              *)
LEMMA NothingPaid ==
  ASSUME DuelInv, RowsLast, BooksInv,
         UNCHANGED << ready, pc, job, ledgerVars, mode, crashes >>
  PROVE  BooksInv'
<1>1. /\ mode \in Modes /\ LedgerTypeOK /\ Paying /\ (Even => Books)
      /\ crashes = 0 => \A r \in Requests : HalfWithdrawn(r) => Unlogged(r)
  BY DEF BooksInv
<1>2. \A q \in Requests :
        /\ (Mover(q)' <=> Mover(q)) /\ Ends(q)' = Ends(q)
        /\ (HalfWithdrawn(q)' <=> HalfWithdrawn(q))
  BY DEF Mover, Ends, HalfWithdrawn
<1>3. UNCHANGED << bal, audit, snap >>
  BY DEF ledgerVars
<1>4. \A q \in Requests : (Halfway(q)' <=> Halfway(q)) /\ (Unlogged(q)' <=> Unlogged(q))
  BY <1>3 DEF Halfway, Unlogged, Recorded
<1>5. \A a \in Accounts : Recorded(a)' = Recorded(a)
  BY <1>3 DEF Recorded
<1>6. Even' => Books'
  BY <1>1, <1>2, <1>3, <1>4, <1>5 DEF Books, Even
<1>7. \A q \in Requests : Mover(q)' => q \in ready' /\ Payer(q)'
  BY <1>1, <1>2, PayerKept DEF Paying
<1>8. Paying'
  BY <1>1, <1>2, <1>7 DEF Paying
<1>9. LedgerTypeOK'
  BY <1>1, <1>3 DEF LedgerTypeOK
<1> QED
  BY <1>1, <1>2, <1>4, <1>6, <1>8, <1>9 DEF BooksInv

LEMMA BackgroundKeepsBooks ==
  ASSUME CommunityInv, BooksInv, Background
  PROVE  BooksInv'
BY BackgroundFacts, NothingPaid DEF CommunityInv, loopVars

(* A crash in the middle of a transfer leaves the log behind the balances.  *)
LEMMA CrashKeepsBooks ==
  ASSUME CommunityInv, BooksInv, Crash
  PROVE  BooksInv'
<1>1. /\ pc' = [r \in Requests |-> "idle"] /\ snap' = [r \in Requests |-> NoSnap]
      /\ UNCHANGED << bal, audit, mode >> /\ crashes' = crashes + 1
  BY DEF Crash, RequestsCrash
<1>2. \A r \in Requests : ~Mover(r)'
  BY <1>1 DEF Mover, TransferSteps
<1>3. Paying'
  BY <1>2 DEF Paying
<1>4. LedgerTypeOK'
  <2>1. NoSnap \in [from: Int, to: Int]
    BY DEF NoSnap
  <2> QED
    BY <1>1, <2>1 DEF BooksInv, LedgerTypeOK
<1>5. crashes' # 0
  BY <1>1 DEF CommunityInv
<1> QED
  BY <1>1, <1>3, <1>4, <1>5 DEF BooksInv, Even

LEMMA BooksStart == Init => BooksInv
<1> SUFFICES ASSUME Init PROVE BooksInv
  OBVIOUS
<1>1. /\ pc = [r \in Requests |-> "idle"] /\ snap = [r \in Requests |-> NoSnap]
      /\ bal = Funds /\ audit = [a \in Accounts |-> 0] /\ mode \in Modes
  BY DEF Init, RequestsInit
<1>2. \A r \in Requests : ~Mover(r) /\ ~HalfWithdrawn(r)
  BY <1>1 DEF Mover, HalfWithdrawn, TransferSteps
<1>3. Paying
  BY <1>2 DEF Paying
<1>4. Funds \in [Accounts -> Int] /\ NoSnap \in [from: Int, to: Int]
  BY CommunityAssumption DEF NoSnap
<1>5. LedgerTypeOK
  BY <1>1, <1>4 DEF LedgerTypeOK
<1>6. \A a \in Accounts : bal[a] = Recorded(a)
  BY <1>1, <1>4 DEF Recorded
<1> QED
  BY <1>1, <1>2, <1>3, <1>5, <1>6 DEF BooksInv, Books

LEMMA BooksNext ==
  ASSUME mode.batching => ~Uses("giveaway"), CommunityInv, FightInv, FightInv',
         LocksInv, LocksInv', BooksInv, [Next]_vars
  PROVE  BooksInv'
<1>1. ASSUME UNCHANGED vars
      PROVE  BooksInv'
  <2>1. UNCHANGED << ready, pc, job, ledgerVars, mode, crashes, duels >>
    BY <1>1 DEF vars, loopVars, ledgerVars, duelVars
  <2> QED
    BY <2>1, SameRowsLast, NothingPaid DEF CommunityInv
<1> QED
  BY <1>1, RequestKeepsBooks, BackgroundKeepsBooks, CrashKeepsBooks DEF Next

(* Between two drains every balance is what the log says it is, although    *)
(* each of the duels of a batch writes balances that it read two awaits     *)
(* before: no account takes part in two transfers, because who pays or is   *)
(* paid in a batch is locked by the handler of its duel until the transfer  *)
(* is logged, also when another handler of the batch fails at its locks.    *)
(* A withdrawal, which deletes such rows, runs in a drain of its own.       *)
THEOREM BalancesAreLogged ==
  ASSUME NoBatchedGiveaways
  PROVE  Spec => []BalancesMatchAudit
<1>1. CommunityInv /\ BooksInv => BalancesMatchAudit
  <2> SUFFICES ASSUME CommunityInv, BooksInv, ready = {}, crashes = 0
               PROVE  \A a \in Accounts : bal[a] = Funds[a] + audit[a]
    BY DEF BalancesMatchAudit
  <2>1. \A r \in Requests : ~HalfWithdrawn(r)
    BY DEF CommunityInv, WithdrawInv, WithdrawKnows, HalfWithdrawn, Draining,
           WithdrawSteps, ByItself
  <2> QED
    BY <2>1 DEF BooksInv, Even, Books, Paying, Recorded
<1>2. ASSUME CommunityInv, FightInv, FightInv', LocksInv, LocksInv', BooksInv, [Next]_vars
      PROVE  BooksInv'
  <2>1. mode.batching => ~Uses("giveaway")
    BY <1>2 DEF BooksInv, NoBatchedGiveaways, Uses
  <2> QED
    BY <1>2, <2>1, BooksNext
<1> QED
  BY <1>1, <1>2, BooksStart, CommunityInvariant, LocksInvariant, FightInvariant, PTL
     DEF Spec

------------------------------------------------------------------------------
(* Escrow accounts follow their giveaways.                                  *)

ClaimsOf(g) == {c \in claims : c[1] = g}

(* r is at one of the steps, with giveaway g.                               *)
At(r, steps, g) == pc[r] \in steps /\ job[r].giveaway = g

(* The escrow account has received the amount that is given away.           *)
Funded(g) ==
  giveaways[g].shown \/ \E r \in Requests : At(r, {"announce", "announced"}, g)

(* A claim of g has been paid and not counted; it has been inserted; the    *)
(* rest of g has been returned.                                             *)
PaidOut(g) == \E r \in Requests : At(r, {"recordClaim", "countClaim"}, g)
Counting(g) == \E r \in Requests : At(r, {"countClaim"}, g)
Returned(g) == \E r \in Requests : At(r, {"cancelled"}, g)

(* How many slots the escrow account of g no longer pays for.               *)
Gone(g) ==
  IF giveaways[g].status # "active" \/ Returned(g) THEN giveaways[g].slots
  ELSE giveaways[g].claimed + (IF PaidOut(g) THEN 1 ELSE 0)

EscrowRow(g) ==
  /\ IsFiniteSet(ClaimsOf(g))
  /\ Cardinality(ClaimsOf(g)) = giveaways[g].claimed + (IF Counting(g) THEN 1 ELSE 0)
  /\ Funded(g) =>
       Recorded(Escrow(g)) = giveaways[g].total - Gone(g) * giveaways[g].perSlot

(* r is between two statements of one drain of a giveaway.                  *)
Holding(r) ==
  \/ pc[r] \in MovingSteps \ {"announced"}
  \/ pc[r] \in TransferSteps /\ job[r].kind \in Transfers

(* What the local variables of a transfer from or to an escrow account say  *)
(* of its giveaway.                                                         *)
EscrowKnows(r) ==
  LET g == job[r].giveaway
      row == giveaways[g]
      pays(kind) == pc[r] \in TransferSteps /\ job[r].kind = kind
  IN  /\ Holding(r) => r \in ready
      /\ pays("fund") =>
           /\ job[r].from \in Funders /\ job[r].to = Escrow(g)
           /\ job[r].amt = row.total /\ Recorded(Escrow(g)) = 0
      /\ pays("fund") => row.claimed = 0 /\ row.status = "active"
      /\ pays("claim") =>
           job[r].from = Escrow(g) /\ job[r].to \in Users /\ job[r].amt = row.perSlot
      /\ pays("claim") \/ pc[r] \in {"recordClaim", "countClaim"} =>
           job[r].read = row.claimed /\ row.status = "active"
      /\ pays("claim") \/ pc[r] = "recordClaim" => << g, job[r].to >> \notin claims
      /\ pays("cancel") =>
           /\ job[r].from = Escrow(g) /\ job[r].to \in Funders
           /\ job[r].amt = unclaimedAmount(g) /\ row.status = "active"
      /\ pc[r] = "completeGiveaway" => row.claimed = row.slots

EscrowInv ==
  ~mode.batching /\ crashes = 0 =>
    /\ \A r \in Requests : EscrowKnows(r)
    /\ \A g \in GiveawayRows : EscrowRow(g)
    /\ \A g \in GiveawayIds \ GiveawayRows :
         ClaimsOf(g) = {} /\ Recorded(Escrow(g)) = 0

(* The steps at which a request makes a difference to EscrowRow.            *)
EscrowSteps == {"announce", "announced", "recordClaim", "countClaim", "cancelled"}

(* A step of r leaves g, its escrow account and what is said of it alone.   *)
Untouched(r, g) ==
  /\ giveaways'[g] = giveaways[g] /\ ClaimsOf(g)' = ClaimsOf(g)
  /\ audit'[Escrow(g)] = audit[Escrow(g)]
  /\ ~At(r, EscrowSteps, g) /\ ~At(r, EscrowSteps, g)'

(* Who holds nothing has nothing to say.                                    *)
LEMMA NotHolding ==
  ASSUME NEW r
  PROVE  (~Holding(r) => EscrowKnows(r)) /\ (~Holding(r)' => EscrowKnows(r)')
BY DEF Holding, EscrowKnows, MovingSteps, Transfers

LEMMA UntouchedKept ==
  ASSUME MenuJobs, NEW r \in Requests, Moves(r), NEW g, EscrowRow(g), Untouched(r, g)
  PROVE  EscrowRow(g)'
<1>1. \A q \in Requests \ {r} : pc'[q] = pc[q] /\ job'[q] = job[q]
  BY DEF MenuJobs, Moves
<1>2. /\ Funded(g)' => Funded(g)
      /\ PaidOut(g)' <=> PaidOut(g)
      /\ Counting(g)' <=> Counting(g)
      /\ Returned(g)' <=> Returned(g)
  BY <1>1 DEF Funded, PaidOut, Counting, Returned, At, Untouched, EscrowSteps
<1>3. Gone(g)' = Gone(g) /\ Recorded(Escrow(g))' = Recorded(Escrow(g))
  BY <1>2 DEF Gone, Recorded, Untouched, Escrow
<1> QED
  BY <1>2, <1>3 DEF EscrowRow, Untouched

(* One request runs: what the others do not hold.                           *)
LEMMA OthersHoldNothing ==
  ASSUME MenuJobs, EscrowInv, ~mode.batching, crashes = 0,
         NEW r \in Requests, Moves(r), ready \subseteq {r},
         NEW q \in Requests \ {r}
  PROVE  ~Holding(q) /\ ~Holding(q)' /\ pc'[q] = pc[q] /\ job'[q] = job[q]
<1>1. pc'[q] = pc[q] /\ job'[q] = job[q]
  BY DEF MenuJobs, Moves
<1>2. ~Holding(q)
  BY DEF EscrowInv, EscrowKnows
<1> QED
  BY <1>1, <1>2 DEF Holding

LEMMA OnlyOneHolds ==
  ASSUME MenuJobs, EscrowInv, ~mode.batching, crashes = 0,
         NEW r \in Requests, Moves(r), ready \subseteq {r}, NEW g
  PROVE  /\ PaidOut(g) <=> At(r, {"recordClaim", "countClaim"}, g)
         /\ Counting(g) <=> At(r, {"countClaim"}, g)
         /\ Returned(g) <=> At(r, {"cancelled"}, g)
         /\ PaidOut(g)' <=> At(r, {"recordClaim", "countClaim"}, g)'
         /\ Counting(g)' <=> At(r, {"countClaim"}, g)'
         /\ Returned(g)' <=> At(r, {"cancelled"}, g)'
         /\ Funded(g)' => \/ giveaways'[g].shown
                          \/ At(r, {"announce", "announced"}, g)'
                          \/ \E q \in Requests : At(q, {"announce", "announced"}, g)
<1>1. \A q \in Requests \ {r} :
        ~Holding(q) /\ ~Holding(q)' /\ pc'[q] = pc[q] /\ job'[q] = job[q]
  BY OthersHoldNothing
<1>2. \A q \in Requests \ {r} :
        /\ ~At(q, {"recordClaim", "countClaim"}, g) /\ ~At(q, {"countClaim"}, g)
        /\ ~At(q, {"cancelled"}, g)
        /\ ~At(q, {"recordClaim", "countClaim"}, g)' /\ ~At(q, {"countClaim"}, g)'
        /\ ~At(q, {"cancelled"}, g)'
        /\ At(q, {"announce", "announced"}, g)' <=> At(q, {"announce", "announced"}, g)
  BY <1>1 DEF Holding, MovingSteps, At
<1> QED
  BY <1>2 DEF PaidOut, Counting, Returned, Funded

(* A step of r that touches the giveaways of T only.                        *)
LEMMA EscrowStep ==
  ASSUME MenuJobs, EscrowInv, ~mode.batching, crashes = 0,
         NEW r \in Requests, Moves(r), ready \subseteq {r},
         EscrowKnows(r)',
         NEW T \in SUBSET GiveawayIds,
         \A g \in T : g \in GiveawayRows' /\ EscrowRow(g)',
         \A g \in GiveawayIds \ T : Untouched(r, g)
  PROVE  EscrowInv'
<1>1. ASSUME NEW q \in Requests
      PROVE  EscrowKnows(q)'
  BY OthersHoldNothing, NotHolding
<1>2. ASSUME NEW g \in GiveawayRows'
      PROVE  EscrowRow(g)'
  <2>1. CASE g \in T
    BY <2>1
  <2>2. CASE g \notin T
    <3>1. g \in GiveawayIds /\ Untouched(r, g) /\ giveaways'[g] # NoGiveaway
      BY <2>2 DEF GiveawayRows
    <3>2. g \in GiveawayRows /\ EscrowRow(g)
      BY <3>1 DEF Untouched, GiveawayRows, EscrowInv
    <3> QED
      BY <3>1, <3>2, UntouchedKept
  <2> QED
    BY <2>1, <2>2
<1>3. ASSUME NEW g \in GiveawayIds, g \notin GiveawayRows'
      PROVE  ClaimsOf(g)' = {} /\ Recorded(Escrow(g))' = 0
  <2>1. Untouched(r, g) /\ g \notin GiveawayRows
    BY <1>3 DEF Untouched, GiveawayRows
  <2> QED
    BY <2>1 DEF Untouched, EscrowInv, Recorded, Escrow
<1>4. /\ \A q \in Requests : EscrowKnows(q)'
      /\ \A g \in GiveawayRows' : EscrowRow(g)'
      /\ \A g \in GiveawayIds \ GiveawayRows' : ClaimsOf(g)' = {} /\ Recorded(Escrow(g))' = 0
  BY <1>1, <1>2, <1>3
<1> QED
  BY <1>4 DEF EscrowInv

(* A step that touches no giveaway.                                         *)
LEMMA EscrowLeft ==
  ASSUME MenuJobs, EscrowInv, ~mode.batching, crashes = 0,
         NEW r \in Requests, Moves(r), ready \subseteq {r},
         EscrowKnows(r)', UNCHANGED giveawayVars,
         \A g \in GiveawayIds : audit'[Escrow(g)] = audit[Escrow(g)],
         pc[r] \notin EscrowSteps, pc'[r] \notin EscrowSteps
  PROVE  EscrowInv'
<1>1. PICK T \in SUBSET GiveawayIds : T = {}
  OBVIOUS
<1>2. \A g \in GiveawayIds : Untouched(r, g)
  BY DEF Untouched, giveawayVars, ClaimsOf, At
<1>3. /\ \A g \in T : g \in GiveawayRows' /\ EscrowRow(g)'
      /\ \A g \in GiveawayIds \ T : Untouched(r, g)
  BY <1>1, <1>2
<1> QED
  BY <1>3, EscrowStep

(* A step of a duel, a withdrawal or a shared account.                      *)
LEMMA EscrowElsewhere ==
  ASSUME MenuJobs, EscrowInv, ~mode.batching, crashes = 0,
         NEW r \in Requests, Moves(r), ready \subseteq {r}, UNCHANGED giveawayVars,
         InDuel(r) \/ InWithdraw(r) \/ InShared(r),
         InDuel(r)' \/ InWithdraw(r)' \/ InShared(r)',
         \A a \in SystemAccounts : audit'[a] = audit[a]
  PROVE  EscrowInv'
<1>1. /\ pc[r] \notin EscrowSteps /\ pc'[r] \notin EscrowSteps /\ ~Holding(r)'
  BY DEF InDuel, InWithdraw, InShared, DuelSteps, WithdrawSteps, SharedSteps,
         TransferSteps, EscrowSteps, Holding, MovingSteps, Transfers
<1>2. EscrowKnows(r)'
  BY <1>1, NotHolding
<1>3. \A g \in GiveawayIds : audit'[Escrow(g)] = audit[Escrow(g)]
  BY GiveawayAssumption
<1> QED
  BY <1>1, <1>2, <1>3, EscrowLeft

(* What the log entry of a transfer does to the accounts.                   *)
LEMMA TransferAudit ==
  ASSUME LedgerTypeOK, NEW r \in Requests,
         NEW from \in Accounts, from = job[r].from,
         NEW to \in Accounts, to = job[r].to, from # to,
         NEW amt \in Int, amt = job[r].amt,
         NEW done, NEW refused, TransferStep(r, done, refused)
  PROVE  /\ pc[r] # "record" => audit' = audit
         /\ pc[r] = "record" =>
              /\ audit'[from] = audit[from] - amt /\ audit'[to] = audit[to] + amt
              /\ \A a \in Accounts \ {from, to} : audit'[a] = audit[a]
<1>1. audit \in [Accounts -> Int]
  BY DEF LedgerTypeOK
<1>2. CASE pc[r] # "record"
  BY <1>2 DEF TransferStep, ReadFrom, ReadTo, WriteFrom, WriteTo, ledgerVars
<1>3. CASE pc[r] = "record"
  <2>1. RecordTransfer(r, from, to, amt)
    BY <1>3 DEF TransferStep
  <2>2. \A a \in Accounts :
          audit'[a] = audit[a] - (IF a = from THEN amt ELSE 0) + (IF a = to THEN amt ELSE 0)
    BY <2>1 DEF RecordTransfer
  <2> QED
    BY <1>1, <1>3, <2>2
<1> QED
  BY <1>2, <1>3

(* A step of r that touches giveaway g.                                     *)
LEMMA EscrowOne ==
  ASSUME MenuJobs, EscrowInv, ~mode.batching, crashes = 0,
         NEW r \in Requests, Moves(r), ready \subseteq {r},
         EscrowKnows(r)',
         NEW g \in GiveawayIds, g \in GiveawayRows', EscrowRow(g)',
         \A h \in GiveawayIds \ {g} :
           /\ giveaways'[h] = giveaways[h] /\ ClaimsOf(h)' = ClaimsOf(h)
           /\ audit'[Escrow(h)] = audit[Escrow(h)],
         pc[r] \in EscrowSteps => job[r].giveaway = g,
         pc'[r] \in EscrowSteps => job'[r].giveaway = g
  PROVE  EscrowInv'
<1>1. PICK T \in SUBSET GiveawayIds : T = {g}
  OBVIOUS
<1>2. \A h \in GiveawayIds \ T : Untouched(r, h)
  BY <1>1 DEF Untouched, At
<1>3. \A h \in T : h \in GiveawayRows' /\ EscrowRow(h)'
  BY <1>1
<1> QED
  BY <1>2, <1>3, EscrowStep

(* Slots are paid for one after the other, or all at once.                  *)
LEMMA SlotsAddUp ==
  ASSUME NEW total \in Int, NEW c \in Int, NEW s \in Int, NEW p \in Int
  PROVE  /\ total - (c + 1) * p = (total - c * p) - p
         /\ total - s * p = (total - c * p) - (s - c) * p
         /\ total - 0 * p = total
OBVIOUS

LEMMA NothingLeft ==
  ASSUME NEW c \in Nat, NEW s \in Nat, NEW p \in Nat, c <= s, ~((s - c) * p > 0)
  PROVE  (s - c) * p = 0
<1>1. \A a, b \in Nat : a * b >= 0
  OBVIOUS
<1>2. s - c \in Nat
  OBVIOUS
<1>3. (s - c) * p >= 0 /\ (s - c) * p \in Int
  BY <1>1, <1>2
<1> QED
  BY <1>3

(* The row of a new giveaway, for which nothing has been paid yet.          *)
LEMMA InsertKeepsEscrow ==
  ASSUME MenuJobs, GiveawayInv, GiveawayInv', EscrowInv, ~mode.batching, crashes = 0,
         NEW r \in Requests, Moves(r), ready \subseteq {r}, NEW g \in GiveawayIds,
         InsertGiveaway(r, g)
  PROVE  EscrowInv'
<1>1. DOMAIN pc = Requests /\ DOMAIN job = Requests /\ DOMAIN giveaways = GiveawayIds
  BY DEF MenuJobs, GiveawayInv, GiveawayTypeOK
<1>2. PICK row \in NewRows : row = job[r].row
  BY DEF InsertGiveaway, GiveawayInv, GiveawayKnows
<1>3. /\ giveaways' = [giveaways EXCEPT ![g] = row] /\ UNCHANGED << claims, audit >>
      /\ pc[r] = "insertGiveaway" /\ pc'[r] = "readFrom" /\ r \in ready'
      /\ job'[r] = Transferring(row.fundedBy, Escrow(g), row.total, "fund", g, 0)
      /\ g \notin GiveawayRows
  BY <1>1, <1>2 DEF InsertGiveaway, Continue, Tick, ledgerVars
<1>4. giveaways'[g] = row /\ \A h \in GiveawayIds \ {g} : giveaways'[h] = giveaways[h]
  BY <1>1, <1>3
<1>5. /\ row \in GiveawayRow /\ row.claimed = 0 /\ row.status = "active" /\ ~row.shown
      /\ row.fundedBy \in Funders
  BY DEF NewRows, GiveawayRow, Funders
<1>6. g \in GiveawayRows'
  BY <1>4, <1>5, GiveawayIsThere DEF GiveawayRows
<1>7. ClaimsOf(g)' = {} /\ Recorded(Escrow(g))' = 0
  BY <1>3 DEF EscrowInv, ClaimsOf, Recorded, Escrow
<1>8. ~Funded(g)'
  <2>1. \A q \in Requests : ~At(q, {"announce", "announced"}, g)
    BY <1>3 DEF GiveawayInv, GiveawayKnows, Moving, MovingSteps, At
  <2>2. ~At(r, {"announce", "announced"}, g)'
    BY <1>3 DEF At
  <2> QED
    BY <1>4, <1>5, <2>1, <2>2, OnlyOneHolds
<1>9. ~Counting(g)'
  BY <1>3, OnlyOneHolds DEF At
<1>10. EscrowRow(g)'
  BY <1>4, <1>5, <1>7, <1>8, <1>9, FS_EmptySet DEF EscrowRow
<1>11. EscrowKnows(r)'
  <2>1. /\ job'[r].from = row.fundedBy /\ job'[r].to = Escrow(g) /\ job'[r].amt = row.total
        /\ job'[r].kind = "fund" /\ job'[r].giveaway = g
    BY <1>3 DEF Transferring
  <2> QED
    BY <1>3, <1>4, <1>5, <1>7, <2>1 DEF EscrowKnows, TransferSteps
<1>12. \A h \in GiveawayIds \ {g} :
         /\ giveaways'[h] = giveaways[h] /\ ClaimsOf(h)' = ClaimsOf(h)
         /\ audit'[Escrow(h)] = audit[Escrow(h)]
  BY <1>3, <1>4 DEF ClaimsOf
<1> QED
  BY <1>3, <1>6, <1>10, <1>11, <1>12, EscrowOne DEF EscrowSteps

(* A step that updates at most the row of its giveaway, and pays nothing.   *)
LEMMA RowKeepsEscrow ==
  ASSUME MenuJobs, EscrowInv, ~mode.batching, crashes = 0,
         NEW r \in Requests, Moves(r), ready \subseteq {r}, EscrowKnows(r)',
         NEW g \in GiveawayRows, g = job[r].giveaway, giveaways'[g] \in GiveawayRow,
         \A h \in GiveawayIds \ {g} : giveaways'[h] = giveaways[h], EscrowRow(g)',
         UNCHANGED audit, \A h \in GiveawayIds \ {g} : ClaimsOf(h)' = ClaimsOf(h),
         pc'[r] \in EscrowSteps => job'[r].giveaway = g
  PROVE  EscrowInv'
<1>1. g \in GiveawayIds /\ g \in GiveawayRows'
  BY GiveawayIsThere DEF GiveawayRows
<1>2. \A h \in GiveawayIds \ {g} :
        /\ giveaways'[h] = giveaways[h] /\ ClaimsOf(h)' = ClaimsOf(h)
        /\ audit'[Escrow(h)] = audit[Escrow(h)]
  OBVIOUS
<1> QED
  BY <1>1, <1>2, EscrowOne

(* The message with the claim button, and its answer.                       *)
LEMMA AnnounceKeepsEscrow ==
  ASSUME MenuJobs, GiveawayInv, GiveawayInv', EscrowInv, ~mode.batching, crashes = 0,
         NEW r \in Requests, Moves(r), ready \subseteq {r}, Announce(r)
  PROVE  EscrowInv'
<1>1. DOMAIN pc = Requests /\ DOMAIN job = Requests /\ DOMAIN giveaways = GiveawayIds
  BY DEF MenuJobs, GiveawayInv, GiveawayTypeOK
<1>2. /\ pc[r] \in {"announce", "announced"} /\ UNCHANGED << claims, audit >>
      /\ \/ pc'[r] = "idle"
         \/ pc'[r] = "announced" /\ job'[r] = job[r]
  BY <1>1 DEF Announce, Continue, Finish, ledgerVars, giveawayVars
<1>3. PICK g \in GiveawayRows : g = job[r].giveaway
  BY <1>2 DEF GiveawayInv, GiveawayKnows, Moving, MovingSteps
<1>4. giveaways[g] \in GiveawayRow /\ g \in GiveawayIds
  BY DEF GiveawayInv, GiveawayTypeOK, GiveawayRows
<1>5. /\ \A h \in GiveawayIds \ {g} : giveaways'[h] = giveaways[h]
      /\ \/ giveaways'[g] = giveaways[g]
         \/ giveaways'[g] = [giveaways[g] EXCEPT !.shown = TRUE]
  BY <1>1, <1>3, <1>4 DEF Announce, giveawayVars
<1>6. /\ giveaways'[g] \in GiveawayRow
      /\ giveaways'[g].claimed = giveaways[g].claimed
      /\ giveaways'[g].status = giveaways[g].status
      /\ giveaways'[g].slots = giveaways[g].slots
      /\ giveaways'[g].total = giveaways[g].total
      /\ giveaways'[g].perSlot = giveaways[g].perSlot
  <2>1. [giveaways[g] EXCEPT !.shown = TRUE] \in GiveawayRow
    BY <1>4 DEF GiveawayRow
  <2> QED
    BY <1>4, <1>5, <2>1 DEF GiveawayRow
<1>7. Funded(g) /\ EscrowRow(g)
  BY <1>2, <1>3 DEF Funded, At, EscrowInv
<1>8. /\ PaidOut(g)' <=> PaidOut(g)
      /\ Counting(g)' <=> Counting(g)
      /\ Returned(g)' <=> Returned(g)
  <2>1. /\ ~At(r, {"recordClaim", "countClaim"}, g) /\ ~At(r, {"countClaim"}, g)
        /\ ~At(r, {"cancelled"}, g)
        /\ ~At(r, {"recordClaim", "countClaim"}, g)' /\ ~At(r, {"countClaim"}, g)'
        /\ ~At(r, {"cancelled"}, g)'
    BY <1>2 DEF At
  <2> QED
    BY <2>1, OnlyOneHolds
<1>9. Gone(g)' = Gone(g)
  BY <1>6, <1>8 DEF Gone
<1>10. Recorded(Escrow(g))' = Recorded(Escrow(g)) /\ \A h : ClaimsOf(h)' = ClaimsOf(h)
  BY <1>2 DEF Recorded, Escrow, ClaimsOf
<1>11. EscrowRow(g)'
  BY <1>6, <1>7, <1>8, <1>9, <1>10 DEF EscrowRow
<1>12. EscrowKnows(r)'
  <2>1. ~Holding(r)'
    BY <1>2 DEF Holding, MovingSteps, TransferSteps
  <2> QED
    BY <2>1, NotHolding
<1>13. pc'[r] \in EscrowSteps => job'[r].giveaway = g
  BY <1>2, <1>3 DEF EscrowSteps
<1> QED
  BY <1>2, <1>3, <1>5, <1>6, <1>10, <1>11, <1>12, <1>13, RowKeepsEscrow

(* What was said of the funds of g is still said of them.                   *)
LEMMA StillFunded ==
  ASSUME MenuJobs, EscrowInv, ~mode.batching, crashes = 0,
         NEW r \in Requests, Moves(r), ready \subseteq {r}, NEW g \in GiveawayRows,
         giveaways'[g].shown = giveaways[g].shown, pc'[r] \notin {"announce", "announced"},
         Funded(g)'
  PROVE  Funded(g) /\ Recorded(Escrow(g)) = giveaways[g].total - Gone(g) * giveaways[g].perSlot
<1>1. Funded(g)
  BY OnlyOneHolds DEF Funded, At
<1> QED
  BY <1>1 DEF EscrowInv, EscrowRow

(* A claim that was paid for is inserted.                                   *)
LEMMA RecordKeepsEscrow ==
  ASSUME MenuJobs, GiveawayInv, EscrowInv, ~mode.batching, crashes = 0,
         NEW r \in Requests, Moves(r), ready \subseteq {r}, RecordClaim(r)
  PROVE  EscrowInv'
<1>1. DOMAIN pc = Requests
  BY DEF MenuJobs
<1>2. /\ pc[r] = "recordClaim" /\ pc'[r] = "countClaim" /\ r \in ready'
      /\ claims' = claims \cup {<< job[r].giveaway, job[r].to >>}
      /\ UNCHANGED << job, giveaways, audit >>
  BY <1>1 DEF RecordClaim, Continue, Tick, ledgerVars
<1>3. PICK g \in GiveawayRows : g = job[r].giveaway
  BY <1>2 DEF GiveawayInv, GiveawayKnows, Moving, MovingSteps
<1>4. giveaways[g] \in GiveawayRow /\ g \in GiveawayIds
  BY DEF GiveawayInv, GiveawayTypeOK, GiveawayRows
<1>5. /\ EscrowRow(g) /\ job[r].read = giveaways[g].claimed
      /\ giveaways[g].status = "active" /\ << g, job[r].to >> \notin claims
  BY <1>2, <1>3 DEF EscrowInv, EscrowKnows
<1>6. /\ PaidOut(g) /\ PaidOut(g)' /\ ~Counting(g) /\ Counting(g)'
      /\ ~Returned(g) /\ ~Returned(g)'
  BY <1>2, <1>3, OnlyOneHolds DEF At
<1>7. PICK c : c = << g, job[r].to >>
  OBVIOUS
<1>8. /\ ClaimsOf(g)' = ClaimsOf(g) \cup {c} /\ c \notin ClaimsOf(g)
      /\ \A h \in GiveawayIds \ {g} : ClaimsOf(h)' = ClaimsOf(h)
  BY <1>2, <1>3, <1>5, <1>7 DEF ClaimsOf
<1>9. /\ IsFiniteSet(ClaimsOf(g)')
      /\ Cardinality(ClaimsOf(g)') = giveaways[g].claimed + 1
  <2>1. IsFiniteSet(ClaimsOf(g)) /\ Cardinality(ClaimsOf(g)) = giveaways[g].claimed
    BY <1>4, <1>5, <1>6 DEF EscrowRow, GiveawayRow
  <2> QED
    BY <1>8, <2>1, FS_AddElement
<1>10. Gone(g)' = Gone(g) /\ Recorded(Escrow(g))' = Recorded(Escrow(g))
  BY <1>2, <1>6 DEF Gone, Recorded, Escrow
<1>11. EscrowRow(g)'
  BY <1>2, <1>6, <1>9, <1>10, StillFunded DEF EscrowRow
<1>12. EscrowKnows(r)'
  BY <1>2, <1>3, <1>5 DEF EscrowKnows, TransferSteps
<1> QED
  BY <1>2, <1>3, <1>4, <1>8, <1>11, <1>12, RowKeepsEscrow

(* It is counted.                                                           *)
LEMMA CountKeepsEscrow ==
  ASSUME MenuJobs, GiveawayInv, EscrowInv, ~mode.batching, crashes = 0,
         NEW r \in Requests, Moves(r), ready \subseteq {r}, CountClaim(r)
  PROVE  EscrowInv'
<1>1. DOMAIN pc = Requests /\ DOMAIN giveaways = GiveawayIds
  BY DEF MenuJobs, GiveawayInv, GiveawayTypeOK
<1>2. pc[r] = "countClaim" /\ UNCHANGED << claims, audit >>
  BY DEF CountClaim, ledgerVars
<1>3. PICK g \in GiveawayRows : g = job[r].giveaway
  BY <1>2 DEF GiveawayInv, GiveawayKnows, Moving, MovingSteps
<1>4. giveaways[g] \in GiveawayRow /\ g \in GiveawayIds
  BY DEF GiveawayInv, GiveawayTypeOK, GiveawayRows
<1>5. /\ EscrowRow(g) /\ job[r].read = giveaways[g].claimed
      /\ giveaways[g].status = "active" /\ job[r].read < giveaways[g].slots
  BY <1>2, <1>3 DEF EscrowInv, EscrowKnows, GiveawayInv, GiveawayKnows, Moving, MovingSteps
<1>6. /\ \A h \in GiveawayIds \ {g} : giveaways'[h] = giveaways[h]
      /\ giveaways'[g] = [giveaways[g] EXCEPT !.claimed = giveaways[g].claimed + 1]
  BY <1>1, <1>3, <1>4, <1>5 DEF CountClaim
<1>7. /\ giveaways'[g] \in GiveawayRow
      /\ giveaways'[g].claimed = giveaways[g].claimed + 1
      /\ giveaways'[g].status = giveaways[g].status
      /\ giveaways'[g].slots = giveaways[g].slots
      /\ giveaways'[g].total = giveaways[g].total
      /\ giveaways'[g].perSlot = giveaways[g].perSlot
      /\ giveaways'[g].shown = giveaways[g].shown
  <2>1. [giveaways[g] EXCEPT !.claimed = giveaways[g].claimed + 1] \in GiveawayRow
    BY <1>4 DEF GiveawayRow
  <2> QED
    BY <1>4, <1>6, <2>1 DEF GiveawayRow
<1>8. \/ pc'[r] = "idle"
      \/ /\ pc'[r] = "completeGiveaway" /\ job'[r] = job[r] /\ r \in ready'
         /\ job[r].read + 1 >= giveaways[g].slots
  BY <1>1, <1>3 DEF CountClaim, Continue, Finish, Tick
<1>9. /\ PaidOut(g) /\ ~PaidOut(g)' /\ Counting(g) /\ ~Counting(g)'
      /\ ~Returned(g) /\ ~Returned(g)'
  BY <1>2, <1>3, <1>8, OnlyOneHolds DEF At
<1>10. Gone(g)' = Gone(g)
  BY <1>4, <1>5, <1>7, <1>9 DEF Gone, GiveawayRow
<1>11. Recorded(Escrow(g))' = Recorded(Escrow(g)) /\ \A h : ClaimsOf(h)' = ClaimsOf(h)
  BY <1>2 DEF Recorded, Escrow, ClaimsOf
<1>12. Cardinality(ClaimsOf(g)') = giveaways'[g].claimed /\ giveaways'[g].claimed \in Int
  BY <1>5, <1>7, <1>9, <1>11 DEF EscrowRow, GiveawayRow
<1>13. EscrowRow(g)'
  <2>1. Funded(g)' => Recorded(Escrow(g)) = giveaways[g].total - Gone(g) * giveaways[g].perSlot
    BY <1>7, <1>8, StillFunded
  <2> QED
    BY <1>5, <1>7, <1>9, <1>10, <1>11, <1>12, <2>1 DEF EscrowRow
<1>14. EscrowKnows(r)'
  <2>1. CASE pc'[r] = "idle"
    BY <2>1, NotHolding DEF Holding, MovingSteps, TransferSteps
  <2>2. CASE pc'[r] = "completeGiveaway"
    <3>1. giveaways'[g].claimed = giveaways'[g].slots
      BY <1>4, <1>5, <1>7, <1>8, <2>2 DEF GiveawayRow
    <3> QED
      BY <1>3, <1>8, <2>2, <3>1 DEF EscrowKnows, TransferSteps
  <2> QED
    BY <1>8, <2>1, <2>2
<1>15. pc'[r] \notin EscrowSteps
  BY <1>8 DEF EscrowSteps
<1> QED
  BY <1>2, <1>3, <1>6, <1>7, <1>11, <1>13, <1>14, <1>15, RowKeepsEscrow

(* The last claim completes the giveaway; what was not claimed is returned. *)
LEMMA CloseKeepsEscrow ==
  ASSUME MenuJobs, GiveawayInv, EscrowInv, ~mode.batching, crashes = 0,
         NEW r \in Requests, Moves(r), ready \subseteq {r},
         CompleteGiveaway(r) \/ Cancelled(r)
  PROVE  EscrowInv'
<1>1. DOMAIN pc = Requests /\ DOMAIN giveaways = GiveawayIds
  BY DEF MenuJobs, GiveawayInv, GiveawayTypeOK
<1>2. /\ pc[r] \in {"completeGiveaway", "cancelled"} /\ pc'[r] = "idle"
      /\ UNCHANGED << claims, audit >>
  BY <1>1 DEF CompleteGiveaway, Cancelled, Finish, ledgerVars
<1>3. PICK g \in GiveawayRows : g = job[r].giveaway
  BY <1>2 DEF GiveawayInv, GiveawayKnows, Moving, MovingSteps
<1>4. giveaways[g] \in GiveawayRow /\ g \in GiveawayIds
  BY DEF GiveawayInv, GiveawayTypeOK, GiveawayRows
<1>5. EscrowRow(g) /\ (pc[r] = "completeGiveaway" => giveaways[g].claimed = giveaways[g].slots)
  BY <1>3 DEF EscrowInv, EscrowKnows
<1>6. PICK s \in {"completed", "cancelled"} :
        /\ giveaways'[g] = [giveaways[g] EXCEPT !.status = s]
        /\ \A h \in GiveawayIds \ {g} : giveaways'[h] = giveaways[h]
  BY <1>1, <1>3, <1>4 DEF CompleteGiveaway, Cancelled
<1>7. /\ giveaways'[g] \in GiveawayRow
      /\ giveaways'[g].status # "active"
      /\ giveaways'[g].claimed = giveaways[g].claimed
      /\ giveaways'[g].slots = giveaways[g].slots
      /\ giveaways'[g].total = giveaways[g].total
      /\ giveaways'[g].perSlot = giveaways[g].perSlot
      /\ giveaways'[g].shown = giveaways[g].shown
  <2>1. [giveaways[g] EXCEPT !.status = s] \in GiveawayRow
    BY <1>4 DEF GiveawayRow
  <2> QED
    BY <1>4, <1>6, <2>1 DEF GiveawayRow
<1>8. /\ ~PaidOut(g) /\ ~Counting(g) /\ ~Counting(g)'
      /\ pc[r] = "cancelled" => Returned(g)
  BY <1>2, <1>3, OnlyOneHolds DEF At
<1>9. Gone(g) = giveaways[g].slots /\ Gone(g)' = giveaways[g].slots
  BY <1>2, <1>4, <1>5, <1>7, <1>8 DEF Gone, GiveawayRow
<1>10. Recorded(Escrow(g))' = Recorded(Escrow(g)) /\ \A h : ClaimsOf(h)' = ClaimsOf(h)
  BY <1>2 DEF Recorded, Escrow, ClaimsOf
<1>11. EscrowRow(g)'
  <2>1. Funded(g)' => Recorded(Escrow(g)) = giveaways[g].total - Gone(g) * giveaways[g].perSlot
    BY <1>2, <1>7, StillFunded
  <2> QED
    BY <1>5, <1>7, <1>8, <1>9, <1>10, <2>1 DEF EscrowRow
<1>12. EscrowKnows(r)' /\ pc'[r] \notin EscrowSteps
  BY <1>2, NotHolding DEF Holding, MovingSteps, TransferSteps, EscrowSteps
<1> QED
  BY <1>2, <1>3, <1>6, <1>7, <1>10, <1>11, <1>12, RowKeepsEscrow

(* /cancelgiveaway starts a transfer, or finds nothing to return.           *)
LEMMA CancelKeepsEscrow ==
  ASSUME MenuJobs, GiveawayInv, EscrowInv, ~mode.batching, crashes = 0,
         NEW r \in Requests, Moves(r), ready \subseteq {r},
         NEW u \in Users, NEW g \in GiveawayIds, CancelGiveaway(r, u, g)
  PROVE  EscrowInv'
<1>1. DOMAIN pc = Requests /\ DOMAIN job = Requests
  BY DEF MenuJobs
<1>2. PICK step : step = IF unclaimedAmount(g) > 0 THEN "readFrom" ELSE "cancelled"
  OBVIOUS
<1>3. /\ pc[r] = "idle" /\ pc'[r] = step /\ r \in ready'
      /\ job'[r] = Transferring(Escrow(g), giveaways[g].fundedBy, unclaimedAmount(g),
                                "cancel", g, giveaways[g].claimed)
      /\ UNCHANGED << giveaways, claims, audit >>
  BY <1>1, <1>2 DEF CancelGiveaway, Start, Arrive, ledgerVars, giveawayVars
<1>4. /\ job'[r].kind = "cancel" /\ job'[r].giveaway = g /\ job'[r].from = Escrow(g)
      /\ job'[r].to = giveaways[g].fundedBy /\ job'[r].amt = unclaimedAmount(g)
  BY <1>3 DEF Transferring
<1>5. /\ g \in GiveawayRows /\ giveaways[g].status = "active"
      /\ giveaways[g] \in GiveawayRow /\ giveaways[g].claimed <= giveaways[g].slots
  BY DEF CancelGiveaway, Active, GiveawayInv, GiveawayTypeOK
<1>6. giveaways[g].fundedBy \in Funders /\ unclaimedAmount(g)' = unclaimedAmount(g)
  BY <1>3, <1>5 DEF GiveawayRow, Funders, unclaimedAmount
<1>7. EscrowKnows(r)'
  BY <1>2, <1>3, <1>4, <1>5, <1>6 DEF EscrowKnows, TransferSteps
<1>8. CASE step = "readFrom"
  <2>1. pc[r] \notin EscrowSteps /\ pc'[r] \notin EscrowSteps
    BY <1>3, <1>8 DEF EscrowSteps
  <2> QED
    BY <1>3, <1>7, <2>1, EscrowLeft DEF giveawayVars
<1>9. CASE step = "cancelled"
  <2>1. ~PaidOut(g) /\ ~Counting(g) /\ ~Counting(g)' /\ ~Returned(g) /\ Returned(g)'
    BY <1>3, <1>4, <1>9, OnlyOneHolds DEF At
  <2>2. PICK c \in Nat, s \in Nat, p \in Nat :
          c = giveaways[g].claimed /\ s = giveaways[g].slots /\ p = giveaways[g].perSlot
    BY <1>5 DEF GiveawayRow
  <2>3. Gone(g) = c /\ Gone(g)' = s
    BY <1>3, <1>5, <2>1, <2>2 DEF Gone
  <2>4. (s - c) * p = 0
    BY <1>2, <1>5, <1>9, <2>2, NothingLeft DEF unclaimedAmount
  <2>5. Funded(g)' => Recorded(Escrow(g)) = giveaways[g].total - c * p
    BY <1>3, <1>5, <1>9, <2>2, <2>3, StillFunded
  <2>6. giveaways[g].total - s * p = giveaways[g].total - c * p
    <3>1. PICK total \in Int : total = giveaways[g].total
      BY <1>5 DEF GiveawayRow
    <3>2. total - s * p = (total - c * p) - (s - c) * p
      BY SlotsAddUp
    <3>3. c * p \in Int
      OBVIOUS
    <3> QED
      BY <2>4, <3>1, <3>2, <3>3
  <2>7. Recorded(Escrow(g))' = Recorded(Escrow(g)) /\ \A h : ClaimsOf(h)' = ClaimsOf(h)
    BY <1>3 DEF Recorded, Escrow, ClaimsOf
  <2>8. EscrowRow(g)
    BY <1>5 DEF EscrowInv
  <2>9. EscrowRow(g)'
    BY <1>3, <2>1, <2>2, <2>3, <2>5, <2>6, <2>7, <2>8 DEF EscrowRow
  <2>10. g \in GiveawayRows'
    BY <1>3, <1>5 DEF GiveawayRows
  <2>11. pc[r] \notin EscrowSteps
    BY <1>3 DEF EscrowSteps
  <2>12. \A h \in GiveawayIds \ {g} :
           /\ giveaways'[h] = giveaways[h] /\ ClaimsOf(h)' = ClaimsOf(h)
           /\ audit'[Escrow(h)] = audit[Escrow(h)]
    BY <1>3, <2>7
  <2> QED
    BY <1>4, <1>7, <2>9, <2>10, <2>11, <2>12, EscrowOne
<1> QED
  BY <1>2, <1>8, <1>9

(* A claim is checked, and its transfer begins.                             *)
LEMMA BeginKeepsEscrow ==
  ASSUME MenuJobs, GiveawayInv, EscrowInv, ~mode.batching, crashes = 0,
         NEW r \in Requests, Moves(r), ready \subseteq {r}, BeginClaimSlot(r)
  PROVE  EscrowInv'
<1>1. DOMAIN pc = Requests /\ DOMAIN job = Requests
  BY DEF MenuJobs
<1>2. pc[r] = "claim" /\ UNCHANGED << giveaways, claims, audit >>
  BY DEF BeginClaimSlot, ledgerVars, giveawayVars
<1>3. PICK g : g = job[r].giveaway
  OBVIOUS
<1>4. PICK u \in Users : u = job[r].user
  BY <1>2 DEF GiveawayInv, GiveawayKnows
<1>5. EscrowKnows(r)' /\ pc'[r] \notin EscrowSteps
  <2>1. CASE Finish(r)
    <3>1. pc'[r] = "idle"
      BY <1>1, <2>1 DEF Finish
    <3> QED
      BY <3>1, NotHolding DEF Holding, MovingSteps, TransferSteps, EscrowSteps
  <2>2. CASE ~Finish(r)
    <3>1. /\ claimable(u, g) /\ pc'[r] = "readFrom" /\ r \in ready'
          /\ job'[r] = Transferring(Escrow(g), u, giveaways[g].perSlot, "claim", g,
                                    giveaways[g].claimed)
      BY <1>1, <1>3, <1>4, <2>2 DEF BeginClaimSlot, Continue, Wake
    <3>2. /\ job'[r].kind = "claim" /\ job'[r].giveaway = g /\ job'[r].from = Escrow(g)
          /\ job'[r].to = u /\ job'[r].amt = giveaways[g].perSlot
          /\ job'[r].read = giveaways[g].claimed
      BY <3>1 DEF Transferring
    <3>3. giveaways[g].status = "active" /\ << g, u >> \notin claims
      BY <3>1 DEF claimable, Active
    <3> QED
      BY <1>2, <3>1, <3>2, <3>3 DEF EscrowKnows, TransferSteps, EscrowSteps
  <2> QED
    BY <2>1, <2>2
<1>6. pc[r] \notin EscrowSteps
  BY <1>2 DEF EscrowSteps
<1> QED
  BY <1>2, <1>5, <1>6, EscrowLeft DEF giveawayVars

LEMMA EscrowsDiffer ==
  \A g, h \in GiveawayIds : Escrow(g) = Escrow(h) => g = h
BY GiveawayAssumption DEF Escrow, GiveawayIds

(* A statement of the transfer of r before the one that logs it.            *)
LEMMA TransferKeepsEscrow ==
  ASSUME MenuJobs, GiveawayInv, EscrowInv, ~mode.batching, crashes = 0,
         NEW r \in Requests, Moves(r), ready \subseteq {r}, r \in ready,
         job[r].kind \in Transfers, pc[r] \in TransferSteps,
         pc'[r] \in TransferSteps \cup {"refused"},
         UNCHANGED << ready, job, giveaways, claims, audit >>
  PROVE  EscrowInv'
<1>1. EscrowKnows(r)
  BY DEF EscrowInv
<1>2. \A g : unclaimedAmount(g)' = unclaimedAmount(g) /\ Recorded(Escrow(g))' = Recorded(Escrow(g))
  BY DEF unclaimedAmount, Recorded, Escrow
<1>3. EscrowKnows(r)'
  BY <1>1, <1>2 DEF EscrowKnows, TransferSteps, Escrow
<1>4. pc[r] \notin EscrowSteps /\ pc'[r] \notin EscrowSteps
  BY DEF EscrowSteps, TransferSteps
<1> QED
  BY <1>3, <1>4, EscrowLeft DEF giveawayVars

(* The statement that logs it.                                              *)
LEMMA RecordingKeepsEscrow ==
  ASSUME MenuJobs, GiveawayInv, EscrowInv, LedgerTypeOK, ~mode.batching, crashes = 0,
         NEW r \in Requests, Moves(r), ready \subseteq {r}, r \in ready,
         pc[r] = "record", job[r].kind \in Transfers, MoveFunds(r)
  PROVE  EscrowInv'
<1>1. DOMAIN pc = Requests
  BY DEF MenuJobs
<1>2. PICK done : done = afterTransfer[job[r].kind]
  OBVIOUS
<1>3. /\ pc'[r] = done /\ UNCHANGED << ready, job, giveaways, claims >>
      /\ TransferStep(r, done, "refused")
  BY <1>1, <1>2 DEF MoveFunds, TransferStep, Tick, Continue, giveawayVars
<1>4. /\ job[r].kind = "fund" => done = "announce"
      /\ job[r].kind = "claim" => done = "recordClaim"
      /\ job[r].kind = "cancel" => done = "cancelled"
  BY <1>2 DEF afterTransfer
<1>5. /\ job[r] \in MovingJobs /\ job[r].giveaway \in GiveawayRows /\ EscrowKnows(r)
  BY DEF GiveawayInv, GiveawayKnows, Moving, TransferSteps, EscrowInv
<1>6. PICK g \in GiveawayRows : g = job[r].giveaway
  BY <1>5
<1>7. /\ g \in GiveawayIds /\ giveaways[g] \in GiveawayRow /\ EscrowRow(g)
  BY DEF GiveawayInv, GiveawayTypeOK, GiveawayRows, EscrowInv
<1>8. PICK from \in Accounts, to \in Accounts, amt \in Int :
        from = job[r].from /\ to = job[r].to /\ amt = job[r].amt /\ from # to
  BY <1>5 DEF MovingJobs
<1>9. /\ audit'[from] = audit[from] - amt /\ audit'[to] = audit[to] + amt
      /\ \A a \in Accounts \ {from, to} : audit'[a] = audit[a]
  BY <1>3, <1>8, TransferAudit
<1>10. \/ job[r].kind = "fund" /\ from \in Funders /\ to = Escrow(g)
       \/ job[r].kind \in {"claim", "cancel"} /\ from = Escrow(g) /\ to \in Funders
  BY <1>5, <1>6, <1>8 DEF EscrowKnows, TransferSteps, Transfers, Funders
<1>11. ASSUME NEW h \in GiveawayIds \ {g}
       PROVE  audit'[Escrow(h)] = audit[Escrow(h)]
  <2>1. Escrow(h) \in Accounts /\ Escrow(h) \notin Funders /\ Escrow(h) # Escrow(g)
    BY <1>7, EscrowIsAccount, EscrowsDiffer
  <2> QED
    BY <1>9, <1>10, <2>1
<1>12. /\ \A h : ClaimsOf(h)' = ClaimsOf(h)
       /\ g \in GiveawayRows'
  BY <1>3 DEF ClaimsOf, GiveawayRows
<1>13. PICK c \in Nat, s \in Nat, p \in Nat, total \in Nat :
         /\ c = giveaways[g].claimed /\ s = giveaways[g].slots
         /\ p = giveaways[g].perSlot /\ total = giveaways[g].total
  BY <1>7 DEF GiveawayRow
<1>14. giveaways[g].status = "active"
  BY <1>5, <1>6 DEF EscrowKnows, TransferSteps, Transfers
<1>15. /\ ~PaidOut(g) /\ ~Counting(g) /\ ~Returned(g) /\ ~Counting(g)'
       /\ PaidOut(g)' <=> job[r].kind = "claim"
       /\ Returned(g)' <=> job[r].kind = "cancel"
  BY <1>3, <1>4, <1>6, OnlyOneHolds DEF At, Transfers
<1>16. /\ Gone(g) = c
       /\ Gone(g)' = CASE job[r].kind = "fund" -> c
                       [] job[r].kind = "claim" -> c + 1
                       [] job[r].kind = "cancel" -> s
  BY <1>3, <1>13, <1>14, <1>15 DEF Gone, Transfers
<1>17. Funds \in [Accounts -> Int] /\ audit \in [Accounts -> Int] /\ Escrow(g) \in Accounts
  BY <1>7, CommunityAssumption, EscrowIsAccount DEF LedgerTypeOK
<1>18. /\ total - (c + 1) * p = (total - c * p) - p
       /\ total - s * p = (total - c * p) - (s - c) * p
       /\ total - 0 * p = total
  BY SlotsAddUp
<1>19. c * p \in Int /\ (s - c) * p \in Int
  OBVIOUS
<1>20. Funded(g)' => Recorded(Escrow(g))' = total - Gone(g)' * p
  <2>1. CASE job[r].kind = "fund"
    <3>1. c = 0 /\ amt = total /\ Recorded(Escrow(g)) = 0
      BY <1>5, <1>6, <1>8, <1>13, <2>1 DEF EscrowKnows, TransferSteps
    <3>2. Recorded(Escrow(g))' = Recorded(Escrow(g)) + amt
      BY <1>8, <1>9, <1>10, <1>17, <2>1 DEF Recorded, Escrow
    <3>3. Gone(g)' = 0
      BY <1>16, <2>1, <3>1
    <3> QED
      BY <1>18, <3>1, <3>2, <3>3
  <2>2. ASSUME job[r].kind \in {"claim", "cancel"}, Funded(g)'
        PROVE  /\ Recorded(Escrow(g))' = (total - c * p) - amt
    <3>1. Recorded(Escrow(g)) = total - c * p
      BY <1>3, <1>4, <1>13, <1>16, <2>2, StillFunded
    <3>2. Recorded(Escrow(g))' = Recorded(Escrow(g)) - amt
      BY <1>8, <1>9, <1>10, <1>17, <2>2 DEF Recorded, Escrow
    <3> QED
      BY <3>1, <3>2
  <2>3. CASE job[r].kind = "claim"
    <3>1. amt = p /\ Gone(g)' = c + 1
      BY <1>5, <1>6, <1>8, <1>13, <1>16, <2>3 DEF EscrowKnows, TransferSteps
    <3> QED
      BY <1>18, <2>2, <2>3, <3>1
  <2>4. CASE job[r].kind = "cancel"
    <3>1. amt = (s - c) * p /\ Gone(g)' = s
      BY <1>5, <1>6, <1>8, <1>13, <1>16, <2>4
         DEF EscrowKnows, TransferSteps, unclaimedAmount
    <3> QED
      BY <1>18, <2>2, <2>4, <3>1
  <2> QED
    BY <2>1, <2>3, <2>4 DEF Transfers
<1>21. EscrowRow(g)'
  BY <1>3, <1>7, <1>12, <1>13, <1>15, <1>20 DEF EscrowRow
<1>22. EscrowKnows(r)'
  <2>1. pc'[r] = "recordClaim" => job[r].kind = "claim"
    BY <1>3, <1>4 DEF Transfers
  <2>2. pc'[r] \in {"announce", "recordClaim", "cancelled"}
    BY <1>3, <1>4 DEF Transfers
  <2> QED
    BY <1>3, <1>5, <2>1, <2>2 DEF EscrowKnows, TransferSteps
<1> QED
  BY <1>3, <1>6, <1>7, <1>11, <1>12, <1>21, <1>22, EscrowOne DEF EscrowSteps

(* A request of a giveaway.                                                 *)
LEMMA GiveawayKeepsEscrow ==
  ASSUME MenuJobs, Loop, GiveawayInv, GiveawayInv', EscrowInv, LedgerTypeOK,
         ~mode.batching, crashes = 0,
         NEW r \in Requests, Moves(r), ready \subseteq {r}, GiveawayRequest(r)
  PROVE  EscrowInv'
<1>1. DOMAIN pc = Requests /\ DOMAIN job = Requests
  BY DEF MenuJobs
<1>2. ASSUME UNCHANGED << giveawayVars, ledgerVars >>, pc[r] \notin EscrowSteps,
             pc'[r] \in {"idle", "menu", "create", "insertGiveaway", "claim"}
      PROVE  EscrowInv'
  <2>1. EscrowKnows(r)' /\ pc'[r] \notin EscrowSteps
    BY <1>2, NotHolding DEF Holding, MovingSteps, TransferSteps, EscrowSteps
  <2>2. \A g \in GiveawayIds : audit'[Escrow(g)] = audit[Escrow(g)]
    BY <1>2 DEF ledgerVars
  <2> QED
    BY <1>2, <2>1, <2>2, EscrowLeft
<1>3. ASSUME NEW u \in Users, NEW c \in Chats, NEW t \in Totals, GiveawayCommand(r, u, c, t)
      PROVE  EscrowInv'
  BY <1>1, <1>2, <1>3 DEF GiveawayCommand, Start, EscrowSteps
<1>4. ASSUME NEW m \in Messages, GiveawayMenuShown(r, m)
      PROVE  EscrowInv'
  BY <1>1, <1>2, <1>4 DEF GiveawayMenuShown, Finish, EscrowSteps
<1>5. ASSUME NEW u \in Users, NEW m \in Messages, PressCreate(r, u, m)
      PROVE  EscrowInv'
  BY <1>1, <1>2, <1>5 DEF PressCreate, Start, EscrowSteps
<1>6. CASE CreateGiveaway(r)
  BY <1>1, <1>2, <1>6 DEF CreateGiveaway, Continue, Finish, EscrowSteps
<1>7. ASSUME NEW u \in Users, NEW g \in GiveawayIds, PressClaim(r, u, g)
      PROVE  EscrowInv'
  BY <1>1, <1>2, <1>7 DEF PressClaim, Start, EscrowSteps
<1>8. CASE TransferRefused(r)
  <2>1. pc[r] = "refused" /\ pc'[r] = "idle" /\ UNCHANGED << giveawayVars, ledgerVars >>
    BY <1>1, <1>8 DEF TransferRefused, Finish
  <2> QED
    BY <1>2, <2>1 DEF EscrowSteps
<1>9. CASE MoveFunds(r)
  <2>1. PICK done : done = afterTransfer[job[r].kind]
    OBVIOUS
  <2>2. /\ job[r].kind \in Transfers /\ done # "idle" /\ UNCHANGED giveawayVars
        /\ TransferStep(r, done, "refused") \/ Refuses(r, "refused")
    BY <1>9, <2>1 DEF MoveFunds, Refuses, afterTransfer, Transfers
  <2>3. /\ r \in ready /\ pc[r] \in TransferSteps
        /\ pc[r] # "record" => pc'[r] \in {"refused"} \cup TransferSteps
    BY <1>1, <2>2, ActsTransfer DEF Refuses, Tick, Continue, TransferSteps
  <2>4. UNCHANGED << ready, job >> /\ (pc[r] # "record" => UNCHANGED audit)
    BY <2>2 DEF TransferStep, Refuses, Tick, ReadFrom, ReadTo, WriteFrom, WriteTo,
                ledgerVars
  <2>5. CASE pc[r] = "record"
    BY <1>9, <2>2, <2>3, <2>5, RecordingKeepsEscrow
  <2>6. CASE pc[r] # "record"
    BY <2>2, <2>3, <2>4, <2>6, TransferKeepsEscrow DEF giveawayVars
  <2> QED
    BY <2>5, <2>6
<1> QED
  BY <1>3, <1>4, <1>5, <1>6, <1>7, <1>8, <1>9, InsertKeepsEscrow, AnnounceKeepsEscrow,
     CancelKeepsEscrow, BeginKeepsEscrow, RecordKeepsEscrow, CountKeepsEscrow,
     CloseKeepsEscrow
     DEF GiveawayRequest, GiveawayStep

(* The accounts of two players are no system accounts.                      *)
LEMMA PlayersPay ==
  ASSUME LedgerTypeOK, NEW r \in Requests, job[r].from \in Users, job[r].to \in Users,
         Pays(r)
  PROVE  \A a \in SystemAccounts : audit'[a] = audit[a]
<1>1. PICK from \in Users, to \in Users : from = job[r].from /\ to = job[r].to
  OBVIOUS
<1>2. PICK amt : amt = job[r].amt
  OBVIOUS
<1>3. audit' = audit \/ RecordTransfer(r, from, to, amt)
  BY <1>1, <1>2
     DEF Pays, TransferStep, Refuses, ReadFrom, ReadTo, WriteFrom, WriteTo, ledgerVars
<1>4. CASE RecordTransfer(r, from, to, amt)
  <2>1. \A a \in Accounts :
          audit'[a] = audit[a] - (IF a = from THEN amt ELSE 0) + (IF a = to THEN amt ELSE 0)
    BY <1>4 DEF RecordTransfer
  <2>2. \A a \in SystemAccounts :
          a \in Accounts /\ a # from /\ a # to /\ audit[a] \in Int
    BY GiveawayAssumption DEF Accounts, LedgerTypeOK
  <2> QED
    BY <2>1, <2>2
<1> QED
  BY <1>3, <1>4

(* Nor is the account of a user who withdraws.                              *)
LEMMA WithdrawalsPay ==
  ASSUME WithdrawInv, NEW r \in Requests, WithdrawRequest(r)
  PROVE  \A a \in SystemAccounts : audit'[a] = audit[a]
<1>1. CASE UNCHANGED audit
  BY <1>1
<1>2. ASSUME NEW u \in Users, NEW x, audit' = [audit EXCEPT ![u] = x]
      PROVE  \A a \in SystemAccounts : audit'[a] = audit[a]
  BY <1>2, GiveawayAssumption
<1>3. CASE pc[r] \in {"logDebit", "logRefund"} /\ (DebitWithdrawal(r) \/ RefundWithdrawal(r))
  <2>1. job[r].user \in Users
    BY <1>3 DEF WithdrawInv, WithdrawKnows, WithdrawSteps, WithdrawJobs
  <2>2. \E x : audit' = [audit EXCEPT ![job[r].user] = x]
    BY <1>3 DEF DebitWithdrawal, RefundWithdrawal, RecordDebit, RecordCredit
  <2> QED
    BY <1>2, <2>1, <2>2
<1> QED
  BY <1>1, <1>3
     DEF WithdrawRequest, BeginWithdrawal, LockWithdrawal, DebitWithdrawal,
         WithdrawalSent, RefundWithdrawal, Debit, Credit, ledgerVars

LEMMA RequestKeepsEscrow ==
  ASSUME CommunityInv, FightInv, BooksInv, EscrowInv, ~mode.batching,
         NEW r \in Requests, Request(r)
  PROVE  EscrowInv'
<1>1. CommunityInv' /\ Acts(r)
  BY RequestKeeps
<1>2. /\ MenuJobs /\ MenuInv /\ Loop /\ DuelInv /\ GiveawayInv /\ GiveawayInv' /\ SharedInv
      /\ Moves(r) /\ LedgerTypeOK
  BY <1>1 DEF CommunityInv, MenuInv, Acts, BooksInv
<1>3. UNCHANGED << mode, crashes >> /\ WithdrawInv /\ LockTypeOK
  BY DEF Request, CommunityInv, DuelInv, DuelTypeOK
<1>4. CASE crashes # 0
  BY <1>3, <1>4 DEF EscrowInv
<1>5. CASE crashes = 0
  <2>1. ready \subseteq {r}
    BY DEF Request, Alone, FightInv, OneRuns
  <2>2. CASE Duels(r)
    <3>1. UNCHANGED giveawayVars /\ InDuel(r) /\ InDuel(r)'
      BY <1>2, <2>2, DuelSetupDone, DuelFightDone DEF Duels, Done
    <3>2. CASE DuelSetup(r)
      <4>1. UNCHANGED ledgerVars
        BY <3>2
           DEF DuelSetup, DuelCommand, DuelMenuShown, ChooseConsequence, CreateChecks,
               InsertDuel, PostChallenge, ChallengePosted
      <4>2. \A a \in SystemAccounts : audit'[a] = audit[a]
        BY <4>1 DEF ledgerVars
      <4> QED
        BY <1>2, <1>5, <2>1, <3>1, <4>2, EscrowElsewhere
    <3>3. ASSUME NEW u \in Users, NEW d \in DuelIds, AcceptDuel(r, u, d)
          PROVE  EscrowInv'
      <4>1. \A a \in SystemAccounts : audit'[a] = audit[a]
        BY <3>3 DEF AcceptDuel, ledgerVars
      <4> QED
        BY <1>2, <1>5, <2>1, <3>1, <4>1, EscrowElsewhere
    <3>4. CASE AcceptStep(r)
      <4>1. RowsLast
        BY <1>2, <3>4, DuelFightDone DEF Done, DuelFight
      <4>2. Pays(r) \/ Pauses(r) \/ Enters(r)
        BY <1>2, <2>2, <3>4, <4>1, AcceptPays DEF Duels
      <4>3. CASE Pays(r)
        <5>1. job[r].kind = "duel"
          BY <1>2, <3>1, <4>3, PaysFacts DEF InDuel, Mover, DuelSteps, TransferSteps
        <5>2. job[r] \in DuelJobs
          BY <1>2, <4>3, <5>1, PaysFacts DEF DuelInv, DuelKnows, Accepting, Mover
        <5>3. job[r].from \in Users /\ job[r].to \in Users
          BY <5>2 DEF DuelJobs
        <5> QED
          BY <1>2, <1>5, <2>1, <3>1, <4>3, <5>3, PlayersPay, EscrowElsewhere
      <4>4. CASE Pauses(r) \/ Enters(r)
        <5>1. \A a \in SystemAccounts : audit'[a] = audit[a]
          BY <4>4 DEF Pauses, Enters, ledgerVars
        <5> QED
          BY <1>2, <1>5, <2>1, <3>1, <5>1, EscrowElsewhere
      <4> QED
        BY <4>2, <4>3, <4>4
    <3> QED
      BY <2>2, <3>2, <3>3, <3>4 DEF Duels, DuelFight
  <2>3. CASE Giveaways(r)
    BY <1>2, <1>5, <2>1, <2>3, GiveawayKeepsEscrow DEF Giveaways
  <2>5. CASE Withdrawals(r)
    <3>1. WithdrawRequest(r) /\ UNCHANGED giveawayVars
      BY <2>5 DEF Withdrawals
    <3>2. InWithdraw(r) /\ InWithdraw(r)'
      BY <1>2, <1>3, <3>1, WithdrawalsDone DEF WithdrawDone
    <3> QED
      BY <1>2, <1>3, <1>5, <2>1, <3>1, <3>2, WithdrawalsPay, EscrowElsewhere
  <2>4. CASE Shared(r)
    <3>1. SharedRequest(r) /\ UNCHANGED << ledgerVars, giveawayVars >>
      BY <2>4 DEF Shared
    <3>2. InShared(r) /\ InShared(r)'
      BY <1>2, <3>1, SharedRequestDone DEF SharedDone
    <3>3. \A a \in SystemAccounts : audit'[a] = audit[a]
      BY <3>1 DEF ledgerVars
    <3> QED
      BY <1>2, <1>5, <2>1, <3>1, <3>2, <3>3, EscrowElsewhere
  <2> QED
    BY <2>2, <2>3, <2>4, <2>5 DEF Request
<1> QED
  BY <1>4, <1>5

(* What neither moves requests nor touches giveaways or the log.            *)
LEMMA NothingInEscrow ==
  ASSUME EscrowInv, UNCHANGED << ready, pc, job, audit, giveawayVars, mode, crashes >>
  PROVE  EscrowInv'
<1>1. \A r : Holding(r)' <=> Holding(r)
  BY DEF Holding
<1>2. \A g : /\ ClaimsOf(g)' = ClaimsOf(g) /\ Recorded(Escrow(g))' = Recorded(Escrow(g))
             /\ unclaimedAmount(g)' = unclaimedAmount(g)
  BY DEF ClaimsOf, Recorded, Escrow, unclaimedAmount, giveawayVars
<1>3. \A r : EscrowKnows(r) => EscrowKnows(r)'
  BY <1>1, <1>2 DEF EscrowKnows, giveawayVars, Escrow
<1>4. \A g : EscrowRow(g) => EscrowRow(g)'
  <2>1. \A g : /\ Funded(g)' <=> Funded(g)
               /\ PaidOut(g)' <=> PaidOut(g)
               /\ Counting(g)' <=> Counting(g)
               /\ Returned(g)' <=> Returned(g)
    BY DEF Funded, PaidOut, Counting, Returned, At, giveawayVars
  <2>2. \A g : Gone(g)' = Gone(g)
    BY <2>1 DEF Gone, giveawayVars
  <2> QED
    BY <1>2, <2>1, <2>2 DEF EscrowRow, giveawayVars
<1>5. GiveawayRows' = GiveawayRows
  BY DEF GiveawayRows, giveawayVars
<1>6. CASE ~mode.batching /\ crashes = 0
  <2>1. /\ \A r \in Requests : EscrowKnows(r)'
        /\ \A g \in GiveawayRows' : EscrowRow(g)'
        /\ \A g \in GiveawayIds \ GiveawayRows' :
             ClaimsOf(g)' = {} /\ Recorded(Escrow(g))' = 0
    BY <1>2, <1>3, <1>4, <1>5, <1>6 DEF EscrowInv
  <2> QED
    BY <2>1 DEF EscrowInv
<1>7. CASE ~(~mode.batching /\ crashes = 0)
  BY <1>7 DEF EscrowInv
<1> QED
  BY <1>6, <1>7

LEMMA BackgroundKeepsEscrow ==
  ASSUME CommunityInv, EscrowInv, Background
  PROVE  EscrowInv'
<1>1. UNCHANGED giveawayVars
  BY DEF Background
<1> QED
  BY <1>1, BackgroundFacts, NothingInEscrow DEF loopVars, ledgerVars

LEMMA EscrowNext ==
  ASSUME CommunityInv, FightInv, BooksInv, EscrowInv, ~mode.batching, [Next]_vars
  PROVE  EscrowInv'
<1>1. CASE Crash
  <2>1. crashes' # 0
    BY <1>1 DEF Crash, CommunityInv
  <2> QED
    BY <2>1 DEF EscrowInv
<1>2. CASE UNCHANGED vars
  <2>1. UNCHANGED << ready, pc, job, audit, giveawayVars, mode, crashes >>
    BY <1>2 DEF vars, loopVars, ledgerVars
  <2> QED
    BY <2>1, NothingInEscrow
<1> QED
  BY <1>1, <1>2, RequestKeepsEscrow, BackgroundKeepsEscrow DEF Next

LEMMA EscrowStarts == Init => EscrowInv
<1> SUFFICES ASSUME Init PROVE EscrowInv
  OBVIOUS
<1>1. /\ pc = [r \in Requests |-> "idle"] /\ audit = [a \in Accounts |-> 0]
      /\ giveaways = [g \in GiveawayIds |-> NoGiveaway] /\ claims = {}
  BY DEF Init, RequestsInit, GiveawayInit
<1>2. \A r \in Requests : EscrowKnows(r)
  BY <1>1, NotHolding DEF Holding, MovingSteps, TransferSteps
<1>3. GiveawayRows = {}
  BY <1>1 DEF GiveawayRows
<1>4. ASSUME NEW g \in GiveawayIds
      PROVE  ClaimsOf(g) = {} /\ Recorded(Escrow(g)) = 0
  <2>1. Escrow(g) \in Accounts
    BY EscrowIsAccount
  <2>2. audit[Escrow(g)] = 0 /\ Funds[Escrow(g)] = 0
    BY <1>1, <2>1, CommunityAssumption
  <2> QED
    BY <1>1, <2>2 DEF ClaimsOf, Recorded
<1> QED
  BY <1>2, <1>3, <1>4 DEF EscrowInv

(* Between two handlers an escrow account holds the slots that nobody has   *)
(* claimed, and the giveaway counts the claims that were inserted: although *)
(* a claim writes the count that it read before its transfer, and a refund  *)
(* is computed before it is made.                                           *)
THEOREM EscrowIsAccountedFor == Spec => []EscrowFollowsSlots
<1> DEFINE Inv == ~mode.batching => BooksInv /\ EscrowInv
<1>1. Init => Inv
  BY BooksStart, EscrowStarts
<1>2. /\ CommunityInv /\ FightInv /\ FightInv' /\ LocksInv /\ LocksInv'
      /\ Inv /\ [Next]_vars
      => Inv'
  <2> SUFFICES ASSUME CommunityInv, FightInv, FightInv', LocksInv, LocksInv', Inv,
                      [Next]_vars, ~mode'.batching
               PROVE  BooksInv' /\ EscrowInv'
    OBVIOUS
  <2>1. UNCHANGED mode
    BY DEF Next, Request, Background, Crash, vars
  <2> QED
    BY <2>1, BooksNext, EscrowNext
<1>3. CommunityInv /\ Inv => EscrowFollowsSlots
  <2> SUFFICES ASSUME CommunityInv, Inv, Idle, crashes = 0, ~mode.batching,
                      NEW g \in GiveawayRows
               PROVE  LET row == giveaways[g]
                          taken == IF row.status = "active" THEN row.claimed ELSE row.slots
                      IN  /\ row.claimed = Cardinality({c \in claims : c[1] = g})
                          /\ row.shown => bal[Escrow(g)] = row.total - taken * row.perSlot
    BY DEF EscrowFollowsSlots
  <2>1. \A r \in Requests : pc[r] = "idle"
    BY DEF Idle
  <2>2. ~PaidOut(g) /\ ~Counting(g) /\ ~Returned(g)
    BY <2>1 DEF PaidOut, Counting, Returned, At
  <2>3. EscrowRow(g) /\ giveaways[g] \in GiveawayRow /\ g \in GiveawayIds
    BY DEF EscrowInv, CommunityInv, GiveawayInv, GiveawayTypeOK, GiveawayRows
  <2>4. giveaways[g].claimed \in Nat
    BY <2>3 DEF GiveawayRow
  <2>5. bal[Escrow(g)] = Recorded(Escrow(g))
    <3>1. \A r \in Requests : ~Mover(r) /\ ~HalfWithdrawn(r)
      BY <2>1 DEF Mover, HalfWithdrawn, TransferSteps
    <3> QED
      BY <2>3, <3>1, EscrowIsAccount DEF BooksInv, Even, Books
  <2>6. giveaways[g].claimed = Cardinality(ClaimsOf(g))
    BY <2>2, <2>3, <2>4 DEF EscrowRow
  <2>7. giveaways[g].shown =>
          bal[Escrow(g)] = giveaways[g].total - Gone(g) * giveaways[g].perSlot
    BY <2>3, <2>5 DEF EscrowRow, Funded
  <2>8. Gone(g) = IF giveaways[g].status = "active" THEN giveaways[g].claimed
                  ELSE giveaways[g].slots
    BY <2>2, <2>4 DEF Gone
  <2> QED
    BY <2>6, <2>7, <2>8 DEF ClaimsOf
<1> HIDE DEF Inv
<1> QED
  BY <1>1, <1>2, <1>3, CommunityInvariant, LocksInvariant, FightInvariant, PTL DEF Spec

=============================================================================
