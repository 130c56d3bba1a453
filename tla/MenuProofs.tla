------------------------------ MODULE MenuProofs ------------------------------
(***************************************************************************)
(* That the two maps of menus agree, for all users, chats, messages,       *)
(* requests and modes, batches and crashes included.                       *)
(*                                                                         *)
(* Three functions change the maps: createMenuSession, the removal of      *)
(* sessions, and the passing of their time.  Each keeps the invariant      *)
(* Menus; every other step of the bot leaves the maps alone.               *)
(***************************************************************************)
EXTENDS Community, TLAPS

MenuKeys == Chats \X MenuTypes

IsSession(s) ==
  /\ s = [type |-> s.type, user |-> s.user, chat |-> s.chat,
          message |-> s.message, live |-> s.live, data |-> s.data]
  /\ s.type \in MenuTypes /\ s.chat \in Chats /\ s.message \in Messages

(* The maps, with the form of what is in them.                              *)
Menus ==
  /\ activeMenus = [k \in MenuKeys |-> activeMenus[k]]
  /\ menusByMessageId = [m \in Messages |-> menusByMessageId[m]]
  /\ \A k \in MenuKeys : Open(activeMenus[k]) => IsSession(activeMenus[k])
  /\ \A m \in Messages : Open(menusByMessageId[m]) => IsSession(menusByMessageId[m])
  /\ MenusAgree

(* What a handler that is about to change the maps knows: the chat in which *)
(* it opens a menu, the message whose button was pressed.                   *)
Knows(r) ==
  /\ pc[r] = "menu" => job[r].chat \in Chats
  /\ pc[r] \in {"checks", "create"} => job[r].message \in Messages

MenuJobs ==
  /\ pc = [r \in Requests |-> pc[r]]
  /\ job = [r \in Requests |-> job[r]]
  /\ \A r \in Requests : Knows(r)

MenuInv == Menus /\ MenuJobs

------------------------------------------------------------------------------
(* The functions of menuSession.ts.                                         *)

(* A session that both maps hold at its own keys.                           *)
Present(s) ==
  /\ IsSession(s)
  /\ Open(s)
  /\ activeMenus[Key(s)] = s
  /\ menusByMessageId[s.message] = s

(* The key of a session is one of activeMenus.                              *)
LEMMA KeyInMap == \A s : IsSession(s) => Key(s) \in MenuKeys
BY DEF IsSession, Key, MenuKeys

(* What is in either map is present in both.                                *)
LEMMA MapsHoldSessions ==
  ASSUME Menus
  PROVE  /\ \A k \in MenuKeys : Open(activeMenus[k]) => Present(activeMenus[k])
         /\ \A m \in Messages : Open(menusByMessageId[m]) => Present(menusByMessageId[m])
<1>1. DOMAIN activeMenus = MenuKeys
  BY DEF Menus
<1> QED
  BY <1>1 DEF Menus, MenusAgree, Present

(* cleanupSession keeps the maps together, whatever sessions it removes.    *)
LEMMA CleanupKeeps ==
  ASSUME Menus, NEW S, \A s \in S : Present(s), Cleanup(S)
  PROVE  Menus'
<1>1. DOMAIN activeMenus = MenuKeys
  BY DEF Menus
<1>2. /\ activeMenus' = [k \in MenuKeys |->
           IF k \in {Key(s) : s \in S} THEN NoSession ELSE activeMenus[k]]
      /\ menusByMessageId' = [m \in Messages |->
           IF m \in {s.message : s \in S} THEN NoSession ELSE menusByMessageId[m]]
  BY <1>1 DEF Cleanup
<1>3. ASSUME NEW k \in MenuKeys, Open(activeMenus'[k])
      PROVE  /\ activeMenus'[k] = activeMenus[k]
             /\ Present(activeMenus[k])
             /\ Key(activeMenus[k]) = k
             /\ menusByMessageId'[activeMenus[k].message] = activeMenus[k]
  <2>1. activeMenus'[k] = activeMenus[k] /\ k \notin {Key(s) : s \in S}
    BY <1>2, <1>3 DEF Open
  <2>2. Present(activeMenus[k]) /\ Key(activeMenus[k]) = k
    BY <1>1, <1>3, <2>1, MapsHoldSessions DEF Menus, MenusAgree
  <2>3. activeMenus[k].message \notin {s.message : s \in S}
    BY <2>1, <2>2 DEF Present
  <2> QED
    BY <1>2, <2>1, <2>2, <2>3 DEF Present, IsSession
<1>4. ASSUME NEW m \in Messages, Open(menusByMessageId'[m])
      PROVE  /\ menusByMessageId'[m] = menusByMessageId[m]
             /\ Present(menusByMessageId[m])
             /\ menusByMessageId[m].message = m
             /\ activeMenus'[Key(menusByMessageId[m])] = menusByMessageId[m]
  <2>1. menusByMessageId'[m] = menusByMessageId[m] /\ m \notin {s.message : s \in S}
    BY <1>2, <1>4 DEF Open
  <2>2. Present(menusByMessageId[m]) /\ menusByMessageId[m].message = m
    BY <1>4, <2>1, MapsHoldSessions DEF Menus, MenusAgree
  <2>3. Key(menusByMessageId[m]) \notin {Key(s) : s \in S}
    BY <2>1, <2>2 DEF Present
  <2> QED
    BY <1>2, <2>1, <2>2, <2>3, KeyInMap DEF Present
<1>5. DOMAIN activeMenus' = MenuKeys
  BY <1>2
<1>6. /\ activeMenus' = [k \in MenuKeys |-> activeMenus'[k]]
      /\ menusByMessageId' = [m \in Messages |-> menusByMessageId'[m]]
  BY <1>2
<1>7. MenusAgree'
  BY <1>3, <1>4, <1>5 DEF MenusAgree, Open, Key
<1> QED
  BY <1>3, <1>4, <1>6, <1>7 DEF Menus, Present, Open, IsSession

(* A step that leaves both maps alone keeps them together.                  *)
LEMMA UnchangedKeeps ==
  ASSUME Menus, UNCHANGED menuVars
  PROVE  Menus'
BY DEF menuVars, Menus, MenusAgree, Open, Key, IsSession

(* The maps of a bot that has just started.                                 *)
LEMMA EmptyMaps == NoMenus => Menus
BY DEF NoMenus, Menus, MenusAgree, MenuKeys, Open

(* A restart empties both maps.                                             *)
LEMMA ForgetKeeps ==
  ASSUME Menus, ForgetMenus
  PROVE  Menus'
BY DEF ForgetMenus, Menus, MenusAgree, MenuKeys, Open

(* createMenuSession for a message that has just been posted: a menu that   *)
(* has expired leaves both maps, one that has not stays in both.            *)
LEMMA CreateKeeps ==
  ASSUME Menus, NEW u, NEW c \in Chats, NEW m \in Messages, NEW t \in MenuTypes,
         NEW data, menusByMessageId[m] = NoSession,
         createMenuSession(u, c, m, t, data)
  PROVE  Menus'
<1> DEFINE s == Session(u, c, m, t, data)
           existing == activeMenus[<< c, t >>]
<1>1. DOMAIN activeMenus = MenuKeys /\ << c, t >> \in MenuKeys
  BY DEF Menus, MenuKeys
<1>2. CASE UNCHANGED menuVars
  BY <1>2, UnchangedKeeps
<1>3. CASE /\ activeMenus' = [activeMenus EXCEPT ![<< c, t >>] = s]
           /\ menusByMessageId' = [n \in Messages |->
                IF n = m THEN s
                ELSE IF Open(existing) /\ n = existing.message THEN NoSession
                ELSE menusByMessageId[n]]
  <2> HIDE DEF existing
  <2>1. IsSession(s) /\ Open(s) /\ Key(s) = << c, t >> /\ s.message = m
    BY DEF Session, IsSession, Open, NoSession, MenuTypes, Key
  <2> HIDE DEF s
  <2>2. ASSUME NEW k \in MenuKeys, Open(activeMenus'[k])
        PROVE  /\ IsSession(activeMenus'[k])
               /\ Key(activeMenus'[k]) = k
               /\ menusByMessageId'[activeMenus'[k].message] = activeMenus'[k]
    <3>1. CASE k = << c, t >>
      BY <1>1, <1>3, <2>1, <3>1
    <3>2. CASE k # << c, t >>
      <4>1. activeMenus'[k] = activeMenus[k]
        BY <1>1, <1>3, <3>2
      <4>2. Present(activeMenus[k]) /\ Key(activeMenus[k]) = k
        BY <1>1, <2>2, <4>1, MapsHoldSessions DEF Menus, MenusAgree
      <4>3. activeMenus[k].message # m
        BY <4>2 DEF Present, Open
      <4>4. Open(existing) => activeMenus[k].message # existing.message
        BY <1>1, <3>2, <4>2, MapsHoldSessions DEF Menus, MenusAgree, Present, existing
      <4> QED
        BY <1>3, <4>1, <4>2, <4>3, <4>4 DEF Present, IsSession
    <3> QED
      BY <3>1, <3>2
  <2>3. ASSUME NEW n \in Messages, Open(menusByMessageId'[n])
        PROVE  /\ IsSession(menusByMessageId'[n])
               /\ menusByMessageId'[n].message = n
               /\ activeMenus'[Key(menusByMessageId'[n])] = menusByMessageId'[n]
    <3>1. CASE n = m
      BY <1>1, <1>3, <2>1, <3>1
    <3>2. CASE n # m
      <4>1. /\ menusByMessageId'[n] = menusByMessageId[n]
            /\ ~(Open(existing) /\ n = existing.message)
        BY <1>3, <2>3, <3>2 DEF Open
      <4>2. Present(menusByMessageId[n]) /\ menusByMessageId[n].message = n
        BY <2>3, <4>1, MapsHoldSessions DEF Menus, MenusAgree
      <4>3. Key(menusByMessageId[n]) # << c, t >>
        BY <4>1, <4>2 DEF Present, existing
      <4> QED
        BY <1>1, <1>3, <4>1, <4>2, <4>3, KeyInMap DEF Present
    <3> QED
      BY <3>1, <3>2
  <2>4. /\ activeMenus' = [k \in MenuKeys |-> activeMenus'[k]]
        /\ menusByMessageId' = [n \in Messages |-> menusByMessageId'[n]]
        /\ DOMAIN activeMenus' = MenuKeys
    BY <1>1, <1>3
  <2>5. MenusAgree'
    BY <2>2, <2>3, <2>4 DEF MenusAgree, Open, Key
  <2> QED
    BY <2>2, <2>3, <2>4, <2>5 DEF Menus, Open, IsSession
<1> QED
  BY <1>2, <1>3 DEF createMenuSession

(* What the passing of 30 seconds makes of a session.                       *)
LEMMA Expire ==
  ASSUME NEW s, IsSession(s)
  PROVE  [s EXCEPT !.live = FALSE] =
           [type |-> s.type, user |-> s.user, chat |-> s.chat,
            message |-> s.message, live |-> FALSE, data |-> s.data]
<1>1. \A l : [s EXCEPT !.live = l] =
               [type |-> s.type, user |-> s.user, chat |-> s.chat,
                message |-> s.message, live |-> l, data |-> s.data]
  BY DEF IsSession
<1> QED
  BY <1>1, Zenon

(* Both maps hold the same object: it expires in both.                      *)
LEMMA ExpiryKeeps ==
  ASSUME Menus, NEW m \in Messages, MenuExpires(m)
  PROVE  Menus'
<1> DEFINE s == menusByMessageId[m]
           old == [s EXCEPT !.live = FALSE]
<1>1. DOMAIN activeMenus = MenuKeys
  BY DEF Menus
<1>2. /\ Present(s) /\ s.message = m
      /\ menusByMessageId' = [n \in Messages |->
           IF n = m THEN old ELSE menusByMessageId[n]]
      /\ activeMenus' = [k \in MenuKeys |->
           IF activeMenus[k] = s THEN old ELSE activeMenus[k]]
  BY <1>1, MapsHoldSessions DEF MenuExpires, Menus, MenusAgree
<1> HIDE DEF s
<1>3. IsSession(old) /\ Open(old) /\ Key(old) = Key(s) /\ old.message = m
  <2>1. old = [type |-> s.type, user |-> s.user, chat |-> s.chat,
               message |-> s.message, live |-> FALSE, data |-> s.data]
    BY <1>2, Expire, Zenon DEF Present
  <2> HIDE DEF old
  <2>2. /\ old.type = s.type /\ old.user = s.user /\ old.chat = s.chat
        /\ old.message = s.message /\ old.live = FALSE /\ old.data = s.data
    BY <2>1
  <2>3. old.type \in MenuTypes /\ old.chat \in Chats /\ old.message \in Messages
    BY <1>2, <2>2 DEF Present, IsSession
  <2>4. IsSession(old)
    BY <2>1, <2>2, <2>3 DEF IsSession
  <2>5. Open(old)
    BY <2>3 DEF Open, NoSession, MenuTypes
  <2> QED
    BY <1>2, <2>2, <2>4, <2>5 DEF Key
<1> HIDE DEF old
<1>4. ASSUME NEW k \in MenuKeys, Open(activeMenus'[k])
      PROVE  /\ IsSession(activeMenus'[k])
             /\ Key(activeMenus'[k]) = k
             /\ menusByMessageId'[activeMenus'[k].message] = activeMenus'[k]
  <2>1. Present(activeMenus[k]) /\ Key(activeMenus[k]) = k
    BY <1>1, <1>2, <1>4, MapsHoldSessions DEF Menus, MenusAgree, Present
  <2>2. CASE activeMenus[k] = s
    BY <1>2, <1>3, <2>1, <2>2
  <2>3. CASE activeMenus[k] # s
    <3>1. activeMenus[k].message # m
      BY <2>1, <2>3 DEF Present, s
    <3> QED
      BY <1>2, <2>1, <2>3, <3>1 DEF Present, IsSession
  <2> QED
    BY <2>2, <2>3
<1>5. ASSUME NEW n \in Messages, Open(menusByMessageId'[n])
      PROVE  /\ IsSession(menusByMessageId'[n])
             /\ menusByMessageId'[n].message = n
             /\ activeMenus'[Key(menusByMessageId'[n])] = menusByMessageId'[n]
  <2>1. CASE n = m
    BY <1>2, <1>3, <2>1, KeyInMap DEF Present
  <2>2. CASE n # m
    <3>1. Present(menusByMessageId[n]) /\ menusByMessageId[n].message = n
      BY <1>2, <1>5, <2>2, MapsHoldSessions DEF Menus, MenusAgree
    <3> QED
      BY <1>2, <2>2, <3>1, KeyInMap DEF Present
  <2> QED
    BY <2>1, <2>2
<1>6. /\ activeMenus' = [k \in MenuKeys |-> activeMenus'[k]]
      /\ menusByMessageId' = [n \in Messages |-> menusByMessageId'[n]]
      /\ DOMAIN activeMenus' = MenuKeys
  BY <1>2
<1>7. MenusAgree'
  BY <1>4, <1>5, <1>6 DEF MenusAgree, Open, Key
<1> QED
  BY <1>4, <1>5, <1>6, <1>7 DEF Menus, Open, IsSession

------------------------------------------------------------------------------
(* The handlers.                                                            *)

(* Only request r goes on.                                                  *)
Moves(r) ==
  /\ pc' = [pc EXCEPT ![r] = pc'[r]]
  /\ job' = [job EXCEPT ![r] = job'[r]]

(* It leaves the menus alone, and does not come to a step that needs them.  *)
Quiet(r) ==
  /\ UNCHANGED menuVars
  /\ Moves(r)
  /\ pc'[r] \notin {"menu", "checks", "create"}

(* A step of r concerns what r knows, and nothing the others know.          *)
LEMMA MovesKeep ==
  ASSUME MenuJobs, NEW r \in Requests, Moves(r), Knows(r)'
  PROVE  MenuJobs'
<1>1. \A q \in Requests \ {r} : pc'[q] = pc[q] /\ job'[q] = job[q]
  BY DEF MenuJobs, Moves
<1>2. \A q \in Requests : Knows(q)'
  BY <1>1 DEF MenuJobs, Knows
<1>3. /\ pc' = [q \in Requests |-> pc'[q]]
      /\ job' = [q \in Requests |-> job'[q]]
  BY DEF MenuJobs, Moves
<1> QED
  BY <1>2, <1>3 DEF MenuJobs

(* A quiet step keeps the invariant.                                        *)
LEMMA QuietKeeps ==
  ASSUME MenuInv, NEW r \in Requests, Quiet(r)
  PROVE  MenuInv'
<1>1. Knows(r)'
  BY DEF Quiet, Knows
<1> QED
  BY <1>1, UnchangedKeeps, MovesKeep DEF MenuInv, Quiet

(* A handler that starts changes its own step only.                         *)
LEMMA StartMoves ==
  ASSUME MenuJobs, NEW r \in Requests, NEW step, NEW record, Start(r, step, record)
  PROVE  Moves(r) /\ pc'[r] = step /\ job'[r] = record
BY DEF MenuJobs, Start, Moves

(* The same for a handler that goes on to another await.                    *)
LEMMA ContinueMoves ==
  ASSUME MenuJobs, NEW r \in Requests, NEW step, Continue(r, step), UNCHANGED job
  PROVE  Moves(r) /\ pc'[r] = step
BY DEF MenuJobs, Continue, Moves

(* The same for a handler that returns.                                     *)
LEMMA FinishMoves ==
  ASSUME MenuJobs, NEW r \in Requests, Finish(r)
  PROVE  Moves(r) /\ pc'[r] = "idle"
BY DEF MenuJobs, Finish, Moves

(* The same for a step of transferBetweenUsers.                             *)
LEMMA TransferMoves ==
  ASSUME MenuJobs, NEW r \in Requests, NEW done, NEW refused,
         TransferStep(r, done, refused)
  PROVE  /\ Moves(r)
         /\ pc'[r] \in {done, refused, "readTo", "writeFrom", "writeTo", "record"}
BY ContinueMoves DEF TransferStep

(* Opening a menu: whatever was there before and has expired goes.          *)
LEMMA NoActiveMenuKeeps ==
  ASSUME Menus, NEW c \in Chats, NEW t \in MenuTypes, noActiveMenu(c, t)
  PROVE  Menus'
<1>1. << c, t >> \in MenuKeys
  BY DEF MenuKeys
<1>2. \A s \in Expired({activeMenus[<< c, t >>]}) : Present(s)
  BY <1>1, MapsHoldSessions DEF Expired
<1> QED
  BY <1>2, CleanupKeeps DEF noActiveMenu

(* Removing the session of a message.                                       *)
LEMMA CleanupOfMessageKeeps ==
  ASSUME Menus, NEW m \in Messages,
         NEW S \in SUBSET {menusByMessageId[m]}, \A s \in S : Open(s),
         Cleanup(S)
  PROVE  Menus'
<1>1. \A s \in S : Present(s)
  BY MapsHoldSessions
<1> QED
  BY <1>1, CleanupKeeps

(* /duel, its menu and its buttons open and remove menus (commands/duel.ts).*)
LEMMA DuelSetupKeeps ==
  ASSUME MenuInv, NEW r \in Requests, DuelSetup(r)
  PROVE  MenuInv'
<1> USE DEF MenuInv
<1>1. ASSUME NEW u \in Users, NEW o \in Users, NEW c \in Chats, DuelCommand(r, u, o, c)
      PROVE  MenuInv'
  <2>1. Menus'
    BY <1>1, NoActiveMenuKeeps DEF DuelCommand, MenuTypes
  <2>2. Moves(r) /\ pc'[r] = "menu" /\ job'[r].chat = c
    BY <1>1, StartMoves DEF DuelCommand
  <2> QED
    BY <2>1, <2>2, MovesKeep DEF Knows
<1>2. ASSUME NEW m \in Messages, DuelMenuShown(r, m)
      PROVE  MenuInv'
  <2>1. job[r].chat \in Chats
    BY <1>2 DEF DuelMenuShown, MenuJobs, Knows
  <2>2. Menus'
    BY <1>2, <2>1, CreateKeeps DEF DuelMenuShown, MenuTypes
  <2>3. Moves(r) /\ pc'[r] = "idle"
    BY <1>2, FinishMoves DEF DuelMenuShown
  <2> QED
    BY <2>2, <2>3, MovesKeep DEF Knows
<1>3. ASSUME NEW u \in Users, NEW m \in Messages, NEW cons \in Consequences,
             ChooseConsequence(r, u, m, cons)
      PROVE  MenuInv'
  <2>1. Menus'
    BY <1>3, UnchangedKeeps DEF ChooseConsequence
  <2>2. Moves(r) /\ pc'[r] = "checks" /\ job'[r].message = m
    BY <1>3, StartMoves DEF ChooseConsequence
  <2> QED
    BY <2>1, <2>2, MovesKeep DEF Knows
<1>4. CASE CreateChecks(r)
  <2>1. job[r].message \in Messages
    BY <1>4 DEF CreateChecks, MenuJobs, Knows
  <2>2. Menus'
    BY <1>4, <2>1, CleanupOfMessageKeeps DEF CreateChecks, Open
  <2>3. Moves(r) /\ pc'[r] \in {"insert", "idle"}
    BY <1>4, ContinueMoves, FinishMoves DEF CreateChecks
  <2> QED
    BY <2>2, <2>3, MovesKeep DEF Knows
<1>5. ASSUME NEW d \in DuelIds, InsertDuel(r, d)
      PROVE  MenuInv'
  <2>1. Quiet(r)
    BY <1>5 DEF InsertDuel, Quiet, Moves, MenuJobs
  <2> QED
    BY <2>1, QuietKeeps
<1>6. CASE PostChallenge(r)
  <2>1. Quiet(r)
    BY <1>6, ContinueMoves DEF PostChallenge, Quiet
  <2> QED
    BY <2>1, QuietKeeps
<1>7. CASE ChallengePosted(r)
  <2>1. Quiet(r)
    BY <1>7, FinishMoves DEF ChallengePosted, Quiet
  <2> QED
    BY <2>1, QuietKeeps
<1> QED
  BY <1>1, <1>2, <1>3, <1>4, <1>5, <1>6, <1>7 DEF DuelSetup

(* The fight never looks at a menu.                                         *)
LEMMA DuelFightKeeps ==
  ASSUME MenuInv, NEW r \in Requests, DuelFight(r)
  PROVE  MenuInv'
<1> USE DEF MenuInv
<1>1. ASSUME NEW u \in Users, NEW d \in DuelIds, AcceptDuel(r, u, d)
      PROVE  Quiet(r)
  BY <1>1, StartMoves DEF AcceptDuel, Quiet
<1>2. ASSUME AcceptStep(r)
      PROVE  Quiet(r)
  <2>0. UNCHANGED menuVars
    BY <1>2 DEF AcceptStep
  <2>1. CASE CheckChallenger(r)
    BY <2>0, <2>1, ContinueMoves DEF CheckChallenger, Quiet
  <2>2. CASE CancelPoor(r)
    BY <2>0, <2>2, FinishMoves DEF CancelPoor, Quiet
  <2>3. CASE LockChallenger(r)
    BY <2>0, <2>3, ContinueMoves, FinishMoves
       DEF LockChallenger, ReadLock, GiveUp, Quiet
  <2>4. CASE LockOpponent(r)
    <3>1. CASE /\ Fight(r) /\ Continue(r, "readFrom")
      <4>1. Moves(r) /\ pc'[r] = "readFrom"
        BY <3>1 DEF Fight, Continue, Moves, MenuJobs
      <4> QED
        BY <2>0, <4>1 DEF Quiet
    <3>2. CASE ~Fight(r)
      BY <2>0, <2>4, <3>2, ContinueMoves, FinishMoves
         DEF LockOpponent, ReadLock, GiveUp, Quiet
    <3>3. CASE ~Continue(r, "readFrom")
      BY <2>0, <2>4, <3>3, ContinueMoves, FinishMoves
         DEF LockOpponent, ReadLock, GiveUp, Quiet
    <3> QED
      BY <3>1, <3>2, <3>3
  <2>5. CASE BackOff(r)
    BY <2>0, <2>5, FinishMoves DEF BackOff, Quiet
  <2>6. CASE Pay(r)
    BY <2>0, <2>6, TransferMoves DEF Pay, Quiet
  <2>7. CASE Resolve(r)
    BY <2>0, <2>7, ContinueMoves DEF Resolve, afterResolve, Quiet
  <2>8. CASE ApplyConsequence(r)
    BY <2>0, <2>8, ContinueMoves DEF ApplyConsequence, Quiet
  <2>9. CASE PenaltyAnswered(r)
    BY <2>0, <2>9, ContinueMoves DEF PenaltyAnswered, Quiet
  <2>10. CASE ReleaseDuelLocks(r)
    BY <2>0, <2>10, ContinueMoves, FinishMoves
       DEF ReleaseDuelLocks, Quiet
  <2> QED
    BY <1>2, <2>1, <2>2, <2>3, <2>4, <2>5, <2>6, <2>7, <2>8, <2>9, <2>10
       DEF AcceptStep
<1> QED
  BY <1>1, <1>2, QuietKeeps DEF DuelFight

(* So do /giveaway and its buttons (handlers/callbacks.ts); claims do not.  *)
LEMMA GiveawaysKeep ==
  ASSUME MenuInv, NEW r \in Requests, GiveawayRequest(r)
  PROVE  MenuInv'
<1> USE DEF MenuInv
<1>1. ASSUME NEW u \in Users, NEW c \in Chats, NEW t \in Totals,
             GiveawayCommand(r, u, c, t)
      PROVE  MenuInv'
  <2>1. Menus'
    BY <1>1, NoActiveMenuKeeps DEF GiveawayCommand, MenuTypes
  <2>2. Moves(r) /\ pc'[r] = "menu" /\ job'[r].chat = c
    BY <1>1, StartMoves DEF GiveawayCommand
  <2> QED
    BY <2>1, <2>2, MovesKeep DEF Knows
<1>2. ASSUME NEW m \in Messages, GiveawayMenuShown(r, m)
      PROVE  MenuInv'
  <2>1. job[r].chat \in Chats
    BY <1>2 DEF GiveawayMenuShown, MenuJobs, Knows
  <2>2. Menus'
    BY <1>2, <2>1, CreateKeeps DEF GiveawayMenuShown, MenuTypes
  <2>3. Moves(r) /\ pc'[r] = "idle"
    BY <1>2, FinishMoves DEF GiveawayMenuShown
  <2> QED
    BY <2>2, <2>3, MovesKeep DEF Knows
<1>3. ASSUME NEW u \in Users, NEW m \in Messages, PressCreate(r, u, m)
      PROVE  MenuInv'
  <2>1. Menus'
    BY <1>3, UnchangedKeeps DEF PressCreate
  <2>2. Moves(r) /\ pc'[r] = "create" /\ job'[r].message = m
    BY <1>3, StartMoves DEF PressCreate
  <2> QED
    BY <2>1, <2>2, MovesKeep DEF Knows
<1>4. CASE CreateGiveaway(r)
  <2>1. job[r].message \in Messages
    BY <1>4 DEF CreateGiveaway, MenuJobs, Knows
  <2>2. Menus'
    BY <1>4, <2>1, CleanupOfMessageKeeps DEF CreateGiveaway, mayInteract, Expired
  <2>3. Moves(r) /\ pc'[r] \in {"insertGiveaway", "idle"}
    BY <1>4, ContinueMoves, FinishMoves DEF CreateGiveaway
  <2> QED
    BY <2>2, <2>3, MovesKeep DEF Knows
<1>5. ASSUME NEW g \in GiveawayIds, InsertGiveaway(r, g)
      PROVE  Quiet(r)
  BY <1>5 DEF InsertGiveaway, Continue, Quiet, Moves, MenuJobs
<1>6. CASE Announce(r)
  <2>1. Quiet(r)
    BY <1>6, ContinueMoves, FinishMoves DEF Announce, Quiet
  <2> QED
    BY <2>1, QuietKeeps
<1>7. ASSUME NEW u \in Users, NEW g \in GiveawayIds,
             PressClaim(r, u, g) \/ CancelGiveaway(r, u, g)
      PROVE  Quiet(r)
  <2>1. CASE PressClaim(r, u, g)
    BY <2>1, StartMoves DEF PressClaim, Quiet
  <2>2. CASE CancelGiveaway(r, u, g)
    <3>1. Moves(r) /\ pc'[r] \in {"readFrom", "cancelled"}
      BY <2>2, StartMoves DEF CancelGiveaway
    <3> QED
      BY <2>2, <3>1 DEF CancelGiveaway, Quiet
  <2> QED
    BY <1>7, <2>1, <2>2
<1>8. ASSUME GiveawayStep(r)
      PROVE  Quiet(r)
  <2>0. UNCHANGED menuVars
    BY <1>8 DEF GiveawayStep
  <2>1. CASE BeginClaimSlot(r)
    BY <2>0, <2>1, FinishMoves
       DEF BeginClaimSlot, Continue, Quiet, Moves, MenuJobs
  <2>2. CASE RecordClaim(r)
    BY <2>0, <2>2, ContinueMoves DEF RecordClaim, Quiet
  <2>3. CASE CountClaim(r)
    BY <2>0, <2>3, ContinueMoves, FinishMoves DEF CountClaim, Quiet
  <2>4. CASE CompleteGiveaway(r)
    BY <2>0, <2>4, FinishMoves DEF CompleteGiveaway, Quiet
  <2>5. CASE Cancelled(r)
    BY <2>0, <2>5, FinishMoves DEF Cancelled, Quiet
  <2>6. CASE TransferRefused(r)
    BY <2>0, <2>6, FinishMoves DEF TransferRefused, Quiet
  <2>7. CASE MoveFunds(r)
    <3>1. afterTransfer[job[r].kind] \in {"announce", "recordClaim", "cancelled"}
      BY <2>7 DEF MoveFunds, afterTransfer
    <3>2. CASE Continue(r, "refused") /\ UNCHANGED << job, ledgerVars >>
      BY <2>0, <3>2, ContinueMoves DEF Quiet
    <3>3. CASE TransferStep(r, afterTransfer[job[r].kind], "refused")
      BY <2>0, <3>1, <3>3, TransferMoves DEF Quiet
    <3> QED
      BY <2>7, <3>2, <3>3 DEF MoveFunds
  <2> QED
    BY <1>8, <2>1, <2>2, <2>3, <2>4, <2>5, <2>6, <2>7 DEF GiveawayStep
<1> QED
  BY <1>1, <1>2, <1>3, <1>4, <1>5, <1>6, <1>7, <1>8, QuietKeeps DEF GiveawayRequest

(* Nothing about shared accounts has a menu.                                *)
LEMMA SharedKeeps ==
  ASSUME MenuInv, NEW r \in Requests, Shared(r)
  PROVE  MenuInv'
<1> USE DEF MenuInv
<1>0. UNCHANGED menuVars /\ SharedRequest(r)
  BY DEF Shared
<1>1. ASSUME NEW u \in Users, NEW t \in Users, NEW name \in Names,
             NEW level, NEW step \in {"grantCheck", "updateCheck", "revokeCheck",
                                      "deleteCheck"},
             SharedCommand(r, u, name, t, level, step)
      PROVE  Quiet(r)
  <2>1. Moves(r) /\ pc'[r] = step
    BY <1>1, StartMoves DEF SharedCommand
  <2> QED
    BY <1>0, <2>1 DEF Quiet
<1>2. ASSUME NEW u \in Users, NEW name \in Names,
             CreateShared(r, u, name) \/ SharedTransfer(r, u, name)
      PROVE  Quiet(r)
  <2>1. Moves(r) /\ pc'[r] \in {"createShared", "sharedTransfer"}
    BY <1>2, StartMoves DEF CreateShared, SharedTransfer
  <2> QED
    BY <1>0, <2>1 DEF Quiet
<1>3. CASE InsertShared(r)
  <2>1. Moves(r) /\ pc'[r] \in {"grantCreator", "idle"}
    BY <1>3, FinishMoves DEF InsertShared, Continue, Moves, MenuJobs
  <2> QED
    BY <1>0, <2>1, QuietKeeps DEF Quiet
<1>4. CASE GrantCreator(r)
  BY <1>0, <1>4, ContinueMoves, QuietKeeps DEF GrantCreator, Quiet
<1>5. CASE BalanceFails(r) \/ SharedTransferFails(r)
  BY <1>0, <1>5, FinishMoves, QuietKeeps
     DEF BalanceFails, SharedTransferFails, Refuse, Quiet
<1>6. ASSUME NEW step, NEW next \in {"grantRead", "grantInsert", "revokeWrite",
                                     "updateRead", "updateWrite", "deleteWrite"},
             NEW ok, Checked(r, step, next, ok)
      PROVE  Quiet(r)
  BY <1>0, <1>6, ContinueMoves, FinishMoves DEF Checked, Refuse, Quiet
<1>7. ASSUME Finish(r)
      PROVE  Quiet(r)
  BY <1>0, <1>7, FinishMoves DEF Quiet
<1>8. CASE GrantAccess(r)
  BY <1>6, <1>7, <1>8, QuietKeeps DEF GrantAccess, Refuse
<1>9. CASE RevokeAccess(r) \/ UpdateAccess(r)
  BY <1>6, <1>7, <1>9, QuietKeeps DEF RevokeAccess, UpdateAccess, Write
<1>10. CASE DeleteShared(r)
  BY <1>6, <1>7, <1>10, QuietKeeps DEF DeleteShared
<1> QED
  BY <1>0, <1>1, <1>2, <1>3, <1>4, <1>5, <1>8, <1>9, <1>10, QuietKeeps
     DEF SharedRequest

(* Nothing about withdrawals has a menu either.                             *)
LEMMA WithdrawalsKeep ==
  ASSUME MenuInv, NEW r \in Requests, WithdrawRequest(r)
  PROVE  MenuInv'
<1> USE DEF MenuInv
<1>0. UNCHANGED menuVars
  BY DEF WithdrawRequest
<1>1. ASSUME NEW u \in Users, BeginWithdrawal(r, u)
      PROVE  Quiet(r)
  <2>1. Moves(r) /\ pc'[r] \in {"seize", "lock"}
    BY <1>1, StartMoves DEF BeginWithdrawal
  <2> QED
    BY <1>0, <2>1 DEF Quiet
<1>2. CASE LockWithdrawal(r)
  BY <1>0, <1>2, ContinueMoves, QuietKeeps DEF LockWithdrawal, Quiet
<1>3. CASE DebitWithdrawal(r)
  BY <1>0, <1>3, ContinueMoves, QuietKeeps DEF DebitWithdrawal, Quiet
<1>4. CASE WithdrawalSent(r)
  BY <1>0, <1>4, ContinueMoves, FinishMoves, QuietKeeps DEF WithdrawalSent, Quiet
<1>5. CASE RefundWithdrawal(r)
  BY <1>0, <1>5, ContinueMoves, FinishMoves, QuietKeeps DEF RefundWithdrawal, Quiet
<1> QED
  BY <1>1, <1>2, <1>3, <1>4, <1>5, QuietKeeps DEF WithdrawRequest

(* Timers, presses of expired menus, and the passage of time.               *)
LEMMA BackgroundKeeps ==
  ASSUME MenuInv, Background
  PROVE  MenuInv'
<1>1. ASSUME UNCHANGED << pc, job >>
      PROVE  MenuJobs'
  BY <1>1 DEF MenuInv, MenuJobs, Knows
<1>2. CASE EndDuel
  BY <1>1, <1>2, UnchangedKeeps DEF EndDuel, MenuInv
<1>3. CASE MenuStep /\ UNCHANGED << pc, job >>
  <2> USE DEF MenuInv
  <2>1. ASSUME NEW m \in Messages, NEW u \in Users, CancelMenu(u, m)
        PROVE  Menus'
    BY <2>1, CleanupOfMessageKeeps DEF CancelMenu, mayInteract
  <2>2. ASSUME NEW m \in Messages, PressExpired(m)
        PROVE  Menus'
    BY <2>2, CleanupOfMessageKeeps DEF PressExpired, Expired
  <2>3. CASE cleanupExpiredSessions
    <3>1. \A s \in Expired({activeMenus[k] : k \in DOMAIN activeMenus}) : Present(s)
      BY MapsHoldSessions DEF Expired, Menus
    <3> QED
      BY <1>1, <1>3, <2>3, <3>1, CleanupKeeps DEF cleanupExpiredSessions
  <2>4. ASSUME NEW m \in Messages, MenuExpires(m)
        PROVE  Menus'
    BY <2>4, ExpiryKeeps
  <2> QED
    BY <1>1, <1>3, <2>1, <2>2, <2>3, <2>4 DEF MenuStep
<1>4. CASE LockStep
  BY <1>1, <1>4, UnchangedKeeps DEF LockStep, MenuInv
<1> QED
  BY <1>2, <1>3, <1>4 DEF Background

(* MenusAgree (MenuSession): utils/menuSession.ts keeps activeMenus and      *)
(* menusByMessageId in step, for every number of users, chats, messages and *)
(* handlers, with batches and crashes.                                      *)
THEOREM MenusStayTogether == Spec => []MenusAgree
<1>1. Init => MenuInv
  <2> SUFFICES ASSUME Init PROVE MenuInv
    OBVIOUS
  <2>1. Menus
    BY EmptyMaps DEF Init
  <2>2. MenuJobs
    BY DEF Init, RequestsInit, MenuJobs, Knows
  <2> QED
    BY <2>1, <2>2 DEF MenuInv
<1>2. MenuInv /\ [Next]_vars => MenuInv'
  <2> SUFFICES ASSUME MenuInv, [Next]_vars PROVE MenuInv'
    OBVIOUS
  <2>1. ASSUME NEW r \in Requests, Request(r)
        PROVE  MenuInv'
    <3>1. CASE Duels(r)
      BY <3>1, DuelSetupKeeps, DuelFightKeeps DEF Duels
    <3>2. CASE Giveaways(r)
      BY <3>2, GiveawaysKeep DEF Giveaways
    <3>3. CASE Shared(r)
      BY <3>3, SharedKeeps
    <3>4. CASE Withdrawals(r)
      BY <3>4, WithdrawalsKeep DEF Withdrawals
    <3> QED
      BY <2>1, <3>1, <3>2, <3>3, <3>4 DEF Request
  <2>2. CASE Background
    BY <2>2, BackgroundKeeps
  <2>3. CASE Crash
    <3>1. Menus'
      BY <2>3, ForgetKeeps DEF Crash, MenuInv
    <3>2. MenuJobs'
      BY <2>3 DEF Crash, RequestsCrash, MenuJobs, Knows
    <3> QED
      BY <3>1, <3>2 DEF MenuInv
  <2>4. CASE UNCHANGED vars
    <3>1. UNCHANGED << menuVars, pc, job >>
      BY <2>4 DEF vars
    <3> QED
      BY <3>1, UnchangedKeeps DEF MenuInv, MenuJobs, Knows
  <2> QED
    BY <2>1, <2>2, <2>3, <2>4 DEF Next
<1>3. MenuInv => MenusAgree
  BY DEF MenuInv, Menus
<1> QED
  BY <1>1, <1>2, <1>3, PTL DEF Spec

=============================================================================
