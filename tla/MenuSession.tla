----------------------------- MODULE MenuSession -----------------------------
(***************************************************************************)
(* utils/menuSession.ts: who may press the buttons of a menu, and for how  *)
(* long.  One session object is reached through two maps that live in      *)
(* memory: activeMenus by chat and type, menusByMessageId by message.      *)
(*                                                                         *)
(* A message belongs to one chat, so a message stands for the pair that is *)
(* the key of menusByMessageId.  A session's "data" is what the buttons of *)
(* its message carry; a press without a live session is refused whatever   *)
(* it carries.                                                             *)
(***************************************************************************)
EXTENDS Transfer

CONSTANTS
  Chats,                   \* the chats the bot is in
  Messages                 \* the menu messages that are open at once

VARIABLES
  activeMenus,             \* << chat, type >> -> session
  menusByMessageId         \* message -> session

menuVars == << activeMenus, menusByMessageId >>

MenuTypes == {"duel_setup", "giveaway_setup"}

NoSession == [type |-> "none"]

(* "live" abstracts expiresAt: the 30 seconds have not passed.              *)
Session(u, c, m, t, data) ==
  [type |-> t, user |-> u, chat |-> c, message |-> m, live |-> TRUE,
   data |-> data]

NoMenus ==
  /\ activeMenus = [k \in Chats \X MenuTypes |-> NoSession]
  /\ menusByMessageId = [m \in Messages |-> NoSession]

Open(s) == s # NoSession

Key(s) == << s.chat, s.type >>

(* cleanupSession of every session of S.                                    *)
Cleanup(S) ==
  /\ activeMenus' = [k \in DOMAIN activeMenus |->
       IF k \in {Key(s) : s \in S} THEN NoSession ELSE activeMenus[k]]
  /\ menusByMessageId' = [m \in Messages |->
       IF m \in {s.message : s \in S} THEN NoSession ELSE menusByMessageId[m]]

Expired(sessions) == {s \in sessions : Open(s) /\ ~s.live}

(* Mutant: an expired menu is replaced without being removed first.         *)
createOverwrites(u, c, m, t, data) ==
  LET s == Session(u, c, m, t, data)
      existing == activeMenus[<< c, t >>]
  IN  IF Open(existing) /\ existing.live THEN UNCHANGED menuVars
      ELSE /\ activeMenus' = [activeMenus EXCEPT ![<< c, t >>] = s]
           /\ menusByMessageId' = [menusByMessageId EXCEPT ![m] = s]

(* createMenuSession: null, which no caller looks at, when another menu of  *)
(* the type is live; an expired one is removed from both maps.              *)
createMenuSession(u, c, m, t, data) ==
  LET s == Session(u, c, m, t, data)
      existing == activeMenus[<< c, t >>]
  IN  IF Open(existing) /\ existing.live THEN UNCHANGED menuVars
      ELSE /\ activeMenus' = [activeMenus EXCEPT ![<< c, t >>] = s]
           /\ menusByMessageId' = [n \in Messages |->
                IF n = m THEN s
                ELSE IF Open(existing) /\ n = existing.message THEN NoSession
                ELSE menusByMessageId[n]]

(* getActiveMenuSession removes the session it finds expired.  A command    *)
(* opens its menu only if there is none.                                    *)
noActiveMenu(c, t) ==
  /\ ~(Open(activeMenus[<< c, t >>]) /\ activeMenus[<< c, t >>].live)
  /\ Cleanup(Expired({activeMenus[<< c, t >>]}))

(* validateMenuInteraction: the menu's buttons obey its owner, while it is  *)
(* live.                                                                    *)
mayInteract(u, m) ==
  LET s == menusByMessageId[m]
  IN  Open(s) /\ s.live /\ s.user = u

(* getMenuSessionByMessage, on the press of a button of an expired menu.    *)
PressExpired(m) ==
  /\ Expired({menusByMessageId[m]}) # {}
  /\ Pass
  /\ Cleanup({menusByMessageId[m]})

(* The button "cancel" of a menu (handlers/callbacks.ts), pressed by its    *)
(* owner.                                                                   *)
CancelMenu(u, m) ==
  /\ mayInteract(u, m)
  /\ Pass
  /\ Cleanup({menusByMessageId[m]})

(* cleanupExpiredSessions, every minute: it walks activeMenus.              *)
cleanupExpiredSessions ==
  /\ Drain
  /\ Cleanup(Expired({activeMenus[k] : k \in DOMAIN activeMenus}))

(* 30 seconds pass: both maps hold the same object.                         *)
MenuExpires(m) ==
  LET s == menusByMessageId[m]
      old == [s EXCEPT !.live = FALSE]
  IN  /\ Open(s) /\ s.live
      /\ menusByMessageId' = [menusByMessageId EXCEPT ![m] = old]
      /\ activeMenus' = [k \in DOMAIN activeMenus |->
                           IF activeMenus[k] = s THEN old ELSE activeMenus[k]]

MenuStep ==
  \/ \E m \in Messages : \E u \in Users : CancelMenu(u, m)
  \/ \E m \in Messages : PressExpired(m)
  \/ cleanupExpiredSessions
  \/ \E m \in Messages : MenuExpires(m) /\ UNCHANGED loopVars

(* The process is killed: both maps are empty at the next start.            *)
ForgetMenus ==
  /\ activeMenus' = [k \in DOMAIN activeMenus |-> NoSession]
  /\ menusByMessageId' = [m \in Messages |-> NoSession]

(* What one map says of a menu the other says too, whatever the order in    *)
(* which menus are opened, expire, are replaced, pressed and swept: no      *)
(* button works for a menu that no longer blocks its chat, and no chat is   *)
(* blocked by a menu that has no buttons.                                   *)
MenusAgree ==
  /\ \A k \in DOMAIN activeMenus :
       Open(activeMenus[k]) =>
         /\ Key(activeMenus[k]) = k
         /\ menusByMessageId[activeMenus[k].message] = activeMenus[k]
  /\ \A m \in Messages :
       Open(menusByMessageId[m]) =>
         /\ menusByMessageId[m].message = m
         /\ activeMenus[Key(menusByMessageId[m])] = menusByMessageId[m]

=============================================================================
