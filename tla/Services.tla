------------------------------ MODULE Services ------------------------------
(***************************************************************************)
(* Four parts of the game's services that have nothing to do with each other: *)
(* the cold backup of a node (GameDb), the connections of its gate           *)
(* (MsgServer), the mails of a role in its agent (RoleMailbox) and the chat   *)
(* service of the cluster (Chat).  In a behaviour one of them runs and the    *)
(* others stay as they began.  GameDb is extended, the others are instances. *)
(***************************************************************************)
EXTENDS GameDb

CONSTANTS
  None,
  User, Fd, MaxHandshake, Polite,
  MAILBOX_LIMIT, MaxMail, MaxPull,
  Node, Agent, Home, Uuid, Channel, World, chat_max_buffer, Budgets

VARIABLES
  part,
  user_online, version, ufd, handshake, connection, auths, sock, accepted, polite,
  last, old, waiting, box, asked, answers, removed,
  budget, live, chat_cache, listeners, calls, world_cache, players, inbox,
  gate, ag, spoken, unheard, handled

clients == << user_online, version, ufd, handshake, connection, auths, sock, accepted, polite >>
mails == << last, old, waiting, box, asked, answers, removed >>
chat == << budget, live, chat_cache, listeners, calls, world_cache, players, inbox,
           gate, ag, spoken, unheard, handled >>
svars == << part, vars, clients, mails, chat >>

Server == INSTANCE MsgServer WITH session <- user_online, MaxIndex <- MaxHandshake
Mails == INSTANCE RoleMailbox
Chats == INSTANCE Chat WITH up <- live, missed <- unheard

ASSUME ServicesAssumption ==
  Constants /\ Server!Constants /\ Mails!Constants /\ Chats!Constants

SInit ==
  /\ part \in {"db", "clients", "mails", "chat"}
  /\ Init /\ Server!Init /\ Mails!Init /\ Chats!Init
  /\ part # "db" => opened
  /\ part # "clients" => polite = CHOOSE p \in Polite : TRUE
  /\ part # "chat" => budget = CHOOSE b \in Budgets : TRUE

SNext ==
  /\ \/ part = "db" /\ Next /\ UNCHANGED << clients, mails, chat >>
     \/ part = "clients" /\ Server!Next /\ UNCHANGED << vars, mails, chat >>
     \/ part = "mails" /\ Mails!Next /\ UNCHANGED << vars, clients, chat >>
     \/ part = "chat" /\ Chats!Next /\ UNCHANGED << vars, clients, mails >>
  /\ UNCHANGED part

SSpec == SInit /\ [][SNext]_svars

-----------------------------------------------------------------------------
(* BackupExact is that of GameDb.                                           *)

(* MsgServer: no handshake is accepted twice.                                *)
NoReplay == Server!NoReplay

(* MsgServer: sockets, the sessions they belong to and logouts agree.         *)
BindingsExact == Server!BindingsExact

(* RoleMailbox: boxes stay within MAILBOX_LIMIT and keep the newest mails.    *)
BoxesBounded == Mails!BoxesBounded

(* Chat: messages reach each registered node once and in order, and go to the *)
(* players that are there.                                                  *)
Delivered == Chats!Delivered

\* Not true of the code, like BackupComplete: see the variations in README.md.
IpWhenConnected == Server!IpWhenConnected
AuthAtomic == Server!AuthAtomic
OnlyWhenFull == Mails!OnlyWhenFull
Subscriptions == Chats!Subscriptions
=============================================================================
