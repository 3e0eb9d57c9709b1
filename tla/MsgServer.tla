------------------------------ MODULE MsgServer ------------------------------
(***************************************************************************)
(* lualib/snax/msg_server.lua: sockets, handshakes and the sessions they    *)
(* belong to.  A username is used for one session only (gated.lua draws a    *)
(* fresh internal_id for it) and a socket id for one connection only.        *)
(*                                                                         *)
(* Skynet's gateserver is external: closeclient(fd) stops the delivery of    *)
(* messages and the socket's close event comes later, as it does when the    *)
(* peer goes away.                                                          *)
(***************************************************************************)
EXTENDS Naturals, FiniteSets, Sequences, SequencesExt

CONSTANTS
  User,        \* usernames
  Fd,          \* sockets
  None,        \* Lua nil
  MaxIndex,    \* bound: handshake indexes 1 .. MaxIndex
  Polite       \* the values that polite may have

\* What is assumed of them.
Constants == Polite \subseteq BOOLEAN /\ MaxIndex \in Nat /\ None \notin User \cup Fd

VARIABLES
  session,     \* username -> "new", "online" (in user_online) or "out"
  version,     \* u.version
  ufd,         \* u.fd, or None; u.ip is the address of that socket
  handshake,   \* sockets that still have to shake hands
  connection,  \* fd -> username of the u it was bound to, or None
  auths,       \* do_auth calls that yield in auth_handler: [fd, u, idx]
  sock,        \* fd -> "unused", "open", "closing" (closeclient), "closed"
  accepted,    \* history: indexes accepted for each username, in order
  polite       \* whether clients wait for the answer to a handshake and come
               \* back only when their old socket is closed; never changes

vars == << session, version, ufd, handshake, connection, auths, sock, accepted, polite >>

Index == 1 .. MaxIndex

Init ==
  /\ session = [u \in User |-> "new"]
  /\ version = [u \in User |-> 0]
  /\ ufd = [u \in User |-> None]
  /\ handshake = {}
  /\ connection = [fd \in Fd |-> None]
  /\ auths = {}
  /\ sock = [fd \in Fd |-> "unused"]
  /\ accepted = [u \in User |-> << >>]
  /\ polite \in Polite

-----------------------------------------------------------------------------

(* gateserver.closeclient(fd) does nothing to a socket that is closing.     *)
closeclient(fd) ==
  sock' = [sock EXCEPT ![fd] = IF @ = "open" THEN "closing" ELSE @]

(* server.login                                                             *)
Login(u) ==
  /\ session[u] = "new"
  /\ session' = [session EXCEPT ![u] = "online"]
  /\ UNCHANGED << version, ufd, handshake, connection, auths, sock, accepted >>

\* mutated: the entry of the connection stays
MutLogout(u) ==
  /\ session[u] = "online"
  /\ session' = [session EXCEPT ![u] = "out"]
  /\ UNCHANGED << version, ufd, handshake, connection, auths, sock, accepted >>

(* server.logout: the socket the session knows of is closed and unbound.    *)
Logout(u) ==
  /\ session[u] = "online"
  /\ session' = [session EXCEPT ![u] = "out"]
  /\ IF ufd[u] = None
       THEN UNCHANGED << connection, sock >>
       ELSE /\ closeclient(ufd[u])
            /\ connection' = [connection EXCEPT ![ufd[u]] = None]
  /\ UNCHANGED << version, ufd, handshake, auths, accepted >>

(* handler.connect                                                          *)
Connect(fd) ==
  /\ sock[fd] = "unused"
  /\ sock' = [sock EXCEPT ![fd] = "open"]
  /\ handshake' = handshake \cup {fd}
  /\ UNCHANGED << session, version, ufd, connection, auths, accepted >>

\* mutated: the connection is unbound, u.fd stays
MutDisconnectKeepFd(fd) ==
  /\ sock[fd] \in {"open", "closing"}
  /\ sock' = [sock EXCEPT ![fd] = "closed"]
  /\ handshake' = handshake \ {fd}
  /\ connection' = [connection EXCEPT ![fd] = None]
  /\ UNCHANGED << session, version, ufd, auths, accepted >>

(* handler.disconnect, for a socket closed by either side: the u bound to    *)
(* the socket loses its fd, whichever fd that is by now.                     *)
Disconnect(fd) ==
  /\ sock[fd] \in {"open", "closing"}
  /\ sock' = [sock EXCEPT ![fd] = "closed"]
  /\ handshake' = handshake \ {fd}
  /\ connection' = [connection EXCEPT ![fd] = None]
  /\ ufd' = [u \in User |-> IF connection[fd] = u THEN None ELSE ufd[u]]
  /\ UNCHANGED << session, version, auths, accepted >>

-----------------------------------------------------------------------------
(* handler.message: the first message of a socket is its handshake.          *)

ClientMaySend(fd) == polite => \A c \in auths : c.fd # fd
ClientMayReturn(u) == polite => \A fd \in Fd : connection[fd] # u

\* mutated: an index may be used again
MutDoAuth(fd, u, idx) ==
  /\ session[u] = "online"
  /\ idx >= version[u]
  /\ version' = [version EXCEPT ![u] = idx]
  /\ ufd' = [ufd EXCEPT ![u] = fd]
  /\ connection' = [connection EXCEPT ![fd] = u]
  /\ auths' = auths \cup {[fd |-> fd, u |-> u, idx |-> idx]}
  /\ accepted' = [accepted EXCEPT ![u] = Append(@, idx)]


(* do_auth with a known username, a fresh index and the right hmac, up to   *)
(* the call of auth_handler, which yields.                                   *)
DoAuth(fd, u, idx) ==
  /\ session[u] = "online"
  /\ idx > version[u]
  /\ version' = [version EXCEPT ![u] = idx]
  /\ ufd' = [ufd EXCEPT ![u] = fd]
  /\ connection' = [connection EXCEPT ![fd] = u]
  /\ auths' = auths \cup {[fd |-> fd, u |-> u, idx |-> idx]}
  /\ accepted' = [accepted EXCEPT ![u] = Append(@, idx)]

Auth(fd) ==
  /\ sock[fd] = "open" /\ fd \in handshake
  /\ ClientMaySend(fd)
  /\ \E u \in User, idx \in Index : ClientMayReturn(u) /\ DoAuth(fd, u, idx)
  /\ UNCHANGED << session, handshake, sock >>

(* auth() of a handshake that do_auth refuses (404, 403, 401) or fails on    *)
(* (400): answered, closed, and no handshake is awaited any more.           *)
AuthRefused(fd) ==
  /\ sock[fd] = "open" /\ fd \in handshake
  /\ ClientMaySend(fd)
  /\ closeclient(fd)
  /\ handshake' = handshake \ {fd}
  /\ UNCHANGED << session, version, ufd, connection, auths, accepted >>

(* auth() after auth_handler returned (200) or raised (400).                *)
AuthReturn(c, ok) ==
  /\ auths' = auths \ {c}
  /\ handshake' = handshake \ {c.fd}
  /\ IF ok THEN UNCHANGED sock ELSE closeclient(c.fd)
  /\ UNCHANGED << session, version, ufd, connection, accepted >>

Handler ==
  \/ \E u \in User : Login(u) \/ Logout(u)
  \/ \E fd \in Fd : Connect(fd) \/ Disconnect(fd) \/ Auth(fd) \/ AuthRefused(fd)
  \/ \E c \in auths, ok \in BOOLEAN : AuthReturn(c, ok)

Next == Handler /\ UNCHANGED polite

Spec == Init /\ [][Next]_vars

-----------------------------------------------------------------------------

TypeOK ==
  /\ session \in [User -> {"new", "online", "out"}]
  /\ version \in [User -> Nat]
  /\ ufd \in [User -> Fd \cup {None}]
  /\ handshake \subseteq Fd
  /\ connection \in [Fd -> User \cup {None}]
  /\ auths \subseteq [fd : Fd, u : User, idx : Nat]
  /\ sock \in [Fd -> {"unused", "open", "closing", "closed"}]
  /\ accepted \in [User -> Seq(Nat)]
  /\ polite \in BOOLEAN

(* msg_server.lua:190-200: no handshake is accepted twice, even when do_auth *)
(* is entered again, on any socket, before an earlier one was answered.      *)
NoReplay ==
  \A u \in User : \A i, j \in DOMAIN accepted[u] :
    i < j => accepted[u][i] < accepted[u][j]

\* Nothing is kept for a socket that closed, though the close may come while
\* its handshake yields in auth_handler.
NothingKept ==
  \A fd \in Fd : sock[fd] = "closed" => connection[fd] = None /\ fd \notin handshake

\* The fd a session would close at logout is a live socket bound to that very
\* session.
FdIsBound ==
  \A u \in User : session[u] = "online" /\ ufd[u] # None =>
    connection[ufd[u]] = u /\ sock[ufd[u]] \in {"open", "closing"}

\* After a logout no open socket is bound to the session: no request of it is
\* forwarded any more.
LogoutUnbinds ==
  \A fd \in Fd : connection[fd] # None /\ session[connection[fd]] = "out" =>
    sock[fd] # "open"

(* msg_server.lua:100-107, 162-172: the tables of sockets and of sessions     *)
(* agree with the sockets there are and, with polite clients, with each      *)
(* other, whatever closes or shakes hands during a handshake; and a logout   *)
(* cuts a polite client off.                                               *)
BindingsExact == NothingKept /\ (polite => FdIsBound /\ LogoutUnbinds)

(* msg_server.lua:58-59: "server.ip(username) return ip when connection     *)
(* establish, or nil": an online user with an established connection has an  *)
(* address.                                                                 *)
IpWhenConnected ==
  \A fd \in Fd :
    connection[fd] # None /\ session[connection[fd]] = "online"
      /\ sock[fd] = "open" /\ fd \notin handshake => ufd[connection[fd]] # None

(* msg_server.lua:180 "atomic , no yield": one handshake at a time on a      *)
(* socket.                                                                  *)
AuthAtomic == \A c, d \in auths : c.fd = d.fd => c = d
==============================================================================
