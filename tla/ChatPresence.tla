---------------------------- MODULE ChatPresence ----------------------------
(***************************************************************************)
(* Who is online in the chat: the sockets of the gateway and the map of    *)
(* ChatPresenceService, which lives in the process.  A connection is       *)
(* authenticated asynchronously; its disconnection is handled when it      *)
(* happens, also in the middle of that.  The rooms and the broadcasts of   *)
(* user:online and user:offline carry no state and are left out.           *)
(***************************************************************************)

CONSTANTS
  Users, Sockets,
  UserOf                        \* [Sockets -> Users], by the access_token cookie

ASSUME SocketAssumption == UserOf \in [Sockets -> Users]

VARIABLES
  socket,                       \* [Sockets -> its state]
  socketsByUser                 \* [Users -> the sockets registered for them]

presVars == <<socket, socketsByUser>>

PresInit ==
  /\ socket = [k \in Sockets |-> "new"]
  /\ socketsByUser = [u \in Users |-> {}]

IsOnline(u) == socketsByUser[u] # {}
HasLiveSocket(u) == \E k \in Sockets : UserOf[k] = u /\ socket[k] = "live"

(* handleConnection is called, and awaits authenticateSocket.              *)
Connect(k) ==
  /\ socket[k] = "new"
  /\ socket' = [socket EXCEPT ![k] = "handshake"]
  /\ UNCHANGED socketsByUser

(* Mutant: only the socket that brings its user online is kept.            *)
AddSocket_FirstOnly(k) ==
  socketsByUser' = [socketsByUser EXCEPT ![UserOf[k]] = IF @ = {} THEN {k} ELSE @]

AddSocket(k) ==
  socketsByUser' = [socketsByUser EXCEPT ![UserOf[k]] = @ \cup {k}]

(* Nobody looks whether the socket has gone meanwhile ("lost").            *)
Authenticated(k) ==
  /\ socket[k] \in {"handshake", "lost"}
  /\ socket' = [socket EXCEPT ![k] = IF @ = "lost" THEN "gone" ELSE "live"]
  /\ AddSocket(k)

(* No cookie, a bad token: the socket is disconnected.                     *)
Unauthenticated(k) ==
  /\ socket[k] \in {"handshake", "lost"}
  /\ socket' = [socket EXCEPT ![k] = "gone"]
  /\ UNCHANGED socketsByUser

RemoveSockets(ks) ==
  socketsByUser' = [u \in Users |-> socketsByUser[u] \ ks]

(* handleDisconnect: without a client.data.userId it does nothing.         *)
Disconnect(k) ==
  \/ /\ socket[k] = "handshake"
     /\ socket' = [socket EXCEPT ![k] = "lost"]
     /\ UNCHANGED socketsByUser
  \/ /\ socket[k] = "live"
     /\ socket' = [socket EXCEPT ![k] = "gone"]
     /\ RemoveSockets({k})

(* handleSessionRevoked: whoever is in the room of the user, hence live.   *)
SessionRevoked(u) ==
  LET room == {k \in Sockets : UserOf[k] = u /\ socket[k] = "live"} IN
    /\ room # {}
    /\ socket' = [k \in Sockets |-> IF k \in room THEN "gone" ELSE socket[k]]
    /\ RemoveSockets(room)

(* The process stops: its sockets close and its map is gone.               *)
PresRestart ==
  /\ socket' = [k \in Sockets |-> IF socket[k] = "new" THEN "new" ELSE "gone"]
  /\ socketsByUser' = [u \in Users |-> {}]

PresNext ==
  \/ \E k \in Sockets :
       Connect(k) \/ Authenticated(k) \/ Unauthenticated(k) \/ Disconnect(k)
  \/ \E u \in Users : SessionRevoked(u)

PresTypeOK ==
  /\ socket \in [Sockets -> {"new", "handshake", "lost", "live", "gone"}]
  /\ socketsByUser \in [Users -> SUBSET Sockets]
=============================================================================
