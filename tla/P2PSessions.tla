---------------------------- MODULE P2PSessions ----------------------------
(***************************************************************************)
(* What a node receives of the legacy P2P and of the networking messages   *)
(* (src/net.cpp): a queue per channel and local identity, and one          *)
(* P2PSessionRequest_t per sender and identity, which the pump decides on  *)
(* under the lock and posts after it, until the game closes the session.   *)
(* Sending is in Peers.                                                    *)
(***************************************************************************)
EXTENDS Naturals, Sequences, SequencesExt, Filtering

CONSTANTS
  Senders,      \* the other identities
  Channels,     \* the channels in use; 0 is the one CloseP2PSessionWithUser empties
  MaxBatch,     \* messages that ReceiveMessagesOnChannel may ask for
  MaxPackets,   \* bound: packets that arrive
  MaxClosings   \* bound: calls that close

ASSUME P2PAssumption ==
  /\ Channels \subseteq Nat /\ 0 \in Channels
  /\ MaxBatch \in Nat /\ MaxPackets \in Nat /\ MaxClosings \in Nat

VARIABLES
  inbox,         \* per side and channel, the packets, oldest first
  knownSessions, \* per side, the senders of which a request has been decided on
  announcing,    \* requests the pump has decided on and not posted: one at most
  requests,      \* history: the requests posted, [side, from, session] in order
  session,       \* history: per side and sender, how often it was closed
  arrived,       \* number of packets that have arrived
  closings       \* number of calls that closed

p2pVars == <<inbox, knownSessions, announcing, requests, session, arrived, closings>>

Side == {"client", "server"}
Packet == [from : Senders, session : 0..MaxClosings, number : 1..MaxPackets]
Request == [side : Side, from : Senders, session : 0..MaxClosings]

P2PInit ==
  /\ inbox = [s \in Side |-> [c \in Channels |-> << >>]]
  /\ knownSessions = [s \in Side |-> {}]
  /\ announcing = {} /\ requests = << >>
  /\ session = [s \in Side |-> [u \in Senders |-> 0]]
  /\ arrived = 0 /\ closings = 0

---------------------------------------------------------------------------
(* HandleData, under the lock: a packet for identity s, on channel c.      *)
Arrive(u, s, c) ==
  /\ announcing = {} /\ arrived < MaxPackets /\ arrived' = arrived + 1
  /\ inbox' = [inbox EXCEPT ![s][c] = Append(@,
       [from |-> u, session |-> session[s][u], number |-> arrived + 1])]
  /\ announcing' =
       IF u \in knownSessions[s] THEN {}
       ELSE {[side |-> s, from |-> u, session |-> session[s][u]]}
  /\ knownSessions' = [knownSessions EXCEPT ![s] = @ \cup {u}]
  /\ UNCHANGED <<requests, session, closings>>

(* HandleData, after the lock: the request of a new session is queued.     *)
PostRequest ==
  /\ \E r \in announcing : requests' = Append(requests, r)
  /\ announcing' = {}
  /\ UNCHANGED <<inbox, knownSessions, session, arrived, closings>>

(* The first n packets of a channel leave it.                              *)
Take(s, c, n) ==
  /\ inbox' = [inbox EXCEPT ![s][c] = SubSeq(@, n + 1, Len(@))]
  /\ UNCHANGED <<knownSessions, announcing, requests, session, arrived, closings>>

ReadP2PPacket(s, c) == inbox[s][c] /= << >> /\ Take(s, c, 1)

(* Networking messages are the client's only; as many as fit are given.    *)
ReceiveMessagesOnChannel(c) ==
  \E n \in 1..MaxBatch : n <= Len(inbox["client"][c]) /\ Take("client", c, n)

(* Mutant of Forget: the sender stays known. *)
ForgetNothing(s, u) == knownSessions[s]

Forget(s, u) == knownSessions[s] \ {u}

(* Accepting changes nothing.  Closing a channel forgets the session and   *)
(* drops what the sender has on that channel.                              *)
CloseP2PChannel(u, c, s) ==
  /\ closings < MaxClosings /\ closings' = closings + 1
  /\ knownSessions' = [knownSessions EXCEPT ![s] = Forget(s, u)]
  /\ inbox' = [inbox EXCEPT ![s][c] = SelectIn(@, {p \in Packet : p.from /= u})]
  /\ session' = [session EXCEPT ![s][u] = @ + 1]
  /\ UNCHANGED <<announcing, requests, arrived>>

(* CloseP2PSessionWithUser of either side and CloseSessionWithUser.        *)
CloseP2PSessionWithUser(u, s) == CloseP2PChannel(u, 0, s)

CloseChannelWithUser(u, c) == CloseP2PChannel(u, c, "client")

P2PNext ==
  \/ \E u \in Senders, s \in Side, c \in Channels : Arrive(u, s, c)
  \/ PostRequest
  \/ \E s \in Side, c \in Channels : ReadP2PPacket(s, c)
  \/ \E c \in Channels : ReceiveMessagesOnChannel(c)
  \/ \E u \in Senders, s \in Side : CloseP2PSessionWithUser(u, s)
  \/ \E u \in Senders, c \in Channels : CloseChannelWithUser(u, c)

P2PSpec == P2PInit /\ [][P2PNext]_p2pVars

---------------------------------------------------------------------------
P2PTypeOK ==
  /\ inbox \in [Side -> [Channels -> Seq(Packet)]]
  /\ knownSessions \in [Side -> SUBSET Senders]
  /\ announcing \subseteq Request /\ requests \in Seq(Request)
  /\ session \in [Side -> [Senders -> 0..MaxClosings]]
  /\ arrived \in 0..MaxPackets /\ closings \in 0..MaxClosings

(* The packets a game can read have been asked about: the session in which *)
(* a packet arrived, of its sender with that identity, was announced once, *)
(* before or while it was read, also when the game closed the session      *)
(* before the pump had posted the request; and on one channel the packets  *)
(* are in the order in which they arrived (HandleData, CloseP2PChannel).   *)
SessionsAnnounced ==
  /\ \A s \in Side, c \in Channels : \A i \in DOMAIN inbox[s][c] :
       LET p == inbox[s][c][i]
       IN /\ [side |-> s, from |-> p.from, session |-> p.session]
               \in announcing \cup ToSet(requests)
          /\ \A j \in 1..(i - 1) : inbox[s][c][j].number < p.number
  /\ \A i, j \in DOMAIN requests : requests[i] = requests[j] => i = j
  /\ announcing \cap ToSet(requests) = {}
=============================================================================
