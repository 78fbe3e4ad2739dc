------------------------------ MODULE Lobbies ------------------------------
(***************************************************************************)
(* Lobbies on a LAN (src/net.{h,cpp}): there is no server and no join      *)
(* handshake.  Every member multicasts its presence once a second; the     *)
(* owner's presence also carries the lobby's state; receivers merge what   *)
(* they hear and forget a member they have not heard for six seconds.      *)
(*                                                                         *)
(* One lobby, made by Creator, seen by Nodes: processes with one game      *)
(* thread and one pump thread each.  Lobby data, member data and the       *)
(* registered game server are single values of Values instead of maps of   *)
(* strings.  Clocks are abstracted: as presence may be lost for any time,  *)
(* any member but oneself may be found silent for too long at any moment.  *)
(***************************************************************************)
EXTENDS Naturals, Sequences, FiniteSets

CONSTANTS
  Nodes, Creator,
  NoOne,        \* the invalid SteamID
  Values,       \* what can be set
  Nothing,      \* a value that was never set
  JoinUnheard,  \* may a game join a lobby no presence was heard of?
  Duplicates,   \* may a datagram arrive more than once?
  MaxInFlight,  \* bound: datagrams on the way from one node to another; the
                \* network reorders them if it is more than one
  MaxSets,      \* bound: values set in one behaviour
  Restarting    \* the nodes whose process may restart, once in a behaviour

ASSUME LobbiesAssumption ==
  /\ Creator \in Nodes
  /\ NoOne \notin Nodes
  /\ Nothing \notin Values
  /\ JoinUnheard \in BOOLEAN /\ Duplicates \in BOOLEAN
  /\ MaxInFlight \in Nat \ {0}
  /\ MaxSets \in Nat
  /\ Restarting \subseteq Nodes

VARIABLES
  lobbies,    \* per node, its Lobby entry, if it has one
  created,    \* has Creator's process made the lobby?
  telling,    \* per node, callbacks its pump has decided on and not queued yet
  chan,       \* per sender and receiver, the presence datagrams on the way
  sets,       \* number of values set
  restarted,  \* the nodes that have restarted
  told,       \* history: lobby data as the game last had occasion to read it
  toldGs,     \* history: gsUpdate of the last LobbyGameCreated_t, 0 if none
  gsAtJoin    \* history: gsUpdate of the entry when the game joined

vars == <<lobbies, created, telling, chan, sets, restarted, told, toldGs, gsAtJoin>>
history == <<told, toldGs, gsAtJoin>>

Value == Values \cup {Nothing}

Lobby == [owner : Nodes \cup {NoOne}, joined : BOOLEAN, watched : BOOLEAN,
          joinable : BOOLEAN, data : Value, members : SUBSET Nodes,
          memberData : [Nodes -> Value], gs : Value, gsUpdate : Nat]

(* LobbyMsg; its sender is known by the channel.  What only the owner      *)
(* sends is Nothing or 0 in the presence of another.                       *)
LobbyMsg == [ownerID : Nodes \cup {NoOne}, isOwner : BOOLEAN, joinable : BOOLEAN,
             data : Value, memberData : Value, gs : Value, gsUpdate : Nat]

(* A fresh entry of the lobbies map. *)
Blank == [owner |-> NoOne, joined |-> FALSE, watched |-> FALSE, joinable |-> TRUE,
          data |-> Nothing, members |-> {}, memberData |-> [n \in Nodes |-> Nothing],
          gs |-> Nothing, gsUpdate |-> 0]

Events == {"chatUpdate", "data", "memberData", "gameCreated"}

Knows(n) == lobbies[n] # << >>
Entry(n) == IF Knows(n) THEN lobbies[n][1] ELSE Blank
Joined(n) == Entry(n).joined
(* Mutant of Put: the entry is added beside the one that is there. *)
PutAnother(n, lb) == lobbies' = [lobbies EXCEPT ![n] = Append(@, lb)]
Put(n, lb) == lobbies' = [lobbies EXCEPT ![n] = <<lb>>]

TypeOK ==
  /\ lobbies \in [Nodes -> Seq(Lobby)]
  /\ \A n \in Nodes : Len(lobbies[n]) <= 1
  /\ created \in BOOLEAN
  /\ telling \in [Nodes -> SUBSET Events]
  /\ chan \in [Nodes -> [Nodes -> SUBSET LobbyMsg]]
  /\ sets \in 0..MaxSets
  /\ restarted \subseteq Restarting
  /\ told \in [Nodes -> Value]
  /\ toldGs \in [Nodes -> Nat]
  /\ gsAtJoin \in [Nodes -> Nat]

Init ==
  /\ lobbies = [n \in Nodes |-> << >>]
  /\ created = FALSE
  /\ telling = [n \in Nodes |-> {}]
  /\ chan = [n \in Nodes |-> [m \in Nodes |-> {}]]
  /\ sets = 0
  /\ restarted = {}
  /\ told = [n \in Nodes |-> Nothing]
  /\ toldGs = [n \in Nodes |-> 0]
  /\ gsAtJoin = [n \in Nodes |-> 0]

-----------------------------------------------------------------------------
(* The game's calls *)

(* The histories are about a lobby the game is in or watches. *)
Forget(n, alsoData) ==
  /\ told' = [told EXCEPT ![n] = IF alsoData THEN Nothing ELSE @]
  /\ toldGs' = [toldGs EXCEPT ![n] = 0]
  /\ gsAtJoin' = [gsAtJoin EXCEPT ![n] = 0]

(* The game is told what the entry holds when it enters the lobby. *)
Enter(n, lb) ==
  /\ Put(n, lb)
  /\ told' = [told EXCEPT ![n] = lb.data]
  /\ toldGs' = [toldGs EXCEPT ![n] = 0]
  /\ gsAtJoin' = [gsAtJoin EXCEPT ![n] = lb.gsUpdate]
  /\ UNCHANGED <<telling, chan, sets, restarted>>

(* The id carries a per-process counter, so one process makes it once; the *)
(* entry may exist already, from the presence of the members of a lobby    *)
(* made before the process restarted.                                      *)
CreateLobby(n) ==
  /\ n = Creator
  /\ ~created
  /\ created' = TRUE
  /\ Enter(n, [Entry(n) EXCEPT !.owner = n, !.joinable = TRUE, !.joined = TRUE,
                               !.members = @ \cup {n}])

JoinLobby(n) ==
  /\ ~Joined(n)
  /\ Knows(n) \/ (JoinUnheard /\ created)
  /\ UNCHANGED created
  /\ Enter(n, [Entry(n) EXCEPT !.joined = TRUE, !.members = @ \cup {n}])

(* Mutant of LeaveLobby: the node stays among its own members. *)
LeaveStillMember(n) ==
  /\ Joined(n)
  /\ Put(n, [Entry(n) EXCEPT !.joined = FALSE])
  /\ Forget(n, ~Entry(n).watched)
  /\ UNCHANGED <<created, telling, chan, sets, restarted>>

LeaveLobby(n) ==
  /\ Joined(n)
  /\ Put(n, [Entry(n) EXCEPT !.joined = FALSE, !.members = @ \ {n}])
  /\ Forget(n, ~Entry(n).watched)
  /\ UNCHANGED <<created, telling, chan, sets, restarted>>

(* The lobby need only be known. *)
MaySet(n) ==
  /\ Knows(n)
  /\ sets < MaxSets
  /\ sets' = sets + 1

(* Anyone may set the data locally; only the owner's counts. *)
SetLobbyData(n, v) ==
  /\ MaySet(n)
  /\ Put(n, [Entry(n) EXCEPT !.data = v])
  /\ told' = [told EXCEPT ![n] = v]
  /\ UNCHANGED <<created, telling, chan, restarted, toldGs, gsAtJoin>>

SetLobbyJoinable(n, joinable) ==
  /\ MaySet(n)
  /\ Put(n, [Entry(n) EXCEPT !.joinable = joinable])
  /\ UNCHANGED <<created, telling, chan, restarted, history>>

SetLobbyMemberData(n, v) ==
  /\ MaySet(n)
  /\ Put(n, [Entry(n) EXCEPT !.memberData[n] = v])
  /\ UNCHANGED <<created, telling, chan, restarted, history>>

(* Called by the owner, who gets the two callbacks as well. *)
SetLobbyGameServer(n, v) ==
  /\ MaySet(n)
  /\ Entry(n).owner = n
  /\ Put(n, [Entry(n) EXCEPT !.gs = v, !.gsUpdate = @ + 1])
  /\ toldGs' = [toldGs EXCEPT ![n] = Entry(n).gsUpdate + 1]
  /\ told' = [told EXCEPT ![n] = Entry(n).data]
  /\ UNCHANGED <<created, telling, chan, restarted, gsAtJoin>>

(* RequestLobbyData: its own callback comes at once. *)
RequestLobbyData(n) ==
  /\ Knows(n)
  /\ Put(n, [Entry(n) EXCEPT !.watched = TRUE])
  /\ told' = [told EXCEPT ![n] = Entry(n).data]
  /\ UNCHANGED <<created, telling, chan, sets, restarted, toldGs, gsAtJoin>>

-----------------------------------------------------------------------------
(* The pump thread *)

Owns(n) == Entry(n).owner = n

Presence(n) ==
  [ownerID |-> Entry(n).owner,
   isOwner |-> Owns(n),
   joinable |-> Entry(n).joinable,
   data |-> IF Owns(n) THEN Entry(n).data ELSE Nothing,
   memberData |-> Entry(n).memberData[n],
   gs |-> IF Owns(n) THEN Entry(n).gs ELSE Nothing,
   gsUpdate |-> IF Owns(n) THEN Entry(n).gsUpdate ELSE 0]

(* The presence is built under the lock and multicast after; got are the   *)
(* nodes it is not lost to.  A node drops its own echo.                    *)
SendLobbyPresence(n, got) ==
  /\ telling[n] = {}
  /\ Joined(n)
  /\ got \subseteq Nodes \ {n}
  /\ \A r \in got : Cardinality(chan[n][r]) < MaxInFlight
  /\ chan' = [chan EXCEPT ![n] =
                [r \in Nodes |-> IF r \in got THEN chan[n][r] \cup {Presence(n)}
                                              ELSE chan[n][r]]]
  /\ UNCHANGED <<created, lobbies, telling, sets, restarted, history>>

(* Mutant of MergeOwner: the whole state is taken only with a new server. *)
MergeOwnerWithServer(lb, m) ==
  IF ~m.isOwner \/ m.gsUpdate = lb.gsUpdate THEN lb
  ELSE [lb EXCEPT !.joinable = m.joinable, !.data = m.data,
                  !.gs = m.gs, !.gsUpdate = m.gsUpdate]

(* The entry after a presence m from s: what only the owner sends ... *)
MergeOwner(lb, m) ==
  IF ~m.isOwner THEN lb
  ELSE [lb EXCEPT !.joinable = m.joinable, !.data = m.data,
                  !.gs = IF m.gsUpdate # lb.gsUpdate THEN m.gs ELSE @,
                  !.gsUpdate = m.gsUpdate]

(* Mutant of Merge: whoever speaks is the owner. *)
MergeSenderOwns(lb, m, s) ==
  [MergeOwner(lb, m) EXCEPT
     !.owner = s,
     !.memberData[s] = IF m.memberData # Nothing THEN m.memberData ELSE @,
     !.members = @ \cup {s}]

(* ... and what every member sends; the owner is taken from anyone. *)
Merge(lb, m, s) ==
  [MergeOwner(lb, m) EXCEPT
     !.owner = m.ownerID,
     !.memberData[s] = IF m.memberData # Nothing THEN m.memberData ELSE @,
     !.members = @ \cup {s}]

(* Mutant of News: the watchers of a lobby are forgotten. *)
NewsToMembers(old, new) ==
  {e \in Events :
     CASE e = "chatUpdate" -> old.joined /\ new.members # old.members
       [] e = "data" -> old.joined /\ new.data # old.data
       [] e = "memberData" -> old.joined /\ new.memberData # old.memberData
       [] e = "gameCreated" ->
            old.joined /\ new.gsUpdate # old.gsUpdate /\ new.gsUpdate # 0}

(* What the game is to be told of the change from old to new. *)
News(old, new) ==
  {e \in Events :
     CASE e = "chatUpdate" -> old.joined /\ new.members # old.members
       [] e = "data" -> (old.joined \/ old.watched) /\ new.data # old.data
       [] e = "memberData" -> old.joined /\ new.memberData # old.memberData
       [] e = "gameCreated" ->
            old.joined /\ new.gsUpdate # old.gsUpdate /\ new.gsUpdate # 0}

HandleLobbyMsg(n, s, m) ==
  /\ telling[n] = {}
  /\ m \in chan[s][n]
  /\ LET new == Merge(Entry(n), m, s)
     IN  Put(n, new) /\ telling' = [telling EXCEPT ![n] = News(Entry(n), new)]
  /\ \/ chan' = [chan EXCEPT ![s][n] = @ \ {m}]
     \/ Duplicates /\ UNCHANGED chan
  /\ UNCHANGED <<created, sets, restarted, history>>

(* The callbacks are queued after the lock is released. *)
Tell(n) ==
  /\ telling[n] # {}
  /\ telling' = [telling EXCEPT ![n] = {}]
  /\ told' = [told EXCEPT ![n] = IF "data" \in telling[n] THEN Entry(n).data ELSE @]
  /\ toldGs' = [toldGs EXCEPT ![n] =
                  IF "gameCreated" \in telling[n] THEN Entry(n).gsUpdate ELSE @]
  /\ UNCHANGED <<created, lobbies, chan, sets, restarted, gsAtJoin>>

(* Mutant of ExpireMember: only in the lobbies the node is in. *)
ExpireWhereJoined(n, m) ==
  /\ telling[n] = {}
  /\ Joined(n)
  /\ m \in Entry(n).members \ {n}
  /\ Put(n, [Entry(n) EXCEPT !.members = @ \ {m}, !.memberData[m] = Nothing])
  /\ UNCHANGED <<created, telling, chan, sets, restarted, history>>

(* A member not heard for kLobbyMemberTimeoutMs; the game is not told. *)
ExpireMember(n, m) ==
  /\ telling[n] = {}
  /\ m \in Entry(n).members \ {n}
  /\ Put(n, [Entry(n) EXCEPT !.members = @ \ {m}, !.memberData[m] = Nothing])
  /\ UNCHANGED <<created, telling, chan, sets, restarted, history>>

(* A lobby the node is not in and has not heard of for as long. *)
ExpireLobby(n) ==
  /\ telling[n] = {}
  /\ Knows(n) /\ ~Joined(n)
  /\ lobbies' = [lobbies EXCEPT ![n] = << >>]
  /\ Forget(n, TRUE)
  /\ UNCHANGED <<created, telling, chan, sets, restarted>>

(* The process ends without a word and starts again. *)
Restart(n) ==
  /\ n \in Restarting \ restarted
  /\ restarted' = restarted \cup {n}
  /\ created' = (created /\ n # Creator)
  /\ lobbies' = [lobbies EXCEPT ![n] = << >>]
  /\ telling' = [telling EXCEPT ![n] = {}]
  /\ Forget(n, TRUE)
  /\ UNCHANGED <<chan, sets>>

-----------------------------------------------------------------------------
GameCall(n) ==
  \/ CreateLobby(n) \/ JoinLobby(n) \/ LeaveLobby(n) \/ RequestLobbyData(n)
  \/ \E v \in Values :
       SetLobbyData(n, v) \/ SetLobbyMemberData(n, v) \/ SetLobbyGameServer(n, v)
  \/ \E joinable \in BOOLEAN : SetLobbyJoinable(n, joinable)

Pump(n) ==
  \/ \E got \in SUBSET (Nodes \ {n}) : SendLobbyPresence(n, got)
  \/ \E s \in Nodes : \E m \in chan[s][n] : HandleLobbyMsg(n, s, m)
  \/ Tell(n)
  \/ \E m \in Nodes : ExpireMember(n, m)
  \/ ExpireLobby(n)

Next == \E n \in Nodes : GameCall(n) \/ Pump(n) \/ Restart(n)

Spec == Init /\ [][Next]_vars

(* The pump thread runs for ever, presence does not always get lost, and   *)
(* silence is noticed.                                                     *)
FairSpec ==
  /\ Spec
  /\ \A n \in Nodes :
       /\ WF_vars(Tell(n))
       /\ SF_vars(SendLobbyPresence(n, Nodes \ {n}))
       /\ \A m \in Nodes \ {n} :
            /\ SF_vars(\E msg \in chan[m][n] : HandleLobbyMsg(n, m, msg))
            /\ SF_vars(ExpireMember(n, m))
-----------------------------------------------------------------------------
(* Properties *)

(* Every node knows the lobby's owner, the owner itself included: presence *)
(* relayed by any member, in any order, never makes anyone forget it.      *)
OwnersAgree == \A n \in Nodes : Knows(n) => Entry(n).owner = Creator

(* A node is among its members exactly while its game is in the lobby; it  *)
(* never expires itself, and no late datagram makes it a member again.     *)
SelfMember == \A n \in Nodes : Joined(n) <=> n \in Entry(n).members

(* A game that rereads the lobby whenever it is told of a change is never  *)
(* out of date, in a lobby it is in or watches; and while in the lobby it  *)
(* has been told of the game server, unless it was known when it joined.   *)
NoMissedUpdate ==
  \A n \in Nodes :
    Knows(n) /\ telling[n] = {} =>
      /\ Joined(n) \/ Entry(n).watched => told[n] = Entry(n).data
      /\ Joined(n) => Entry(n).gsUpdate \in {0, gsAtJoin[n], toldGs[n]}

(* The owner of a lobby it is in stays its owner. *)
OwnerStays ==
  [][\A n \in Nodes : Joined(n) /\ Owns(n) /\ Joined(n)' => Owns(n)']_vars

(* Every member that knows of a registered game server was told of it,     *)
(* also one that joined after it was registered.                           *)
JoinerIsTold ==
  \A n \in Nodes \ {Creator} :
    Joined(n) /\ telling[n] = {} => Entry(n).gsUpdate \in {0, toldGs[n]}

(* While owner and member stay, the member's copy of the lobby data        *)
(* becomes the owner's and stays it, whatever was lost before.             *)
DataConverges ==
  \A n \in Nodes \ {Creator}, v \in Values :
    <>[](Joined(Creator) /\ Joined(n) /\ Entry(Creator).data = v)
      => <>[](Entry(n).data = v)

(* A node that stays out of the lobby is not for ever counted among its    *)
(* members by those who know the lobby.                                    *)
SilentMemberExpires ==
  \A n \in Nodes : \A m \in Nodes \ {n} :
    <>[]~Joined(m) => <>[](m \notin Entry(n).members)
=============================================================================
