---------------------------- MODULE LobbiesProofs ----------------------------
(***************************************************************************)
(* Proofs about Lobbies, for any number of nodes, datagrams and restarts:  *)
(* its types; that all who know the lobby know its owner, if nobody joins  *)
(* it unheard of; that a node is its own member while it has joined; and   *)
(* that the game misses no change.                                         *)
(***************************************************************************)
EXTENDS Lobbies, TLAPS

-----------------------------------------------------------------------------
(* Entries *)

LEMMA BlankTyped == Blank \in Lobby
  BY LobbiesAssumption DEF Blank, Lobby, Value

LEMMA EntryTyped ==
  ASSUME TypeOK, NEW n \in Nodes
  PROVE  Entry(n) \in Lobby
<1>1. CASE Knows(n)
  <2>1. lobbies[n] \in Seq(Lobby) /\ lobbies[n] # << >>
    BY <1>1 DEF TypeOK, Knows
  <2> QED BY <2>1, <1>1 DEF Entry
<1>2. CASE ~Knows(n)
  BY <1>2, BlankTyped DEF Entry
<1> QED BY <1>1, <1>2

(* Who has joined a lobby knows it. *)
LEMMA JoinedKnows ==
  ASSUME NEW n \in Nodes, Joined(n)
  PROVE  Knows(n)
  BY DEF Joined, Entry, Blank

(* After a Put the node's entry is the one put, and no other has changed.  *)
LEMMA PutFacts ==
  ASSUME TypeOK, NEW n \in Nodes, NEW lb \in Lobby, Put(n, lb)
  PROVE  /\ lobbies' \in [Nodes -> Seq(Lobby)]
         /\ \A k \in Nodes : Len(lobbies'[k]) <= 1
         /\ Knows(n)' /\ Entry(n)' = lb
         /\ \A k \in Nodes \ {n} : (Knows(k)' <=> Knows(k)) /\ Entry(k)' = Entry(k)
<1>1. lobbies' = [lobbies EXCEPT ![n] = <<lb>>] /\ lobbies \in [Nodes -> Seq(Lobby)]
  BY DEF Put, TypeOK
<1>2. <<lb>> \in Seq(Lobby) /\ Len(<<lb>>) = 1 /\ <<lb>> # << >> /\ <<lb>>[1] = lb
  OBVIOUS
<1>3. lobbies'[n] = <<lb>> /\ \A k \in Nodes \ {n} : lobbies'[k] = lobbies[k]
  BY <1>1
<1>4. Knows(n)' /\ Entry(n)' = lb
  BY <1>2, <1>3 DEF Knows, Entry
<1>5. \A k \in Nodes \ {n} : (Knows(k)' <=> Knows(k)) /\ Entry(k)' = Entry(k)
  BY <1>3 DEF Knows, Entry
<1>6. ASSUME NEW k \in Nodes PROVE Len(lobbies'[k]) <= 1
  <2>1. CASE k = n
    BY <2>1, <1>2, <1>3
  <2>2. CASE k # n
    <3>1. lobbies'[k] = lobbies[k]
      BY <2>2, <1>3
    <3> QED BY <3>1 DEF TypeOK
  <2> QED BY <2>1, <2>2
<1> QED BY <1>1, <1>2, <1>4, <1>5, <1>6

(* So it is for an entry that is dropped. *)
LEMMA DropFacts ==
  ASSUME TypeOK, NEW n \in Nodes, lobbies' = [lobbies EXCEPT ![n] = << >>]
  PROVE  /\ lobbies' \in [Nodes -> Seq(Lobby)]
         /\ \A k \in Nodes : Len(lobbies'[k]) <= 1
         /\ ~Knows(n)' /\ Entry(n)' = Blank
         /\ \A k \in Nodes \ {n} : (Knows(k)' <=> Knows(k)) /\ Entry(k)' = Entry(k)
<1>1. lobbies \in [Nodes -> Seq(Lobby)] /\ << >> \in Seq(Lobby) /\ Len(<< >>) = 0
  BY DEF TypeOK
<1>2. lobbies'[n] = << >> /\ \A k \in Nodes \ {n} : lobbies'[k] = lobbies[k]
  BY <1>1
<1>3. ~Knows(n)' /\ Entry(n)' = Blank
  BY <1>2 DEF Knows, Entry, Blank
<1>4. \A k \in Nodes \ {n} : (Knows(k)' <=> Knows(k)) /\ Entry(k)' = Entry(k)
  BY <1>2 DEF Knows, Entry
<1>5. \A k \in Nodes : Len(lobbies'[k]) <= 1
  BY <1>1, <1>2 DEF TypeOK
<1> QED BY <1>1, <1>3, <1>4, <1>5

(* The entry a presence makes is that of the sender's owner, with the      *)
(* sender among its members, and the game stays in it or out of it.        *)
LEMMA MergeFacts ==
  ASSUME NEW lb \in Lobby, NEW m \in LobbyMsg, NEW s \in Nodes
  PROVE  /\ Merge(lb, m, s) \in Lobby
         /\ Merge(lb, m, s).owner = m.ownerID
         /\ Merge(lb, m, s).members = lb.members \cup {s}
         /\ Merge(lb, m, s).joined = lb.joined
         /\ Merge(lb, m, s).watched = lb.watched
<1> DEFINE mo == MergeOwner(lb, m)
<1>1. /\ mo \in Lobby /\ mo.members = lb.members
      /\ mo.joined = lb.joined /\ mo.watched = lb.watched
  BY DEF MergeOwner, Lobby, LobbyMsg
<1> DEFINE data == [mo.memberData EXCEPT ![s] = IF m.memberData # Nothing THEN m.memberData ELSE @]
<1>2. Merge(lb, m, s) =
        [[[mo EXCEPT !.owner = m.ownerID] EXCEPT !.memberData = data]
           EXCEPT !.members = mo.members \cup {s}]
  BY <1>1 DEF Merge, Lobby
<1> HIDE DEF mo
<1>3. data \in [Nodes -> Value]
  BY <1>1 DEF Lobby, LobbyMsg
<1> HIDE DEF data
<1> DEFINE own == [mo EXCEPT !.owner = m.ownerID]
<1>4. /\ own \in Lobby /\ own.owner = m.ownerID /\ own.members = lb.members
      /\ own.joined = lb.joined /\ own.watched = lb.watched
  BY <1>1 DEF Lobby, LobbyMsg
<1>5. Merge(lb, m, s) =
        [[own EXCEPT !.memberData = data] EXCEPT !.members = lb.members \cup {s}]
  BY <1>1, <1>2
<1> HIDE DEF own
<1> DEFINE said == [own EXCEPT !.memberData = data]
<1>6. /\ said \in Lobby /\ said.owner = m.ownerID /\ said.members = lb.members
      /\ said.joined = lb.joined /\ said.watched = lb.watched
  BY <1>3, <1>4 DEF Lobby
<1>7. Merge(lb, m, s) = [said EXCEPT !.members = lb.members \cup {s}]
  BY <1>5
<1> HIDE DEF said
<1> QED BY <1>6, <1>7 DEF Lobby

LEMMA PresenceTyped ==
  ASSUME TypeOK, NEW n \in Nodes
  PROVE  Presence(n) \in LobbyMsg
<1>1. Entry(n) \in Lobby
  BY EntryTyped
<1> QED BY <1>1, LobbiesAssumption DEF Presence, Owns, Lobby, LobbyMsg, Value

-----------------------------------------------------------------------------
(* Types *)

LobbiesTyped ==
  lobbies \in [Nodes -> Seq(Lobby)] /\ \A k \in Nodes : Len(lobbies[k]) <= 1

(* What the game's calls put is an entry. *)
LEMMA CallsPut ==
  ASSUME TypeOK, NEW n \in Nodes
  PROVE  LET e == Entry(n)
         IN  /\ [e EXCEPT !.owner = n, !.joinable = TRUE, !.joined = TRUE,
                          !.members = @ \cup {n}] \in Lobby
             /\ [e EXCEPT !.joined = TRUE, !.members = @ \cup {n}] \in Lobby
             /\ [e EXCEPT !.joined = FALSE, !.members = @ \ {n}] \in Lobby
             /\ \A v \in Values : [e EXCEPT !.data = v] \in Lobby
             /\ \A j \in BOOLEAN : [e EXCEPT !.joinable = j] \in Lobby
             /\ \A v \in Values : [e EXCEPT !.memberData[n] = v] \in Lobby
             /\ \A v \in Values : [e EXCEPT !.gs = v, !.gsUpdate = @ + 1] \in Lobby
             /\ [e EXCEPT !.watched = TRUE] \in Lobby
<1> DEFINE e == Entry(n)
<1>1. e \in Lobby
  BY EntryTyped
<1> HIDE DEF e
<1> SUFFICES /\ [e EXCEPT !.owner = n, !.joinable = TRUE, !.joined = TRUE,
                          !.members = @ \cup {n}] \in Lobby
             /\ [e EXCEPT !.joined = TRUE, !.members = @ \cup {n}] \in Lobby
             /\ [e EXCEPT !.joined = FALSE, !.members = @ \ {n}] \in Lobby
             /\ \A v \in Values : [e EXCEPT !.data = v] \in Lobby
             /\ \A j \in BOOLEAN : [e EXCEPT !.joinable = j] \in Lobby
             /\ \A v \in Values : [e EXCEPT !.memberData[n] = v] \in Lobby
             /\ \A v \in Values : [e EXCEPT !.gs = v, !.gsUpdate = @ + 1] \in Lobby
             /\ [e EXCEPT !.watched = TRUE] \in Lobby
  BY DEF e
<1>2. /\ [e EXCEPT !.joined = TRUE, !.members = @ \cup {n}] \in Lobby
      /\ [e EXCEPT !.joined = FALSE, !.members = @ \ {n}] \in Lobby
      /\ [e EXCEPT !.owner = n, !.joinable = TRUE, !.joined = TRUE,
                   !.members = @ \cup {n}] \in Lobby
  BY <1>1 DEF Lobby
<1>3. \A v \in Values : [e EXCEPT !.data = v] \in Lobby
  BY <1>1 DEF Lobby, Value
<1>4. \A j \in BOOLEAN : [e EXCEPT !.joinable = j] \in Lobby
  BY <1>1 DEF Lobby
<1>5. \A v \in Values : [e EXCEPT !.memberData[n] = v] \in Lobby
  BY <1>1 DEF Lobby, Value
<1>6. ASSUME NEW v \in Values PROVE [e EXCEPT !.gs = v, !.gsUpdate = @ + 1] \in Lobby
  <2>1. [e EXCEPT !.gs = v] \in Lobby
    BY <1>1 DEF Lobby, Value
  <2>2. e.gsUpdate + 1 \in Nat
    BY <1>1 DEF Lobby
  <2> QED BY <2>1, <2>2 DEF Lobby
<1>7. [e EXCEPT !.watched = TRUE] \in Lobby
  BY <1>1 DEF Lobby
<1> QED BY <1>2, <1>3, <1>4, <1>5, <1>6, <1>7

LEMMA GameTyped ==
  ASSUME TypeOK, NEW n \in Nodes, GameCall(n)
  PROVE  TypeOK'
<1> USE LobbiesAssumption
<1>1. Entry(n) \in Lobby
  BY EntryTyped
<1>2. /\ told \in [Nodes -> Value] /\ toldGs \in [Nodes -> Nat]
      /\ gsAtJoin \in [Nodes -> Nat] /\ sets \in 0..MaxSets
  BY DEF TypeOK
<1>3. ASSUME MaySet(n) PROVE sets' \in 0..MaxSets
  BY <1>2, <1>3 DEF MaySet
<1>4. CASE CreateLobby(n)
  <2>1. LobbiesTyped'
    BY <1>4, CallsPut, PutFacts DEF CreateLobby, Enter, LobbiesTyped
  <2>2. history' \in [Nodes -> Value] \X [Nodes -> Nat] \X [Nodes -> Nat]
    BY <1>1, <1>2, <1>4 DEF CreateLobby, Enter, history, Lobby
  <2> QED BY <2>1, <2>2, <1>4 DEF CreateLobby, Enter, TypeOK, LobbiesTyped, history
<1>5. CASE JoinLobby(n)
  <2>1. LobbiesTyped'
    BY <1>5, CallsPut, PutFacts DEF JoinLobby, Enter, LobbiesTyped
  <2>2. history' \in [Nodes -> Value] \X [Nodes -> Nat] \X [Nodes -> Nat]
    BY <1>1, <1>2, <1>5 DEF JoinLobby, Enter, history, Lobby
  <2> QED BY <2>1, <2>2, <1>5 DEF JoinLobby, Enter, TypeOK, LobbiesTyped, history
<1>6. CASE LeaveLobby(n)
  <2>1. LobbiesTyped'
    BY <1>6, CallsPut, PutFacts DEF LeaveLobby, LobbiesTyped
  <2>2. history' \in [Nodes -> Value] \X [Nodes -> Nat] \X [Nodes -> Nat]
    BY <1>2, <1>6 DEF LeaveLobby, Forget, history, Value
  <2> QED BY <2>1, <2>2, <1>6 DEF LeaveLobby, TypeOK, LobbiesTyped, history
<1>7. CASE RequestLobbyData(n)
  <2>1. LobbiesTyped'
    BY <1>7, CallsPut, PutFacts DEF RequestLobbyData, LobbiesTyped
  <2>2. told' \in [Nodes -> Value]
    BY <1>1, <1>2, <1>7 DEF RequestLobbyData, Lobby
  <2> QED BY <2>1, <2>2, <1>7 DEF RequestLobbyData, TypeOK, LobbiesTyped
<1>8. ASSUME NEW v \in Values, SetLobbyData(n, v) PROVE TypeOK'
  <2>1. LobbiesTyped'
    BY <1>8, CallsPut, PutFacts DEF SetLobbyData, LobbiesTyped
  <2>2. told' \in [Nodes -> Value] /\ sets' \in 0..MaxSets
    BY <1>2, <1>3, <1>8 DEF SetLobbyData, Value
  <2> QED BY <2>1, <2>2, <1>8 DEF SetLobbyData, TypeOK, LobbiesTyped
<1>9. ASSUME NEW v \in Values, SetLobbyMemberData(n, v) PROVE TypeOK'
  <2>1. LobbiesTyped'
    BY <1>9, CallsPut, PutFacts DEF SetLobbyMemberData, LobbiesTyped
  <2> QED BY <2>1, <1>3, <1>9 DEF SetLobbyMemberData, TypeOK, LobbiesTyped, history
<1>10. ASSUME NEW v \in Values, SetLobbyGameServer(n, v) PROVE TypeOK'
  <2>1. LobbiesTyped'
    BY <1>10, CallsPut, PutFacts DEF SetLobbyGameServer, LobbiesTyped
  <2>2. told' \in [Nodes -> Value] /\ toldGs' \in [Nodes -> Nat]
    BY <1>1, <1>2, <1>10 DEF SetLobbyGameServer, Lobby
  <2> QED BY <2>1, <2>2, <1>3, <1>10 DEF SetLobbyGameServer, TypeOK, LobbiesTyped
<1>11. ASSUME NEW j \in BOOLEAN, SetLobbyJoinable(n, j) PROVE TypeOK'
  <2>1. LobbiesTyped'
    BY <1>11, CallsPut, PutFacts DEF SetLobbyJoinable, LobbiesTyped
  <2> QED BY <2>1, <1>3, <1>11 DEF SetLobbyJoinable, TypeOK, LobbiesTyped, history
<1> QED BY <1>4, <1>5, <1>6, <1>7, <1>8, <1>9, <1>10, <1>11 DEF GameCall
LEMMA PumpTyped ==
  ASSUME TypeOK, NEW n \in Nodes, Pump(n)
  PROVE  TypeOK'
<1> USE LobbiesAssumption
<1>1. Entry(n) \in Lobby
  BY EntryTyped
<1>2. CASE \E got \in SUBSET (Nodes \ {n}) : SendLobbyPresence(n, got)
  <2>1. PICK got \in SUBSET (Nodes \ {n}) : SendLobbyPresence(n, got)
    BY <1>2
  <2>2. chan' \in [Nodes -> [Nodes -> SUBSET LobbyMsg]]
    BY <2>1, PresenceTyped DEF SendLobbyPresence, TypeOK
  <2> QED BY <2>1, <2>2 DEF SendLobbyPresence, TypeOK, history
<1>3. CASE \E s \in Nodes : \E m \in chan[s][n] : HandleLobbyMsg(n, s, m)
  <2>1. PICK s \in Nodes, m \in UNION {chan[r][n] : r \in Nodes} : HandleLobbyMsg(n, s, m)
    BY <1>3
  <2>2. m \in LobbyMsg
    BY <2>1 DEF TypeOK, HandleLobbyMsg
  <2>3. LobbiesTyped'
    BY <2>1, <2>2, <1>1, MergeFacts, PutFacts DEF HandleLobbyMsg, LobbiesTyped
  <2>4. chan' \in [Nodes -> [Nodes -> SUBSET LobbyMsg]]
    <3>1. \/ chan' = chan
          \/ chan' = [chan EXCEPT ![s][n] = @ \ {m}]
      BY <2>1 DEF HandleLobbyMsg
    <3>2. chan[s][n] \ {m} \in SUBSET LobbyMsg
      BY DEF TypeOK
    <3>3. chan \in [Nodes -> [Nodes -> SUBSET LobbyMsg]]
      BY DEF TypeOK
    <3>4. CASE chan' = [chan EXCEPT ![s][n] = @ \ {m}]
      <4> DEFINE box == chan[s][n] \ {m}
                 row == [chan[s] EXCEPT ![n] = box]
      <4>1. row \in [Nodes -> SUBSET LobbyMsg]
        BY <3>2, <3>3
      <4>2. chan' = [chan EXCEPT ![s] = row]
        BY <3>3, <3>4
      <4> HIDE DEF row
      <4> QED BY <3>3, <4>1, <4>2
    <3> QED BY <3>1, <3>3, <3>4
  <2>5. telling' \in [Nodes -> SUBSET Events]
    BY <2>1 DEF HandleLobbyMsg, TypeOK, News
  <2> QED BY <2>1, <2>3, <2>4, <2>5 DEF HandleLobbyMsg, TypeOK, LobbiesTyped, history
<1>4. CASE Tell(n)
  BY <1>1, <1>4 DEF Tell, TypeOK, Lobby
<1>5. CASE \E m \in Nodes : ExpireMember(n, m)
  <2>1. PICK m \in Nodes : ExpireMember(n, m)
    BY <1>5
  <2>2. [Entry(n) EXCEPT !.members = @ \ {m}, !.memberData[m] = Nothing] \in Lobby
    BY <1>1 DEF Lobby, Value
  <2>3. LobbiesTyped'
    BY <2>1, <2>2, PutFacts DEF ExpireMember, LobbiesTyped
  <2> QED BY <2>1, <2>3 DEF ExpireMember, TypeOK, LobbiesTyped, history
<1>6. CASE ExpireLobby(n)
  <2>1. LobbiesTyped'
    BY <1>6, DropFacts DEF ExpireLobby, LobbiesTyped
  <2> QED BY <2>1, <1>6 DEF ExpireLobby, Forget, TypeOK, LobbiesTyped, Value
<1> QED BY <1>2, <1>3, <1>4, <1>5, <1>6 DEF Pump

LEMMA RestartTyped ==
  ASSUME TypeOK, NEW n \in Nodes, Restart(n)
  PROVE  TypeOK'
<1>1. LobbiesTyped'
  BY DropFacts DEF Restart, LobbiesTyped
<1> QED BY <1>1, LobbiesAssumption DEF Restart, Forget, TypeOK, LobbiesTyped, Value

LEMMA InitTyped == Init => TypeOK
<1> SUFFICES ASSUME Init PROVE TypeOK
  OBVIOUS
<1>1. lobbies \in [Nodes -> Seq(Lobby)] /\ \A n \in Nodes : Len(lobbies[n]) <= 1
  BY DEF Init
<1>2. \A n \in Nodes : [m \in Nodes |-> {}] \in [Nodes -> SUBSET LobbyMsg]
  OBVIOUS
<1>3. chan \in [Nodes -> [Nodes -> SUBSET LobbyMsg]]
  BY <1>2 DEF Init
<1>4. /\ telling \in [Nodes -> SUBSET Events] /\ told \in [Nodes -> Value]
      /\ toldGs \in [Nodes -> Nat] /\ gsAtJoin \in [Nodes -> Nat]
  BY DEF Init, Value
<1>5. sets \in 0..MaxSets
  BY LobbiesAssumption DEF Init
<1>6. created \in BOOLEAN /\ restarted \subseteq Restarting
  BY DEF Init
<1> QED BY <1>1, <1>3, <1>4, <1>5, <1>6 DEF TypeOK

LEMMA StepTyped ==
  ASSUME TypeOK, [Next]_vars
  PROVE  TypeOK'
<1>1. CASE Next
  BY <1>1, GameTyped, PumpTyped, RestartTyped DEF Next
<1>2. CASE UNCHANGED vars
  BY <1>2 DEF TypeOK, vars
<1> QED BY <1>1, <1>2

(* Every variable has its type, and a node has one entry of the lobby.     *)
THEOREM TypeCorrect == Spec => []TypeOK
<1>1. TypeOK /\ [Next]_vars => TypeOK'
  BY StepTyped
<1> QED BY <1>1, InitTyped, PTL DEF Spec

-----------------------------------------------------------------------------
(* What each step leaves of the entries                                    *)

(* A game's call on its own entry: its owner stays, or it is Creator's     *)
(* lobby, and the node is in it as a member or neither.                    *)
LEMMA CallEffect ==
  ASSUME TypeOK, NEW n \in Nodes, GameCall(n)
  PROVE  \E lb \in Lobby :
           /\ Put(n, lb)
           /\ lb.owner = Entry(n).owner \/ lb.owner = Creator
           /\ Knows(n) \/ lb.owner = Creator \/ JoinUnheard
           /\ \/ (lb.joined <=> Joined(n)) /\ lb.members = Entry(n).members
              \/ lb.joined <=> n \in lb.members
           /\ chan' = chan
<1> DEFINE e == Entry(n)
           Effect(lb) ==
             /\ Put(n, lb)
             /\ lb.owner = e.owner \/ lb.owner = Creator
             /\ Knows(n) \/ lb.owner = Creator \/ JoinUnheard
             /\ \/ (lb.joined <=> e.joined) /\ lb.members = e.members
                \/ lb.joined <=> n \in lb.members
             /\ chan' = chan
<1> SUFFICES \E lb \in Lobby : Effect(lb)
  BY DEF Joined
<1>1. e \in Lobby
  BY EntryTyped
<1>2. Joined(n) => Knows(n)
  BY JoinedKnows
<1>3. CASE CreateLobby(n)
  <2> DEFINE lb == [e EXCEPT !.owner = n, !.joinable = TRUE, !.joined = TRUE,
                             !.members = @ \cup {n}]
  <2>1. lb \in Lobby /\ Put(n, lb) /\ chan' = chan /\ n = Creator
    BY <1>3, CallsPut DEF CreateLobby, Enter
  <2>2. lb.owner = n /\ lb.joined /\ n \in lb.members
    BY <1>1 DEF Lobby
  <2> HIDE DEF lb
  <2>3. Effect(lb)
    BY <2>1, <2>2
  <2> QED BY <2>1, <2>3
<1>4. CASE JoinLobby(n)
  <2> DEFINE lb == [e EXCEPT !.joined = TRUE, !.members = @ \cup {n}]
  <2>1. lb \in Lobby /\ Put(n, lb) /\ chan' = chan /\ (Knows(n) \/ JoinUnheard)
    BY <1>4, CallsPut DEF JoinLobby, Enter
  <2>2. lb.owner = e.owner /\ lb.joined /\ n \in lb.members
    BY <1>1 DEF Lobby
  <2> HIDE DEF lb
  <2>3. Effect(lb)
    BY <2>1, <2>2
  <2> QED BY <2>1, <2>3
<1>5. CASE LeaveLobby(n)
  <2> DEFINE lb == [e EXCEPT !.joined = FALSE, !.members = @ \ {n}]
  <2>1. lb \in Lobby /\ Put(n, lb) /\ chan' = chan /\ Knows(n)
    BY <1>2, <1>5, CallsPut DEF LeaveLobby
  <2>2. lb.owner = e.owner /\ ~lb.joined /\ n \notin lb.members
    BY <1>1 DEF Lobby
  <2> HIDE DEF lb
  <2>3. Effect(lb)
    BY <2>1, <2>2
  <2> QED BY <2>1, <2>3
<1>6. CASE RequestLobbyData(n)
  <2> DEFINE lb == [e EXCEPT !.watched = TRUE]
  <2>1. lb \in Lobby /\ Put(n, lb) /\ chan' = chan /\ Knows(n)
    BY <1>6, CallsPut DEF RequestLobbyData
  <2>2. lb.owner = e.owner /\ lb.joined = e.joined /\ lb.members = e.members
    BY <1>1 DEF Lobby
  <2> HIDE DEF lb
  <2>3. Effect(lb)
    BY <2>1, <2>2
  <2> QED BY <2>1, <2>3
<1>7. ASSUME NEW v \in Values, SetLobbyData(n, v) PROVE \E lb \in Lobby : Effect(lb)
  <2> DEFINE lb == [e EXCEPT !.data = v]
  <2>1. lb \in Lobby /\ Put(n, lb) /\ chan' = chan /\ Knows(n)
    BY <1>7, CallsPut DEF SetLobbyData, MaySet
  <2>2. lb.owner = e.owner /\ lb.joined = e.joined /\ lb.members = e.members
    BY <1>1 DEF Lobby
  <2> HIDE DEF lb
  <2>3. Effect(lb)
    BY <2>1, <2>2
  <2> QED BY <2>1, <2>3
<1>8. ASSUME NEW v \in Values, SetLobbyMemberData(n, v) PROVE \E lb \in Lobby : Effect(lb)
  <2> DEFINE lb == [e EXCEPT !.memberData[n] = v]
  <2>1. lb \in Lobby /\ Put(n, lb) /\ chan' = chan /\ Knows(n)
    BY <1>8, CallsPut DEF SetLobbyMemberData, MaySet
  <2>2. lb.owner = e.owner /\ lb.joined = e.joined /\ lb.members = e.members
    BY <1>1 DEF Lobby
  <2> HIDE DEF lb
  <2>3. Effect(lb)
    BY <2>1, <2>2
  <2> QED BY <2>1, <2>3
<1>9. ASSUME NEW v \in Values, SetLobbyGameServer(n, v) PROVE \E lb \in Lobby : Effect(lb)
  <2> DEFINE lb == [e EXCEPT !.gs = v, !.gsUpdate = @ + 1]
  <2>1. lb \in Lobby /\ Put(n, lb) /\ chan' = chan /\ Knows(n)
    BY <1>9, CallsPut DEF SetLobbyGameServer, MaySet
  <2>2. lb.owner = e.owner /\ lb.joined = e.joined /\ lb.members = e.members
    BY <1>1 DEF Lobby
  <2> HIDE DEF lb
  <2>3. Effect(lb)
    BY <2>1, <2>2
  <2> QED BY <2>1, <2>3
<1>10. ASSUME NEW j \in BOOLEAN, SetLobbyJoinable(n, j) PROVE \E lb \in Lobby : Effect(lb)
  <2> DEFINE lb == [e EXCEPT !.joinable = j]
  <2>1. lb \in Lobby /\ Put(n, lb) /\ chan' = chan /\ Knows(n)
    BY <1>10, CallsPut DEF SetLobbyJoinable, MaySet
  <2>2. lb.owner = e.owner /\ lb.joined = e.joined /\ lb.members = e.members
    BY <1>1 DEF Lobby
  <2> HIDE DEF lb
  <2>3. Effect(lb)
    BY <2>1, <2>2
  <2> QED BY <2>1, <2>3
<1> HIDE DEF Effect
<1> QED BY <1>3, <1>4, <1>5, <1>6, <1>7, <1>8, <1>9, <1>10 DEF GameCall

(* Everything on the way after a step was on the way before it.            *)
NothingSent == \A s, r \in Nodes : chan'[s][r] \subseteq chan[s][r]

(* A presence leaves the entries alone, and goes from a member to others.  *)
Sends(n) ==
  /\ Joined(n)
  /\ lobbies' = lobbies
  /\ \A s, r \in Nodes : \A m \in chan'[s][r] :
       m \in chan[s][r] \/ (s = n /\ r # n /\ m = Presence(n))

Hears(n) ==
  \E s \in Nodes : \E m \in LobbyMsg : \E lb \in Lobby :
    /\ m \in chan[s][n]
    /\ Put(n, lb)
    /\ lb.owner = m.ownerID
    /\ lb.members = Entry(n).members \cup {s}
    /\ lb.joined = Joined(n)
    /\ NothingSent

Forgets(n) ==
  \E lb \in Lobby :
    /\ Knows(n)
    /\ Put(n, lb)
    /\ lb.owner = Entry(n).owner
    /\ lb.joined = Joined(n)
    /\ n \in lb.members <=> n \in Entry(n).members
    /\ NothingSent

Drops(n) == lobbies' = [lobbies EXCEPT ![n] = << >>] /\ NothingSent

(* A step of the pump, or a restart, is one of these.                      *)
LEMMA PumpEffect ==
  ASSUME TypeOK, NEW n \in Nodes, Pump(n) \/ Restart(n)
  PROVE  \/ lobbies' = lobbies /\ NothingSent
         \/ Sends(n) \/ Hears(n) \/ Forgets(n) \/ Drops(n)
<1>1. Entry(n) \in Lobby
  BY EntryTyped
<1>2. CASE \E got \in SUBSET (Nodes \ {n}) : SendLobbyPresence(n, got)
  <2>1. PICK got \in SUBSET (Nodes \ {n}) : SendLobbyPresence(n, got)
    BY <1>2
  <2>2. Joined(n) /\ lobbies' = lobbies
    BY <2>1 DEF SendLobbyPresence
  <2>3. ASSUME NEW s \in Nodes, NEW r \in Nodes, NEW m \in chan'[s][r]
        PROVE  m \in chan[s][r] \/ (s = n /\ r # n /\ m = Presence(n))
    BY <2>1, <2>3 DEF SendLobbyPresence, TypeOK
  <2> QED BY <2>2, <2>3 DEF Sends
<1>3. CASE \E s \in Nodes : \E m \in chan[s][n] : HandleLobbyMsg(n, s, m)
  <2>1. PICK s \in Nodes, m \in UNION {chan[r][n] : r \in Nodes} : HandleLobbyMsg(n, s, m)
    BY <1>3
  <2>2. m \in chan[s][n] /\ m \in LobbyMsg /\ Put(n, Merge(Entry(n), m, s))
    BY <2>1 DEF TypeOK, HandleLobbyMsg
  <2>3. NothingSent
    <3>1. \/ chan' = chan
          \/ chan' = [chan EXCEPT ![s][n] = @ \ {m}]
      BY <2>1 DEF HandleLobbyMsg
    <3>2. chan \in [Nodes -> [Nodes -> SUBSET LobbyMsg]]
      BY DEF TypeOK
    <3>3. CASE chan' = [chan EXCEPT ![s][n] = @ \ {m}]
      <4> SUFFICES ASSUME NEW q \in Nodes, NEW r \in Nodes
                   PROVE  chan'[q][r] \subseteq chan[q][r]
        BY DEF NothingSent
      <4>1. chan'[q][r] = chan[q][r] \/ chan'[q][r] = chan[q][r] \ {m}
        BY <3>2, <3>3
      <4> QED BY <4>1
    <3>4. CASE chan' = chan
      BY <3>4 DEF NothingSent
    <3> QED BY <3>1, <3>3, <3>4
  <2> DEFINE lb == Merge(Entry(n), m, s)
  <2>4. /\ lb \in Lobby /\ lb.owner = m.ownerID /\ lb.joined = Joined(n)
        /\ lb.members = Entry(n).members \cup {s}
    BY <1>1, <2>2, MergeFacts DEF Joined
  <2>5. Put(n, lb)
    BY <2>2
  <2> HIDE DEF lb
  <2> QED BY <2>2, <2>3, <2>4, <2>5 DEF Hears
<1>4. CASE Tell(n)
  BY <1>4 DEF Tell, NothingSent
<1>5. CASE \E m \in Nodes : ExpireMember(n, m)
  <2>1. PICK m \in Nodes : ExpireMember(n, m)
    BY <1>5
  <2> DEFINE lb == [Entry(n) EXCEPT !.members = @ \ {m}, !.memberData[m] = Nothing]
  <2>2. /\ lb \in Lobby /\ lb.owner = Entry(n).owner /\ lb.joined = Joined(n)
        /\ lb.members = Entry(n).members \ {m}
    BY <1>1 DEF Lobby, Value, Joined
  <2>3. Put(n, lb) /\ m # n /\ m \in Entry(n).members /\ NothingSent
    BY <2>1 DEF ExpireMember, NothingSent
  <2> HIDE DEF lb
  <2>4. Knows(n)
    BY <2>3 DEF Entry, Blank
  <2> QED BY <2>2, <2>3, <2>4 DEF Forgets
<1>6. CASE ExpireLobby(n)
  BY <1>6 DEF ExpireLobby, Drops, NothingSent
<1>7. CASE Restart(n)
  BY <1>7 DEF Restart, Drops, NothingSent
<1> QED BY <1>2, <1>3, <1>4, <1>5, <1>6, <1>7 DEF Pump

-----------------------------------------------------------------------------
(* The owner is known, if nobody joins a lobby unheard of.  The owner a    *)
(* node has comes from its own call or from a presence, and a presence     *)
(* carries the owner its sender has: so those on the way must be right.    *)

OwnersOnTheWay == \A s, r \in Nodes : \A m \in chan[s][r] : m.ownerID = Creator

OwnerInv == TypeOK /\ OwnersAgree /\ OwnersOnTheWay

LEMMA OwnerStep ==
  ASSUME JoinUnheard = FALSE, OwnerInv, NEW n \in Nodes,
         GameCall(n) \/ Pump(n) \/ Restart(n)
  PROVE  OwnersAgree' /\ OwnersOnTheWay'
<1> USE DEF OwnerInv
<1>1. CASE GameCall(n)
  <2>1. PICK lb \in Lobby :
          /\ Put(n, lb)
          /\ lb.owner = Entry(n).owner \/ lb.owner = Creator
          /\ Knows(n) \/ lb.owner = Creator \/ JoinUnheard
          /\ chan' = chan
    BY <1>1, CallEffect
  <2>2. lb.owner = Creator
    BY <2>1 DEF OwnersAgree
  <2>3. OwnersAgree'
    BY <2>1, <2>2, PutFacts DEF OwnersAgree
  <2> QED BY <2>1, <2>3 DEF OwnersOnTheWay
<1>2. CASE lobbies' = lobbies /\ NothingSent
  BY <1>2 DEF OwnersAgree, OwnersOnTheWay, NothingSent, Knows, Entry
<1>3. CASE Sends(n)
  <2>1. OwnersAgree'
    BY <1>3 DEF Sends, OwnersAgree, Knows, Entry
  <2>2. Presence(n).ownerID = Creator
    BY <1>3, JoinedKnows DEF Sends, OwnersAgree, Presence
  <2>3. OwnersOnTheWay'
    BY <1>3, <2>2 DEF Sends, OwnersOnTheWay
  <2> QED BY <2>1, <2>3
<1>4. CASE Hears(n)
  <2>1. PICK s \in Nodes, m \in LobbyMsg, lb \in Lobby :
          m \in chan[s][n] /\ Put(n, lb) /\ lb.owner = m.ownerID /\ NothingSent
    BY <1>4 DEF Hears
  <2>2. lb.owner = Creator
    BY <2>1 DEF OwnersOnTheWay
  <2>3. OwnersAgree'
    BY <2>1, <2>2, PutFacts DEF OwnersAgree
  <2> QED BY <2>1, <2>3 DEF OwnersOnTheWay, NothingSent
<1>5. CASE Forgets(n)
  <2>1. PICK lb \in Lobby :
          Knows(n) /\ Put(n, lb) /\ lb.owner = Entry(n).owner /\ NothingSent
    BY <1>5 DEF Forgets
  <2>2. OwnersAgree'
    BY <2>1, PutFacts DEF OwnersAgree
  <2> QED BY <2>1, <2>2 DEF OwnersOnTheWay, NothingSent
<1>6. CASE Drops(n)
  <2>1. OwnersAgree'
    BY <1>6, DropFacts DEF Drops, OwnersAgree
  <2> QED BY <1>6, <2>1 DEF Drops, OwnersOnTheWay, NothingSent
<1> QED BY <1>1, <1>2, <1>3, <1>4, <1>5, <1>6, PumpEffect

(* All who know the lobby know that it is its creator's, whatever is lost, *)
(* late, doubled or forgotten, as long as nobody joins it unheard of.      *)
THEOREM OwnerKnown ==
  ASSUME JoinUnheard = FALSE
  PROVE  Spec => []OwnersAgree
<1>1. Init => OwnerInv
  <2>1. Init => TypeOK
    BY InitTyped
  <2>2. Init => OwnersAgree /\ OwnersOnTheWay
    BY DEF Init, OwnersAgree, OwnersOnTheWay, Knows
  <2> QED BY <2>1, <2>2 DEF OwnerInv
<1>2. OwnerInv /\ [Next]_vars => OwnerInv'
  <2> SUFFICES ASSUME OwnerInv, [Next]_vars PROVE OwnerInv'
    OBVIOUS
  <2>1. TypeOK'
    BY StepTyped DEF OwnerInv
  <2>2. CASE Next
    BY <2>1, <2>2, OwnerStep DEF Next, OwnerInv
  <2>3. CASE UNCHANGED vars
    BY <2>1, <2>3 DEF OwnerInv, OwnersAgree, OwnersOnTheWay, vars, Knows, Entry
  <2> QED BY <2>2, <2>3
<1>3. OwnerInv => OwnersAgree
  BY DEF OwnerInv
<1> QED BY <1>1, <1>2, <1>3, PTL DEF Spec

-----------------------------------------------------------------------------
(* A node is its own member while it has joined.  No presence on the way   *)
(* is for its own sender, so none makes its sender a member there.         *)

NoEcho == \A k \in Nodes : chan[k][k] = {}

SelfInv == TypeOK /\ SelfMember /\ NoEcho

LEMMA SelfStep ==
  ASSUME SelfInv, NEW n \in Nodes, GameCall(n) \/ Pump(n) \/ Restart(n)
  PROVE  SelfMember' /\ NoEcho'
<1> USE DEF SelfInv
<1>1. Entry(n) \in Lobby
  BY EntryTyped
<1>2. CASE GameCall(n)
  <2>1. PICK lb \in Lobby :
          /\ Put(n, lb)
          /\ \/ (lb.joined <=> Joined(n)) /\ lb.members = Entry(n).members
             \/ lb.joined <=> n \in lb.members
          /\ chan' = chan
    BY <1>2, CallEffect
  <2>2. lb.joined <=> n \in lb.members
    BY <2>1 DEF SelfMember
  <2>3. SelfMember'
    BY <2>1, <2>2, PutFacts DEF SelfMember, Joined
  <2> QED BY <2>1, <2>3 DEF NoEcho
<1>3. CASE lobbies' = lobbies /\ NothingSent
  BY <1>3 DEF SelfMember, NoEcho, NothingSent, Joined, Entry, Knows
<1>4. CASE Sends(n)
  <2>1. SelfMember'
    BY <1>4 DEF Sends, SelfMember, Joined, Entry, Knows
  <2>2. NoEcho'
    BY <1>4 DEF Sends, NoEcho
  <2> QED BY <2>1, <2>2
<1>5. CASE Hears(n)
  <2>1. PICK s \in Nodes, m \in LobbyMsg, lb \in Lobby :
          /\ m \in chan[s][n]
          /\ Put(n, lb)
          /\ lb.members = Entry(n).members \cup {s}
          /\ lb.joined = Joined(n)
          /\ NothingSent
    BY <1>5 DEF Hears
  <2>2. s # n
    BY <2>1 DEF NoEcho
  <2>3. SelfMember'
    BY <2>1, <2>2, PutFacts DEF SelfMember, Joined
  <2> QED BY <2>1, <2>3 DEF NoEcho, NothingSent
<1>6. CASE Forgets(n)
  <2>1. PICK lb \in Lobby :
          /\ Put(n, lb)
          /\ lb.joined = Joined(n)
          /\ n \in lb.members <=> n \in Entry(n).members
          /\ NothingSent
    BY <1>6 DEF Forgets
  <2>2. SelfMember'
    BY <2>1, PutFacts DEF SelfMember, Joined
  <2> QED BY <2>1, <2>2 DEF NoEcho, NothingSent
<1>7. CASE Drops(n)
  <2>1. ~Blank.joined /\ Blank.members = {}
    BY DEF Blank
  <2>2. SelfMember'
    BY <1>7, <2>1, DropFacts DEF Drops, SelfMember, Joined
  <2> QED BY <1>7, <2>2 DEF Drops, NoEcho, NothingSent
<1> QED BY <1>2, <1>3, <1>4, <1>5, <1>6, <1>7, PumpEffect

(* A node is among its own members exactly while its game is in the lobby. *)
THEOREM SelfIsMember == Spec => []SelfMember
<1>1. Init => SelfInv
  <2>1. Init => TypeOK
    BY InitTyped
  <2>2. Init => SelfMember /\ NoEcho
    BY DEF Init, SelfMember, NoEcho, Joined, Entry, Knows, Blank
  <2> QED BY <2>1, <2>2 DEF SelfInv
<1>2. SelfInv /\ [Next]_vars => SelfInv'
  <2> SUFFICES ASSUME SelfInv, [Next]_vars PROVE SelfInv'
    OBVIOUS
  <2>1. TypeOK'
    BY StepTyped DEF SelfInv
  <2>2. CASE Next
    BY <2>1, <2>2, SelfStep DEF Next, SelfInv
  <2>3. CASE UNCHANGED vars
    BY <2>1, <2>3 DEF SelfInv, SelfMember, NoEcho, vars, Joined, Knows, Entry
  <2> QED BY <2>2, <2>3
<1>3. SelfInv => SelfMember
  BY DEF SelfInv
<1> QED BY <1>1, <1>2, <1>3, PTL DEF Spec

-----------------------------------------------------------------------------
(* No change is missed.  Between the merge and the callback the game is    *)
(* behind, but the pump has the callback in hand and does nothing else     *)
(* before it is queued.                                                    *)

CurrentAt(n) ==
  Knows(n) =>
    /\ Joined(n) \/ Entry(n).watched =>
         told[n] = Entry(n).data \/ "data" \in telling[n]
    /\ Joined(n) =>
         Entry(n).gsUpdate \in {0, gsAtJoin[n], toldGs[n]} \/ "gameCreated" \in telling[n]

CurrentInv == TypeOK /\ \A n \in Nodes : CurrentAt(n)

LEMMA HistoryTyped ==
  ASSUME TypeOK
  PROVE  /\ told \in [Nodes -> Value] /\ toldGs \in [Nodes -> Nat]
         /\ gsAtJoin \in [Nodes -> Nat] /\ telling \in [Nodes -> SUBSET Events]
  BY DEF TypeOK

(* An entry that is put need only be current itself.                       *)
LEMMA PutCurrent ==
  ASSUME TypeOK, NEW n \in Nodes, NEW lb \in Lobby, Put(n, lb),
         lb.joined \/ lb.watched => told'[n] = lb.data \/ "data" \in telling'[n],
         lb.joined => \/ lb.gsUpdate \in {0, gsAtJoin'[n], toldGs'[n]}
                      \/ "gameCreated" \in telling'[n]
  PROVE  CurrentAt(n)'
  BY PutFacts DEF CurrentAt, Joined

(* The steps of a node leave what another knows and was told alone.        *)
LEMMA OthersCurrent ==
  ASSUME TypeOK, NEW n \in Nodes, NEW k \in Nodes \ {n}, CurrentAt(k),
         GameCall(n) \/ Pump(n) \/ Restart(n)
  PROVE  CurrentAt(k)'
<1>1. (Knows(k)' <=> Knows(k)) /\ Entry(k)' = Entry(k)
  <2>1. CASE GameCall(n)
    BY <2>1, CallEffect, PutFacts
  <2>2. CASE lobbies' = lobbies
    BY <2>2 DEF Knows, Entry
  <2>3. CASE Sends(n)
    BY <2>3 DEF Sends, Knows, Entry
  <2>4. CASE Hears(n)
    BY <2>4, PutFacts DEF Hears
  <2>5. CASE Forgets(n)
    BY <2>5, PutFacts DEF Forgets
  <2>6. CASE Drops(n)
    BY <2>6, DropFacts DEF Drops
  <2> QED BY <2>1, <2>2, <2>3, <2>4, <2>5, <2>6, PumpEffect
<1>2. /\ told'[k] = told[k] /\ toldGs'[k] = toldGs[k]
      /\ gsAtJoin'[k] = gsAtJoin[k] /\ telling'[k] = telling[k]
  <2>1. CASE GameCall(n)
    BY <2>1, HistoryTyped
       DEF GameCall, CreateLobby, JoinLobby, LeaveLobby, RequestLobbyData, SetLobbyData,
           SetLobbyMemberData, SetLobbyGameServer, SetLobbyJoinable, Enter, Forget, history
  <2>2. CASE Pump(n)
    BY <2>2, HistoryTyped
       DEF Pump, SendLobbyPresence, HandleLobbyMsg, Tell, ExpireMember, ExpireLobby,
           Forget, history
  <2>3. CASE Restart(n)
    BY <2>3, HistoryTyped DEF Restart, Forget
  <2> QED BY <2>1, <2>2, <2>3
<1> QED BY <1>1, <1>2 DEF CurrentAt, Joined

LEMMA CallCurrent ==
  ASSUME TypeOK, NEW n \in Nodes, CurrentAt(n), GameCall(n)
  PROVE  CurrentAt(n)'
<1> DEFINE e == Entry(n)
<1>1. e \in Lobby
  BY EntryTyped
<1>2. Joined(n) => Knows(n)
  BY JoinedKnows
<1>3. /\ told \in [Nodes -> Value] /\ toldGs \in [Nodes -> Nat]
      /\ gsAtJoin \in [Nodes -> Nat]
  BY HistoryTyped
<1>4. Knows(n) =>
        /\ e.joined \/ e.watched => told[n] = e.data \/ "data" \in telling[n]
        /\ e.joined => \/ e.gsUpdate \in {0, gsAtJoin[n], toldGs[n]}
                       \/ "gameCreated" \in telling[n]
  BY DEF CurrentAt, Joined
<1>5. ASSUME NEW lb \in Lobby, Enter(n, lb) PROVE CurrentAt(n)'
  <2>1. Put(n, lb) /\ told'[n] = lb.data /\ gsAtJoin'[n] = lb.gsUpdate
    BY <1>3, <1>5 DEF Enter
  <2> QED BY <2>1, PutCurrent
<1>6. CASE CreateLobby(n) \/ JoinLobby(n)
  BY <1>5, <1>6, CallsPut DEF CreateLobby, JoinLobby
<1>7. CASE LeaveLobby(n)
  <2> DEFINE lb == [e EXCEPT !.joined = FALSE, !.members = @ \ {n}]
  <2>1. lb \in Lobby /\ Put(n, lb) /\ e.joined /\ Knows(n) /\ telling' = telling
    BY <1>2, <1>7, CallsPut DEF LeaveLobby, Joined
  <2>2. ~lb.joined /\ lb.watched = e.watched /\ lb.data = e.data
    BY <1>1 DEF Lobby
  <2>3. e.watched => told'[n] = told[n]
    BY <1>3, <1>7 DEF LeaveLobby, Forget
  <2> HIDE DEF lb
  <2> QED BY <1>4, <2>1, <2>2, <2>3, PutCurrent
<1>8. CASE RequestLobbyData(n)
  <2> DEFINE lb == [e EXCEPT !.watched = TRUE]
  <2>1. /\ lb \in Lobby /\ Put(n, lb) /\ Knows(n) /\ told'[n] = e.data
        /\ UNCHANGED <<telling, toldGs, gsAtJoin>>
    BY <1>3, <1>8, CallsPut DEF RequestLobbyData
  <2>2. lb.joined = e.joined /\ lb.data = e.data /\ lb.gsUpdate = e.gsUpdate
    BY <1>1 DEF Lobby
  <2> HIDE DEF lb
  <2> QED BY <1>4, <2>1, <2>2, PutCurrent
<1>9. ASSUME NEW v \in Values, SetLobbyData(n, v) PROVE CurrentAt(n)'
  <2> DEFINE lb == [e EXCEPT !.data = v]
  <2>1. /\ lb \in Lobby /\ Put(n, lb) /\ Knows(n) /\ told'[n] = v
        /\ UNCHANGED <<telling, toldGs, gsAtJoin>>
    BY <1>3, <1>9, CallsPut DEF SetLobbyData, MaySet
  <2>2. lb.joined = e.joined /\ lb.data = v /\ lb.gsUpdate = e.gsUpdate
    BY <1>1 DEF Lobby
  <2> HIDE DEF lb
  <2> QED BY <1>4, <2>1, <2>2, PutCurrent
<1>10. ASSUME NEW v \in Values, SetLobbyGameServer(n, v) PROVE CurrentAt(n)'
  <2> DEFINE lb == [e EXCEPT !.gs = v, !.gsUpdate = @ + 1]
  <2>1. /\ lb \in Lobby /\ Put(n, lb) /\ told'[n] = e.data
        /\ toldGs'[n] = e.gsUpdate + 1
    BY <1>3, <1>10, CallsPut DEF SetLobbyGameServer
  <2>2. lb.data = e.data /\ lb.gsUpdate = e.gsUpdate + 1
    BY <1>1 DEF Lobby
  <2> HIDE DEF lb
  <2> QED BY <2>1, <2>2, PutCurrent
<1>11. ASSUME NEW lb \in Lobby, Put(n, lb), Knows(n), lb.joined = e.joined,
              lb.watched = e.watched, lb.data = e.data, lb.gsUpdate = e.gsUpdate,
              UNCHANGED <<telling, told, toldGs, gsAtJoin>>
       PROVE  CurrentAt(n)'
  BY <1>4, <1>11, PutCurrent
<1>12. ASSUME NEW v \in Values, SetLobbyMemberData(n, v) PROVE CurrentAt(n)'
  <2> DEFINE lb == [e EXCEPT !.memberData[n] = v]
  <2>1. /\ lb \in Lobby /\ Put(n, lb) /\ Knows(n)
        /\ UNCHANGED <<telling, told, toldGs, gsAtJoin>>
    BY <1>12, CallsPut DEF SetLobbyMemberData, MaySet, history
  <2>2. /\ lb.joined = e.joined /\ lb.watched = e.watched
        /\ lb.data = e.data /\ lb.gsUpdate = e.gsUpdate
    BY <1>1 DEF Lobby
  <2> HIDE DEF lb
  <2> QED BY <1>11, <2>1, <2>2
<1>13. ASSUME NEW j \in BOOLEAN, SetLobbyJoinable(n, j) PROVE CurrentAt(n)'
  <2> DEFINE lb == [e EXCEPT !.joinable = j]
  <2>1. /\ lb \in Lobby /\ Put(n, lb) /\ Knows(n)
        /\ UNCHANGED <<telling, told, toldGs, gsAtJoin>>
    BY <1>13, CallsPut DEF SetLobbyJoinable, MaySet, history
  <2>2. /\ lb.joined = e.joined /\ lb.watched = e.watched
        /\ lb.data = e.data /\ lb.gsUpdate = e.gsUpdate
    BY <1>1 DEF Lobby
  <2> HIDE DEF lb
  <2> QED BY <1>11, <2>1, <2>2
<1> QED BY <1>6, <1>7, <1>8, <1>9, <1>10, <1>12, <1>13 DEF GameCall

LEMMA PumpCurrent ==
  ASSUME TypeOK, NEW n \in Nodes, CurrentAt(n), Pump(n) \/ Restart(n)
  PROVE  CurrentAt(n)'
<1> DEFINE e == Entry(n)
<1>1. e \in Lobby
  BY EntryTyped
<1>2. /\ told \in [Nodes -> Value] /\ toldGs \in [Nodes -> Nat]
      /\ gsAtJoin \in [Nodes -> Nat] /\ telling \in [Nodes -> SUBSET Events]
  BY HistoryTyped
<1>3. (e.joined \/ e.watched => Knows(n))
  BY DEF Entry, Blank
<1>4. /\ e.joined \/ e.watched => told[n] = e.data \/ "data" \in telling[n]
      /\ e.joined => \/ e.gsUpdate \in {0, gsAtJoin[n], toldGs[n]}
                     \/ "gameCreated" \in telling[n]
  BY <1>3 DEF CurrentAt, Joined
<1>5. CASE \E got \in SUBSET (Nodes \ {n}) : SendLobbyPresence(n, got)
  BY <1>5 DEF SendLobbyPresence, history, CurrentAt, Knows, Joined, Entry
<1>6. CASE \E s \in Nodes : \E m \in chan[s][n] : HandleLobbyMsg(n, s, m)
  <2>1. PICK s \in Nodes, m \in UNION {chan[r][n] : r \in Nodes} : HandleLobbyMsg(n, s, m)
    BY <1>6
  <2> DEFINE new == Merge(e, m, s)
  <2>2. m \in LobbyMsg /\ telling[n] = {} /\ Put(n, new)
    BY <2>1 DEF TypeOK, HandleLobbyMsg
  <2>3. telling' = [telling EXCEPT ![n] = News(e, new)] /\ UNCHANGED history
    BY <2>1 DEF HandleLobbyMsg
  <2>4. new \in Lobby /\ new.joined = e.joined /\ new.watched = e.watched
    BY <1>1, <2>2, MergeFacts
  <2> HIDE DEF new
  <2>5. telling'[n] = News(e, new) /\ UNCHANGED <<told, toldGs, gsAtJoin>>
    BY <1>2, <2>3 DEF history
  <2>6. e.joined \/ e.watched => new.data = e.data \/ "data" \in telling'[n]
    BY <2>5 DEF News, Events
  <2>7. e.joined => \/ new.gsUpdate = e.gsUpdate \/ new.gsUpdate = 0
                    \/ "gameCreated" \in telling'[n]
    BY <2>5 DEF News, Events
  <2> QED BY <1>4, <2>2, <2>4, <2>5, <2>6, <2>7, PutCurrent
<1>7. CASE Tell(n)
  <2>1. lobbies' = lobbies /\ gsAtJoin' = gsAtJoin
    BY <1>7 DEF Tell
  <2>2. Entry(n)' = e /\ Joined(n)' = e.joined
    BY <2>1 DEF Entry, Knows, Joined
  <2>3. told'[n] = (IF "data" \in telling[n] THEN e.data ELSE told[n])
    BY <1>2, <1>7 DEF Tell
  <2>4. toldGs'[n] = (IF "gameCreated" \in telling[n] THEN e.gsUpdate ELSE toldGs[n])
    BY <1>2, <1>7 DEF Tell
  <2> QED BY <1>4, <2>1, <2>2, <2>3, <2>4 DEF CurrentAt
<1>8. CASE \E m \in Nodes : ExpireMember(n, m)
  <2>1. PICK m \in Nodes : ExpireMember(n, m)
    BY <1>8
  <2> DEFINE lb == [e EXCEPT !.members = @ \ {m}, !.memberData[m] = Nothing]
  <2>2. /\ lb \in Lobby /\ lb.joined = e.joined /\ lb.watched = e.watched
        /\ lb.data = e.data /\ lb.gsUpdate = e.gsUpdate
    BY <1>1 DEF Lobby, Value
  <2>3. Put(n, lb) /\ UNCHANGED <<telling, told, toldGs, gsAtJoin>>
    BY <2>1 DEF ExpireMember, history
  <2> HIDE DEF lb
  <2> QED BY <1>4, <2>2, <2>3, PutCurrent
<1>9. CASE ExpireLobby(n)
  BY <1>9, DropFacts DEF ExpireLobby, CurrentAt
<1>10. CASE Restart(n)
  BY <1>10, DropFacts DEF Restart, CurrentAt
<1> QED BY <1>5, <1>6, <1>7, <1>8, <1>9, <1>10 DEF Pump

(* A game that rereads the lobby when told of a change is never out of     *)
(* date: the pump drops no change between the merge and the callback, and  *)
(* the game's own calls do not lose one either.                            *)
THEOREM ChangesTold == Spec => []NoMissedUpdate
<1>1. Init => CurrentInv
  <2>1. Init => TypeOK
    BY InitTyped
  <2>2. Init => \A n \in Nodes : CurrentAt(n)
    BY DEF Init, CurrentAt, Knows
  <2> QED BY <2>1, <2>2 DEF CurrentInv
<1>2. CurrentInv /\ [Next]_vars => CurrentInv'
  <2> SUFFICES ASSUME CurrentInv, [Next]_vars PROVE CurrentInv'
    OBVIOUS
  <2>1. TypeOK /\ TypeOK' /\ \A k \in Nodes : CurrentAt(k)
    BY StepTyped DEF CurrentInv
  <2>2. CASE Next
    <3>1. PICK n \in Nodes : GameCall(n) \/ Pump(n) \/ Restart(n)
      BY <2>2 DEF Next
    <3>2. CurrentAt(n)'
      BY <2>1, <3>1, CallCurrent, PumpCurrent
    <3>3. \A k \in Nodes \ {n} : CurrentAt(k)'
      BY <2>1, <3>1, OthersCurrent
    <3> QED BY <2>1, <3>2, <3>3 DEF CurrentInv
  <2>3. CASE UNCHANGED vars
    BY <2>1, <2>3 DEF CurrentInv, CurrentAt, vars, Joined, Knows, Entry
  <2> QED BY <2>2, <2>3
<1>3. CurrentInv => NoMissedUpdate
  BY DEF CurrentInv, CurrentAt, NoMissedUpdate
<1> QED BY <1>1, <1>2, <1>3, PTL DEF Spec
=============================================================================
