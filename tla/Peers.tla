------------------------------- MODULE Peers -------------------------------
(***************************************************************************)
(* How a node learns where another one is, and where its packets go        *)
(* (src/net.cpp): beacons name the client identity of a process, datagrams *)
(* the identity that sent them, and each is kept with the address it came  *)
(* from until it has been silent for five seconds.  A packet for a         *)
(* game-server identity never heard of goes to the client of the account.  *)
(* The other node's process may restart, with a new port; datagrams of the *)
(* old one may still arrive.                                               *)
(***************************************************************************)
EXTENDS Naturals, FiniteSets

CONSTANTS
  Unheard,      \* stands for no entry
  MaxLives,     \* bound: processes of the other node
  MaxDatagrams  \* bound: packets its game sends

ASSUME PeersAssumption == MaxLives \in Nat \ {0} /\ MaxDatagrams \in Nat

VARIABLES
  peers,     \* per identity of the other account, [addr, silent] or Unheard
  peerLife,  \* the process, and port, the other node has now
  peerNet,   \* datagrams on the way; any may never arrive
  packets    \* number of packets sent

peerVars == <<peers, peerLife, peerNet, packets>>

Identity == {"client", "server"}
PeerEntry == [addr : 1..MaxLives, silent : BOOLEAN]

PeersInit ==
  /\ peers = [i \in Identity |-> Unheard]
  /\ peerLife = 1 /\ peerNet = {} /\ packets = 0

(* FindPeer: the identity itself or, failing that, another of the account. *)
FindPeer(i) ==
  IF peers[i] /= Unheard THEN {peers[i].addr}
  ELSE {peers[j].addr : j \in {j \in Identity : peers[j] /= Unheard}}

---------------------------------------------------------------------------
(* SendBeacon names the client identity and the data port.                 *)
Beacon == [kind |-> "beacon", id |-> "client", addr |-> peerLife]

SendBeacon ==
  /\ peerNet' = peerNet \cup {Beacon}
  /\ UNCHANGED <<peers, peerLife, packets>>

(* SendP2PPacket by the other node's client or game server.                *)
SendPacket(i) ==
  /\ packets < MaxDatagrams /\ packets' = packets + 1
  /\ peerNet' = peerNet \cup {[kind |-> "data", id |-> i, addr |-> peerLife]}
  /\ UNCHANGED <<peers, peerLife>>

(* HandleBeacon and HandleData: the address is the datagram's.             *)
Heard(m) == [peers EXCEPT ![m.id] = [addr |-> m.addr, silent |-> FALSE]]

HandleDatagram(m) ==
  /\ m \in peerNet /\ peerNet' = peerNet \ {m}
  /\ peers' = Heard(m)
  /\ UNCHANGED <<peerLife, packets>>

Lose(m) ==
  /\ m \in peerNet /\ peerNet' = peerNet \ {m}
  /\ UNCHANGED <<peers, peerLife, packets>>

(* Five seconds without a datagram of the identity; Pump drops the entry.  *)
Silence(i) ==
  /\ peers[i] /= Unheard /\ peers' = [peers EXCEPT ![i].silent = TRUE]
  /\ UNCHANGED <<peerLife, peerNet, packets>>

(* Mutant of Expired: only client identities are dropped. *)
ExpiredClient(i) == i = "client" /\ peers[i] /= Unheard /\ peers[i].silent

Expired(i) == peers[i] /= Unheard /\ peers[i].silent

ExpirePeer(i) ==
  /\ Expired(i) /\ peers' = [peers EXCEPT ![i] = Unheard]
  /\ UNCHANGED <<peerLife, peerNet, packets>>

RestartPeer ==
  /\ peerLife < MaxLives /\ peerLife' = peerLife + 1
  /\ UNCHANGED <<peers, peerNet, packets>>

PeersNext ==
  \/ SendBeacon \/ RestartPeer
  \/ \E i \in Identity : SendPacket(i) \/ Silence(i) \/ ExpirePeer(i)
  \/ \E m \in peerNet : HandleDatagram(m) \/ Lose(m)

PeersSpec == PeersInit /\ [][PeersNext]_peerVars

(* Time passes: what is never heard of again turns silent.                 *)
Outdated(i) == peers[i] /= Unheard /\ peers[i].addr /= peerLife /\ Silence(i)

---------------------------------------------------------------------------
PeersTypeOK ==
  /\ peers \in [Identity -> PeerEntry \cup {Unheard}]
  /\ peerLife \in 1..MaxLives /\ packets \in 0..MaxDatagrams
  /\ \A m \in peerNet : m.id \in Identity /\ m.addr \in 1..MaxLives

(* However its process has restarted, packets for either identity of a     *)
(* node that goes on sending beacons end up at its present address, and    *)
(* again and again do have an address to go to (FindPeer, Pump's expiry).  *)
PeerReachedAgain == \A i \in Identity :
  /\ <>[](FindPeer(i) \subseteq {peerLife})
  /\ []<>(peerLife \in FindPeer(i))
=============================================================================
