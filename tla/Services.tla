------------------------------ MODULE Services ------------------------------
(***************************************************************************)
(* The services of a process beside the dispatcher, the gossip of lobbies  *)
(* and the connections: lobby chat, peer discovery, P2P sessions, the life *)
(* of the LAN backend, the overlay, cloud files, stats and leaderboards.   *)
(* They share no state, so steps of two of them commute, and a behaviour   *)
(* follows one, its subject, and leaves the others as they are; every      *)
(* property is about one of them.                                          *)
(***************************************************************************)
EXTENDS LobbyChat, Peers, P2PSessions, NetLifecycle, Overlay,
        CloudFiles, UserStats, Leaderboards

VARIABLE subject  \* the service the behaviour follows

behind == <<peerVars, p2pVars, lifeVars, overlayVars>>
records == <<cloudVars, statVars, boardVars>>
vars == <<subject, chatVars, behind, records>>

Subject ==
  {"chat", "peers", "sessions", "lifecycle", "overlay", "files", "stats", "boards"}

Init ==
  /\ subject \in Subject
  /\ ChatInit /\ PeersInit /\ P2PInit /\ LifeInit /\ OverlayInit
  /\ CloudInit /\ StatsInit /\ BoardInit

Next ==
  /\ UNCHANGED subject
  /\ \/ subject = "chat" /\ ChatNext /\ UNCHANGED <<behind, records>>
     \/ /\ subject = "peers" /\ PeersNext
        /\ UNCHANGED <<chatVars, p2pVars, lifeVars, overlayVars, records>>
     \/ /\ subject = "sessions" /\ P2PNext
        /\ UNCHANGED <<chatVars, peerVars, lifeVars, overlayVars, records>>
     \/ /\ subject = "lifecycle" /\ LifeNext
        /\ UNCHANGED <<chatVars, peerVars, p2pVars, overlayVars, records>>
     \/ /\ subject = "overlay" /\ OverlayNext
        /\ UNCHANGED <<chatVars, peerVars, p2pVars, lifeVars, records>>
     \/ /\ subject = "files" /\ CloudNext
        /\ UNCHANGED <<chatVars, behind, statVars, boardVars>>
     \/ /\ subject = "stats" /\ StatsNext
        /\ UNCHANGED <<chatVars, behind, cloudVars, boardVars>>
     \/ /\ subject = "boards" /\ BoardNext
        /\ UNCHANGED <<chatVars, behind, cloudVars, statVars>>

---------------------------------------------------------------------------
(* Fairness is what the code's own scheduling gives; chat and the stores   *)
(* promise nothing that needs any.  The other node sends beacons for ever  *)
(* and some arrive; who is silent for five seconds is noticed by the pump. *)
PeersFairness ==
  /\ WF_peerVars(subject = "peers" /\ SendBeacon)
  /\ \A a \in 1..MaxLives : SF_peerVars(subject = "peers" /\
       \E m \in peerNet : m.kind = "beacon" /\ m.addr = a /\ HandleDatagram(m))
  /\ \A i \in Identity :
       /\ WF_peerVars(subject = "peers" /\ Outdated(i))
       /\ WF_peerVars(subject = "peers" /\ ExpirePeer(i))

(* The game's threads go on calling, and a pump that runs is scheduled.    *)
LifeFairness ==
  /\ \A t \in Callers : WF_lifeVars(subject = "lifecycle" /\ CallerStep(t))
  /\ \A i \in Impl : WF_lifeVars(subject = "lifecycle" /\ PumpImpl(i))

(* The game pumps in every frame; what a thread has begun it finishes.     *)
OverlayFairness ==
  /\ WF_overlayVars(subject = "overlay" /\ GameStep)
  /\ WF_overlayVars(subject = "overlay" /\ WindowStep)
  /\ \A a \in Asker : WF_overlayVars(subject = "overlay" /\ Finish(a))
  /\ \A p \in OverlayPumps : WF_overlayVars(subject = "overlay" /\ Consume(p))

Spec == Init /\ [][Next]_vars /\ PeersFairness /\ LifeFairness /\ OverlayFairness

---------------------------------------------------------------------------
(* The types of all the services.                                          *)
TypeOK ==
  /\ subject \in Subject
  /\ ChatTypeOK /\ PeersTypeOK /\ P2PTypeOK /\ LifeTypeOK /\ OverlayTypeOK
  /\ CloudTypeOK /\ StatsTypeOK /\ BoardTypeOK

(* However the other node restarts, it is reached again (Peers).           *)
PeersReachedAgain == subject = "peers" => PeerReachedAgain

(* After a shutdown and an init the backend is back (NetLifecycle).        *)
LanComesBack == subject = "lifecycle" => BackendComesBack
=============================================================================
