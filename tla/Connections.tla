---------------------------- MODULE Connections ----------------------------
(***************************************************************************)
(* ISteamNetworkingSockets over UDP (src/net.cpp): a caller sends Req, the *)
(* listening side keeps a connection and tells its game, the game accepts  *)
(* and Acc goes back, then Msg both ways, and Fin when either side closes. *)
(* Each control message is sent once, unacknowledged; a datagram names its *)
(* receiver's connection by handle only.                                   *)
(*                                                                         *)
(* Every node runs a game thread and the pump thread.  A call or a handler *)
(* changes the tables under the lock and leaves what it does after the     *)
(* unlock, datagrams to send and status changes to report, in todo; the    *)
(* other thread may run in between.  One virtual port; no poll groups.     *)
(***************************************************************************)
EXTENDS Naturals, Sequences, Functions

CONSTANTS
  Nodes,
  Listeners,    \* the nodes whose game listens
  Callers,      \* the nodes whose game calls others
  Restarting,   \* the nodes whose process may restart, once
  Duplicated,   \* the kinds of datagrams that may arrive more than once
  MaxHandle,    \* bound: per node, the handles its process gives out
  MaxSends,     \* bound: messages sent in one behaviour
  MaxInbox      \* bound: messages received and not yet read

ASSUME ConnectionsAssumption ==
  /\ Listeners \cup Callers \cup Restarting \subseteq Nodes
  /\ Duplicated \subseteq {"Req", "Acc", "Msg", "Fin"}
  /\ MaxHandle \in [Nodes -> Nat] /\ MaxSends \in Nat /\ MaxInbox \in Nat

VARIABLES
  conns,       \* per node, its connections by handle
  listening,   \* per node, the handles of its listen sockets
  nextHandle,  \* per node, the next handle
  todo,        \* per node and thread, what the call under way has still to do
  net,         \* the datagrams sent and not consumed; any may never arrive
  life,        \* per node, how often its process has started
  sent,        \* number of messages sent
  seen,        \* history: per node and connection, the status last reported
  accepted     \* history: pairs of endpoints the listening game has accepted

vars == <<conns, listening, nextHandle, todo, net, life, sent, seen, accepted>>

Handle == UNION {1..MaxHandle[n] : n \in Nodes}
NoHandle == 0
Thread == {"game", "pump"}
State == {"None", "Connecting", "Connected", "ClosedByPeer"}

(* An address: the data socket gets a fresh port whenever a process starts. *)
Address == Nodes \X (1..2)
NoAddress == << >>
Self(n) == <<n, life[n]>>

Endpoint == Address \X Handle

(* A message carries the endpoint that sent it. *)
Message == Endpoint

Conn == [remote : Nodes, remoteAddr : Address \cup {NoAddress},
         remoteHandle : Handle \cup {NoHandle}, state : State,
         listen : Handle \cup {NoHandle}, inbox : Seq(Message)]

Datagram == [kind : {"Req", "Acc", "Msg", "Fin"}, from : Address,
             to : Address \cup {NoAddress}, src : Handle, dst : Handle \cup {NoHandle}]

Effect == [send : Datagram] \cup [report : State, conn : Handle]

TypeOK ==
  /\ conns = [n \in Nodes |-> [h \in DOMAIN conns[n] |-> conns[n][h]]]
  /\ \A n \in Nodes : DOMAIN conns[n] \subseteq Handle
                     /\ \A h \in DOMAIN conns[n] : conns[n][h] \in Conn
  /\ listening \in [Nodes -> SUBSET Handle]
  /\ nextHandle \in [Nodes -> Nat]
  /\ \A n \in Nodes : nextHandle[n] \in 1..MaxHandle[n] + 1
  /\ todo \in [Nodes -> [Thread -> Seq(Effect)]]
  /\ net \subseteq Datagram
  /\ life \in [Nodes -> 1..2]
  /\ sent \in 0..MaxSends
  /\ seen \in [Nodes -> [Handle -> State]]
  /\ accepted \subseteq [server : Endpoint, client : Endpoint]

Init ==
  /\ conns = [n \in Nodes |-> << >>]
  /\ listening = [n \in Nodes |-> {}]
  /\ nextHandle = [n \in Nodes |-> 1]
  /\ todo = [n \in Nodes |-> [t \in Thread |-> << >>]]
  /\ net = {}
  /\ life = [n \in Nodes |-> 1]
  /\ sent = 0
  /\ seen = [n \in Nodes |-> [h \in Handle |-> "None"]]
  /\ accepted = {}

-----------------------------------------------------------------------------
Idle(n, t) == todo[n][t] = << >>

Send(n, kind, h, c) ==
  [send |-> [kind |-> kind, from |-> Self(n), to |-> c.remoteAddr,
             src |-> h, dst |-> c.remoteHandle]]
Report(h, state) == [report |-> state, conn |-> h]

Later(n, t, effects) == todo' = [todo EXCEPT ![n][t] = effects]

(* A new handle, and the connection it stands for. *)
NewHandle(n, h) ==
  /\ h = nextHandle[n]
  /\ h <= MaxHandle[n]
  /\ nextHandle' = [nextHandle EXCEPT ![n] = h + 1]
NewConn(n, h, c) == conns' = [conns EXCEPT ![n] = [x \in DOMAIN @ \cup {h} |->
                                                   IF x = h THEN c ELSE @[x]]]

Forget(n, h) == conns' = [conns EXCEPT ![n] = Restrict(@, DOMAIN @ \ {h})]

(* What the thread does without the lock: a datagram, a status report. *)
SendNext(n, t) ==
  /\ ~Idle(n, t)
  /\ "send" \in DOMAIN Head(todo[n][t])
  /\ net' = net \cup {Head(todo[n][t]).send}
  /\ Later(n, t, Tail(todo[n][t]))
  /\ UNCHANGED <<conns, listening, nextHandle, life, sent, seen, accepted>>

FireConnStatus(n, t) ==
  /\ ~Idle(n, t)
  /\ "report" \in DOMAIN Head(todo[n][t])
  /\ LET e == Head(todo[n][t]) IN seen' = [seen EXCEPT ![n][e.conn] = e.report]
  /\ Later(n, t, Tail(todo[n][t]))
  /\ UNCHANGED <<conns, listening, nextHandle, net, life, sent, accepted>>

-----------------------------------------------------------------------------
(* The game's calls *)

CreateListenSocketP2P(n) ==
  /\ n \in Listeners
  /\ Idle(n, "game")
  /\ \E h \in Handle : NewHandle(n, h) /\ listening' = [listening EXCEPT ![n] = @ \cup {h}]
  /\ UNCHANGED <<conns, todo, net, life, sent, seen, accepted>>

CloseListenSocket(n, h) ==
  /\ Idle(n, "game")
  /\ h \in listening[n]
  /\ listening' = [listening EXCEPT ![n] = @ \ {h}]
  /\ UNCHANGED <<conns, nextHandle, todo, net, life, sent, seen, accepted>>

(* What is left to ConnectP2P once the connection exists.                  *)
(* Mutant: the request goes out before the report.                         *)
CallFirst(n, h, c) ==
  IF c.remoteAddr = NoAddress THEN <<Report(h, "Connecting")>>
  ELSE <<Send(n, "Req", h, c), Report(h, "Connecting")>>
Call(n, h, c) ==
  IF c.remoteAddr = NoAddress THEN <<Report(h, "Connecting")>>
  ELSE <<Report(h, "Connecting"), Send(n, "Req", h, c)>>

(* The address is the one the table of peers has for the remote: from a    *)
(* beacon of this life or of an earlier one, or none.                      *)
KnownAddress(remote) == {NoAddress} \cup {<<remote, l>> : l \in 1..life[remote]}

ConnectP2P(n, remote) ==
  /\ n \in Callers /\ remote # n
  /\ Idle(n, "game")
  /\ \E h \in Handle, addr \in KnownAddress(remote) :
       /\ NewHandle(n, h)
       /\ LET c == [remote |-> remote, remoteAddr |-> addr,
                    remoteHandle |-> NoHandle, state |-> "Connecting",
                    listen |-> NoHandle, inbox |-> << >>]
          IN  NewConn(n, h, c) /\ Later(n, "game", Call(n, h, c))
  /\ UNCHANGED <<listening, net, life, sent, seen, accepted>>

(* The game accepts a connection it was told of, on a listen socket. *)
AcceptConnection(n, h) ==
  /\ Idle(n, "game")
  /\ h \in DOMAIN conns[n]
  /\ conns[n][h].listen # NoHandle /\ seen[n][h] = "Connecting"
  /\ conns' = [conns EXCEPT ![n][h].state = "Connected"]
  /\ LET c == conns[n][h]
     IN  /\ Later(n, "game", <<Send(n, "Acc", h, c), Report(h, "Connected")>>)
         /\ accepted' = accepted \cup {[server |-> <<Self(n), h>>,
                                        client |-> <<c.remoteAddr, c.remoteHandle>>]}
  /\ UNCHANGED <<listening, nextHandle, net, life, sent, seen>>

CloseConnection(n, h) ==
  /\ Idle(n, "game")
  /\ h \in DOMAIN conns[n] /\ seen[n][h] # "None"
  /\ Forget(n, h)
  /\ Later(n, "game", <<Send(n, "Fin", h, conns[n][h])>>)
  /\ seen' = [seen EXCEPT ![n][h] = "None"]
  /\ UNCHANGED <<listening, nextHandle, net, life, sent, accepted>>

SendToConnection(n, h) ==
  /\ Idle(n, "game")
  /\ h \in DOMAIN conns[n] /\ conns[n][h].state = "Connected"
  /\ sent < MaxSends
  /\ sent' = sent + 1
  /\ Later(n, "game", <<Send(n, "Msg", h, conns[n][h])>>)
  /\ UNCHANGED <<conns, listening, nextHandle, net, life, seen, accepted>>

(* Up to k messages at a time. *)
ReceiveOnConnection(n, h, k) ==
  /\ Idle(n, "game")
  /\ h \in DOMAIN conns[n] /\ conns[n][h].inbox # << >>
  /\ k \in 1..Len(conns[n][h].inbox)
  /\ conns' = [conns EXCEPT ![n][h].inbox = SubSeq(@, k + 1, Len(@))]
  /\ UNCHANGED <<listening, nextHandle, todo, net, life, sent, seen, accepted>>

-----------------------------------------------------------------------------
(* The pump thread *)

(* A datagram reaches the socket it was sent to. *)
Receive(n, d, kind) ==
  /\ Idle(n, "pump")
  /\ d \in net /\ d.kind = kind /\ d.to = Self(n)
  /\ net' = net \ {d} \/ (kind \in Duplicated /\ net' = net)

(* Mutant of HandleReq: the pump accepts on its own. *)
HandleReqAccepting(n, d) ==
  /\ Receive(n, d, "Req")
  /\ listening[n] # {}
  /\ \E h \in Handle, listen \in listening[n] :
       /\ \A l \in listening[n] : listen <= l
       /\ NewHandle(n, h)
       /\ NewConn(n, h, [remote |-> d.from[1], remoteAddr |-> d.from,
                         remoteHandle |-> d.src, state |-> "Connecting",
                         listen |-> listen, inbox |-> << >>])
       /\ Later(n, "pump", <<Report(h, "Connecting"),
                            Send(n, "Acc", h, [remoteAddr |-> d.from, remoteHandle |-> d.src])>>)
  /\ UNCHANGED <<listening, life, sent, seen, accepted>>

(* The connection a request asks for; nobody listening, it is ignored. *)
HandleReq(n, d) ==
  /\ Receive(n, d, "Req")
  /\ listening[n] # {}
  /\ \E h \in Handle, listen \in listening[n] :
       /\ \A l \in listening[n] : listen <= l
       /\ NewHandle(n, h)
       /\ NewConn(n, h, [remote |-> d.from[1], remoteAddr |-> d.from,
                         remoteHandle |-> d.src, state |-> "Connecting",
                         listen |-> listen, inbox |-> << >>])
       /\ Later(n, "pump", <<Report(h, "Connecting")>>)
  /\ UNCHANGED <<listening, life, sent, seen, accepted>>

(* Mutant of Answer: a connection may also be found by its sender.         *)
AnswerBySender(n, d, h) ==
  h \in DOMAIN conns[n] /\ (h = d.dst \/ conns[n][h].remote = d.from[1])
(* The connection an Acc, Msg or Fin is for. *)
Answer(n, d, h) == h \in DOMAIN conns[n] /\ h = d.dst

HandleAcc(n, d) ==
  /\ Receive(n, d, "Acc")
  /\ \E h \in Handle :
       /\ Answer(n, d, h)
       /\ conns' = [conns EXCEPT ![n][h].remoteHandle = d.src,
                                 ![n][h].state = "Connected"]
       /\ Later(n, "pump", <<Report(h, "Connected")>>)
  /\ UNCHANGED <<listening, nextHandle, life, sent, seen, accepted>>

HandleMsg(n, d) ==
  /\ Receive(n, d, "Msg")
  /\ \E h \in Handle :
       /\ Answer(n, d, h)
       /\ Len(conns[n][h].inbox) < MaxInbox
       /\ conns' = [conns EXCEPT ![n][h].inbox = Append(@, <<d.from, d.src>>)]
  /\ UNCHANGED <<listening, nextHandle, todo, life, sent, seen, accepted>>

HandleFin(n, d) ==
  /\ Receive(n, d, "Fin")
  /\ \E h \in Handle :
       /\ Answer(n, d, h)
       /\ conns' = [conns EXCEPT ![n][h].state = "ClosedByPeer"]
       /\ Later(n, "pump", <<Report(h, "ClosedByPeer")>>)
  /\ UNCHANGED <<listening, nextHandle, life, sent, seen, accepted>>

(* Mutant of Restart: handles are given out from 0, the invalid one. *)
RestartFromZero(n) ==
  /\ n \in Restarting /\ life[n] = 1
  /\ life' = [life EXCEPT ![n] = 2]
  /\ conns' = [conns EXCEPT ![n] = << >>]
  /\ listening' = [listening EXCEPT ![n] = {}]
  /\ nextHandle' = [nextHandle EXCEPT ![n] = 0]
  /\ todo' = [todo EXCEPT ![n] = [t \in Thread |-> << >>]]
  /\ seen' = [seen EXCEPT ![n] = [h \in Handle |-> "None"]]
  /\ net' = {d \in net : d.to # Self(n)}
  /\ UNCHANGED <<sent, accepted>>

(* The process ends without closing anything and starts again: its socket  *)
(* closes, with what is on the way there.                                  *)
Restart(n) ==
  /\ n \in Restarting /\ life[n] = 1
  /\ life' = [life EXCEPT ![n] = 2]
  /\ conns' = [conns EXCEPT ![n] = << >>]
  /\ listening' = [listening EXCEPT ![n] = {}]
  /\ nextHandle' = [nextHandle EXCEPT ![n] = 1]
  /\ todo' = [todo EXCEPT ![n] = [t \in Thread |-> << >>]]
  /\ seen' = [seen EXCEPT ![n] = [h \in Handle |-> "None"]]
  /\ net' = {d \in net : d.to # Self(n)}
  /\ UNCHANGED <<sent, accepted>>

-----------------------------------------------------------------------------
Game(n) ==
  \/ CreateListenSocketP2P(n)
  \/ \E m \in Nodes : ConnectP2P(n, m)
  \/ \E h \in Handle :
       \/ CloseListenSocket(n, h) \/ AcceptConnection(n, h)
       \/ CloseConnection(n, h) \/ SendToConnection(n, h)
       \/ \E k \in 1..MaxInbox : ReceiveOnConnection(n, h, k)

Pump(n) ==
  \E d \in net :
    HandleReq(n, d) \/ HandleAcc(n, d) \/ HandleMsg(n, d) \/ HandleFin(n, d)

Next ==
  \E n \in Nodes :
    \/ Game(n) \/ Pump(n) \/ Restart(n)
    \/ \E t \in Thread : SendNext(n, t) \/ FireConnStatus(n, t)

Spec == Init /\ [][Next]_vars
-----------------------------------------------------------------------------
(* Properties *)

(* What a connection's inbox holds was sent by the connection at its other *)
(* end: the one that asked for it, or one the other game accepted for it;  *)
(* also when both ends have other connections, or have restarted and given *)
(* out the same handles again.                                             *)
NoCrossTalk ==
  \A n \in Nodes : \A h \in DOMAIN conns[n] :
    LET c == conns[n][h]
    IN  \A i \in DOMAIN c.inbox :
          IF c.listen # NoHandle THEN c.inbox[i] = <<c.remoteAddr, c.remoteHandle>>
          ELSE [server |-> c.inbox[i], client |-> <<Self(n), h>>] \in accepted

(* A caller takes itself for connected only to the connection the game at  *)
(* the address it called has accepted for it.                              *)
ConnectedWasAccepted ==
  \A n \in Nodes : \A h \in DOMAIN conns[n] :
    LET c == conns[n][h]
    IN  c.listen = NoHandle /\ c.state = "Connected" =>
          [server |-> <<c.remoteAddr, c.remoteHandle>>, client |-> <<Self(n), h>>]
            \in accepted

(* With no call under way, the status the game was last told of is the     *)
(* state the connection is in.                                             *)
Current(n, h) ==
  Idle(n, "game") /\ Idle(n, "pump") => seen[n][h] = conns[n][h].state
StatusCurrent == \A n \in Nodes : \A h \in DOMAIN conns[n] : Current(n, h)

(* So it is for the connections a game has called for: the report of the   *)
(* call is made before the request that can be answered is sent.           *)
CallerStatusCurrent ==
  \A n \in Nodes : \A h \in DOMAIN conns[n] :
    conns[n][h].listen = NoHandle => Current(n, h)
=============================================================================
