------------------------- MODULE ConnectionsProofs -------------------------
(***************************************************************************)
(* Proofs about Connections, for any nodes, any of which may listen, call  *)
(* and restart, with any kinds of datagrams duplicated: the types, and     *)
(* that no message reaches the game over a connection it was not sent to,  *)
(* no caller takes itself for connected to what did not accept it, and the *)
(* game knows the state of the connections it has called for.              *)
(***************************************************************************)
EXTENDS Connections, SequenceTheorems, TLAPS

-----------------------------------------------------------------------------
(* The inductive invariant.  A datagram names its receiver by handle only, *)
(* so what has to be shown is that a handle still means, when a datagram   *)
(* arrives, what it meant when it was sent: the address tells a process    *)
(* from the one before it, and a process gives out no handle twice.        *)

(* The process has given out the handle of the endpoint: no connection     *)
(* made later is at that endpoint.                                         *)
Issued(e) ==
  /\ e[1][2] <= life[e[1][1]]
  /\ e[1] = Self(e[1][1]) => e[2] < nextHandle[e[1][1]]

(* The endpoint, as long as there is a connection at it, is that of a game *)
(* that called addr.                                                       *)
CallerEnd(e, addr) ==
  \A n \in Nodes : e[1] = Self(n) /\ e[2] \in DOMAIN conns[n] =>
    /\ conns[n][e[2]].listen = NoHandle
    /\ conns[n][e[2]].remoteAddr = addr

(* ... is that of a connection client has asked for. *)
ServerEnd(e, client) ==
  \A n \in Nodes : e[1] = Self(n) /\ e[2] \in DOMAIN conns[n] =>
    /\ conns[n][e[2]].listen # NoHandle
    /\ <<conns[n][e[2]].remoteAddr, conns[n][e[2]].remoteHandle>> = client

Pair(server, client) == [server |-> server, client |-> client]

HandlesIssued ==
  \A n \in Nodes : \A h \in DOMAIN conns[n] : h < nextHandle[n]

(* What a connection that was asked for says of the one who asked. *)
ServerConn(n, h) ==
  LET c == conns[n][h]
      client == <<c.remoteAddr, c.remoteHandle>>
  IN  c.listen # NoHandle =>
        /\ client \in Endpoint
        /\ Issued(client)
        /\ CallerEnd(client, Self(n))
        /\ c.state = "Connected" => Pair(<<Self(n), h>>, client) \in accepted

(* What the pairs the game has accepted say of the two connections. *)
Agreed(r) ==
  /\ Issued(r.server)
  /\ Issued(r.client)
  /\ ServerEnd(r.server, r.client)
  /\ CallerEnd(r.client, r.server[1])

(* What a datagram says of its sender, from when it is due to be sent. *)
Truthful(d) ==
  LET sender == <<d.from, d.src>>
      receiver == <<d.to, d.dst>>
  IN  /\ d.kind = "Req" => Issued(sender) /\ CallerEnd(sender, d.to)
      /\ d.kind = "Acc" => Pair(sender, receiver) \in accepted
      /\ d.kind = "Msg" => \/ Pair(sender, receiver) \in accepted
                           \/ Pair(receiver, sender) \in accepted

Due(n, t) == {d \in Datagram : \E i \in DOMAIN todo[n][t] : todo[n][t][i] = [send |-> d]}

AllTruthful ==
  /\ \A d \in net : Truthful(d)
  /\ \A n \in Nodes, t \in Thread : \A d \in Due(n, t) : Truthful(d)

(* The bodies of ConnectedWasAccepted and NoCrossTalk. *)
CallerConn(n, h) ==
  LET c == conns[n][h]
  IN  c.listen = NoHandle /\ c.state = "Connected" =>
        Pair(<<c.remoteAddr, c.remoteHandle>>, <<Self(n), h>>) \in accepted

InboxFrom(n, h) ==
  LET c == conns[n][h]
  IN  \A i \in DOMAIN c.inbox :
        IF c.listen # NoHandle THEN c.inbox[i] = <<c.remoteAddr, c.remoteHandle>>
        ELSE Pair(c.inbox[i], <<Self(n), h>>) \in accepted

ConnOK(n, h) == ServerConn(n, h) /\ CallerConn(n, h) /\ InboxFrom(n, h)

IInv ==
  /\ TypeOK
  /\ HandlesIssued
  /\ \A n \in Nodes : \A h \in DOMAIN conns[n] : ConnOK(n, h)
  /\ \A r \in accepted : Agreed(r)
  /\ AllTruthful

LEMMA IInvImplies == IInv => ConnectedWasAccepted /\ NoCrossTalk
BY DEF IInv, ConnOK, CallerConn, InboxFrom, Pair, ConnectedWasAccepted, NoCrossTalk

-----------------------------------------------------------------------------
(* What every step keeps: pairs accepted, the handles a process has given  *)
(* out, and of a connection that existed whose it is.                      *)
SameEnd(n, h) ==
  /\ h \in DOMAIN conns[n]
  /\ conns'[n][h].listen = conns[n][h].listen
  /\ conns'[n][h].remoteAddr = conns[n][h].remoteAddr
  /\ conns[n][h].listen # NoHandle => conns'[n][h].remoteHandle = conns[n][h].remoteHandle

KeptAt(n) ==
  /\ life[n] <= life'[n]
  /\ life'[n] = life[n] =>
       /\ nextHandle[n] <= nextHandle'[n]
       /\ \A h \in DOMAIN conns'[n] : SameEnd(n, h) \/ h >= nextHandle[n]
  /\ life'[n] # life[n] => DOMAIN conns'[n] = {}

Kept ==
  /\ accepted \subseteq accepted'
  /\ \A n \in Nodes : KeptAt(n)

Numbers ==
  /\ life \in [Nodes -> 1..2] /\ life' \in [Nodes -> 1..2]
  /\ nextHandle \in [Nodes -> Nat] /\ nextHandle' \in [Nodes -> Nat]
  /\ Handle \subseteq Nat

LEMMA SelfFacts ==
  ASSUME NEW n \in Nodes, NEW m \in Nodes
  PROVE  /\ Self(n) = Self(m) <=> n = m
         /\ Self(n)[1] = n /\ Self(n)[2] = life[n]
         /\ (Self(n) = Self(m) <=> n = m)'
         /\ Self(n)'[1] = n /\ Self(n)'[2] = life'[n]
BY DEF Self

LEMMA EndpointParts ==
  ASSUME NEW e \in Endpoint
  PROVE  /\ e[1] \in Address /\ e[1] \in Nodes \X (1..2) /\ e[2] \in Handle
         /\ e[1][1] \in Nodes /\ e[1][2] \in 1..2
<1>1. e[1] \in Address /\ e[2] \in Handle
  BY DEF Endpoint
<1>. QED  BY <1>1 DEF Address

(* A process gives out no handle twice, and no earlier one comes back. *)
Rising ==
  \A n \in Nodes :
    /\ life[n] <= life'[n]
    /\ life'[n] = life[n] => nextHandle[n] <= nextHandle'[n]

LEMMA IssuedRises ==
  ASSUME Numbers, Rising, NEW e \in Endpoint, Issued(e)
  PROVE  Issued(e)'
<1>. DEFINE n == e[1][1]
<1>1. /\ e[1] \in Nodes \X (1..2) /\ e[2] \in Handle
      /\ n \in Nodes /\ e[1][2] \in Nat /\ e[2] \in Nat
  <2>1. e[1][2] \in 1..2 /\ e[2] \in Handle /\ e[1] \in Nodes \X (1..2) /\ n \in Nodes
    BY EndpointParts
  <2>2. e[1][2] \in Nat
    BY <2>1
  <2>. QED  BY <2>1, <2>2 DEF Numbers
<1>2. e[1][2] <= life[n] /\ (e[1] = Self(n) => e[2] < nextHandle[n])
  BY <1>1 DEF Issued
<1>3. /\ life[n] \in Nat /\ life'[n] \in Nat
      /\ nextHandle[n] \in Nat /\ nextHandle'[n] \in Nat
  BY <1>1 DEF Numbers
<1>. HIDE DEF n
<1>4. e[1][2] <= life'[n]
  BY <1>1, <1>2, <1>3 DEF Rising
<1>5. ASSUME e[1] = Self(n)'
      PROVE  e[2] < nextHandle'[n]
  <2>1. e[1][2] = life'[n]
    BY <1>1, <1>5, SelfFacts
  <2>2. life'[n] = life[n]
    BY <1>1, <1>2, <1>3, <2>1 DEF Rising
  <2>3. e[1] = Self(n)
    BY <1>5, <2>2 DEF Self
  <2>. QED  BY <1>1, <1>2, <1>3, <2>2, <2>3 DEF Rising
<1>. QED  BY <1>4, <1>5 DEF Issued, n

LEMMA IssuedKept ==
  ASSUME Numbers, Kept, NEW e \in Endpoint, Issued(e)
  PROVE  Issued(e)'
<1>1. Rising
  BY DEF Kept, KeptAt, Rising
<1>. QED  BY <1>1, IssuedRises

LEMMA EndsKept ==
  ASSUME Numbers, Kept, NEW e \in Endpoint, Issued(e),
         NEW n \in Nodes, e[1] = Self(n)', e[2] \in DOMAIN conns'[n]
  PROVE  e[1] = Self(n) /\ SameEnd(n, e[2])
<1>1. KeptAt(n) /\ e[1][1] = n /\ e[1][2] = life'[n] /\ e[2] \in Nat
  BY SelfFacts DEF Kept, Numbers, Endpoint
<1>2. life'[n] = life[n]
  BY <1>1 DEF KeptAt
<1>3. e[1] = Self(n)
  BY <1>2 DEF Self
<1>4. e[2] < nextHandle[n] /\ nextHandle[n] \in Nat
  BY <1>1, <1>3 DEF Issued, Numbers
<1>. QED  BY <1>1, <1>2, <1>3, <1>4 DEF KeptAt

LEMMA CallerEndKept ==
  ASSUME Numbers, Kept, NEW e \in Endpoint, Issued(e), NEW addr, CallerEnd(e, addr)
  PROVE  CallerEnd(e, addr)'
<1>1. SUFFICES ASSUME NEW n \in Nodes, e[1] = Self(n)', e[2] \in DOMAIN conns'[n]
               PROVE  /\ conns'[n][e[2]].listen = NoHandle
                      /\ conns'[n][e[2]].remoteAddr = addr
  BY DEF CallerEnd
<1>2. e[1] = Self(n) /\ SameEnd(n, e[2])
  BY <1>1, EndsKept
<1>. QED  BY <1>2 DEF CallerEnd, SameEnd

LEMMA ServerEndKept ==
  ASSUME Numbers, Kept, NEW e \in Endpoint, Issued(e), NEW client, ServerEnd(e, client)
  PROVE  ServerEnd(e, client)'
<1>1. SUFFICES ASSUME NEW n \in Nodes, e[1] = Self(n)', e[2] \in DOMAIN conns'[n]
               PROVE  /\ conns'[n][e[2]].listen # NoHandle
                      /\ <<conns'[n][e[2]].remoteAddr, conns'[n][e[2]].remoteHandle>> = client
  BY DEF ServerEnd
<1>2. e[1] = Self(n) /\ SameEnd(n, e[2])
  BY <1>1, EndsKept
<1>. QED  BY <1>2 DEF ServerEnd, SameEnd

LEMMA AgreedKept ==
  ASSUME Numbers, Kept, NEW r \in [server : Endpoint, client : Endpoint], Agreed(r)
  PROVE  Agreed(r)'
<1>1. r.server \in Endpoint /\ r.client \in Endpoint
  OBVIOUS
<1>. QED  BY <1>1, IssuedKept, CallerEndKept, ServerEndKept DEF Agreed

LEMMA TruthfulKept ==
  ASSUME Numbers, Kept, NEW d \in Datagram, Truthful(d)
  PROVE  Truthful(d)'
<1>1. <<d.from, d.src>> \in Endpoint
  BY DEF Datagram, Endpoint
<1>. QED  BY <1>1, IssuedKept, CallerEndKept DEF Truthful, Kept

-----------------------------------------------------------------------------
(* The tables of connections *)

ConnTyped ==
  /\ conns = [n \in Nodes |-> conns[n]]
  /\ \A n \in Nodes : /\ conns[n] = [h \in DOMAIN conns[n] |-> conns[n][h]]
                     /\ DOMAIN conns[n] \subseteq Handle
                     /\ \A h \in DOMAIN conns[n] : conns[n][h] \in Conn

RestTyped ==
  /\ listening \in [Nodes -> SUBSET Handle]
  /\ nextHandle \in [Nodes -> Nat]
  /\ \A n \in Nodes : nextHandle[n] \in 1..MaxHandle[n] + 1
  /\ todo \in [Nodes -> [Thread -> Seq(Effect)]]
  /\ net \subseteq Datagram
  /\ life \in [Nodes -> 1..2]
  /\ sent \in 0..MaxSends
  /\ seen \in [Nodes -> [Handle -> State]]
  /\ accepted \subseteq [server : Endpoint, client : Endpoint]

LEMMA Types == /\ TypeOK <=> ConnTyped /\ RestTyped
               /\ TypeOK' <=> ConnTyped' /\ RestTyped'
<1>1. ConnTyped <=> /\ conns = [n \in Nodes |-> [h \in DOMAIN conns[n] |-> conns[n][h]]]
                    /\ \A n \in Nodes : DOMAIN conns[n] \subseteq Handle
                                       /\ \A h \in DOMAIN conns[n] : conns[n][h] \in Conn
  BY DEF ConnTyped
<1>2. (ConnTyped <=> /\ conns = [n \in Nodes |-> [h \in DOMAIN conns[n] |-> conns[n][h]]]
                     /\ \A n \in Nodes : DOMAIN conns[n] \subseteq Handle
                                        /\ \A h \in DOMAIN conns[n] : conns[n][h] \in Conn)'
  BY <1>1, PTL
<1>. QED  BY <1>1, <1>2 DEF TypeOK, RestTyped

LEMMA HandleNat ==
  /\ Handle \subseteq Nat
  /\ NoHandle \notin Handle
  /\ \A n \in Nodes : \A h \in Nat : 1 <= h /\ h <= MaxHandle[n] => h \in Handle
BY ConnectionsAssumption DEF Handle, NoHandle

(* A step that gives one node another table. *)
LEMMA TableTyped ==
  ASSUME ConnTyped, NEW n \in Nodes, NEW f,
         conns' = [m \in Nodes |-> IF m = n THEN f ELSE conns[m]],
         f = [x \in DOMAIN f |-> f[x]],
         DOMAIN f \subseteq Handle,
         \A x \in DOMAIN f : f[x] \in Conn
  PROVE  /\ ConnTyped'
         /\ conns'[n] = f /\ \A m \in Nodes \ {n} : conns'[m] = conns[m]
<1>1. conns'[n] = f /\ \A m \in Nodes \ {n} : conns'[m] = conns[m]
  OBVIOUS
<1>2. conns' = [m \in Nodes |-> conns'[m]]
  OBVIOUS
<1>3. ConnTyped'
  BY <1>1, <1>2 DEF ConnTyped
<1>. QED  BY <1>1, <1>3

(* One connection is made, changed or forgotten; the others stay. *)
LEMMA NewConnFacts ==
  ASSUME ConnTyped, NEW n \in Nodes, NEW h \in Handle, NEW c \in Conn, NewConn(n, h, c)
  PROVE  /\ ConnTyped'
         /\ DOMAIN conns'[n] = DOMAIN conns[n] \cup {h}
         /\ conns'[n][h] = c
         /\ \A x \in DOMAIN conns[n] \ {h} : conns'[n][x] = conns[n][x]
         /\ \A m \in Nodes \ {n} : conns'[m] = conns[m]
<1>. DEFINE f == [x \in DOMAIN conns[n] \cup {h} |-> IF x = h THEN c ELSE conns[n][x]]
<1>1. conns' = [m \in Nodes |-> IF m = n THEN f ELSE conns[m]]
  BY DEF NewConn, ConnTyped
<1>2. /\ DOMAIN f = DOMAIN conns[n] \cup {h}
      /\ f = [x \in DOMAIN f |-> f[x]]
      /\ f[h] = c
      /\ \A x \in DOMAIN conns[n] \ {h} : f[x] = conns[n][x]
  OBVIOUS
<1>. HIDE DEF f
<1>3. DOMAIN f \subseteq Handle /\ \A x \in DOMAIN f : f[x] \in Conn
  BY <1>2 DEF ConnTyped
<1>4. /\ ConnTyped'
      /\ conns'[n] = f /\ \A m \in Nodes \ {n} : conns'[m] = conns[m]
  BY <1>1, <1>2, <1>3, TableTyped
<1>. QED  BY <1>2, <1>4

Changed(n, h, c) == conns' = [conns EXCEPT ![n][h] = c]

LEMMA ChangeFacts ==
  ASSUME ConnTyped, NEW n \in Nodes, NEW h \in DOMAIN conns[n], NEW c \in Conn,
         Changed(n, h, c)
  PROVE  /\ ConnTyped'
         /\ DOMAIN conns'[n] = DOMAIN conns[n]
         /\ conns'[n][h] = c
         /\ \A x \in DOMAIN conns[n] \ {h} : conns'[n][x] = conns[n][x]
         /\ \A m \in Nodes \ {n} : conns'[m] = conns[m]
<1>. DEFINE f == [x \in DOMAIN conns[n] |-> IF x = h THEN c ELSE conns[n][x]]
<1>1. conns' = [m \in Nodes |-> IF m = n THEN f ELSE conns[m]]
  BY DEF Changed, ConnTyped
<1>2. /\ DOMAIN f = DOMAIN conns[n]
      /\ f = [x \in DOMAIN f |-> f[x]]
      /\ f[h] = c
      /\ \A x \in DOMAIN conns[n] \ {h} : f[x] = conns[n][x]
  OBVIOUS
<1>. HIDE DEF f
<1>3. DOMAIN f \subseteq Handle /\ \A x \in DOMAIN f : f[x] \in Conn
  BY <1>2 DEF ConnTyped
<1>4. /\ ConnTyped'
      /\ conns'[n] = f /\ \A m \in Nodes \ {n} : conns'[m] = conns[m]
  BY <1>1, <1>2, <1>3, TableTyped
<1>. QED  BY <1>2, <1>4

LEMMA ForgetFacts ==
  ASSUME ConnTyped, NEW n \in Nodes, NEW h, Forget(n, h)
  PROVE  /\ ConnTyped'
         /\ DOMAIN conns'[n] = DOMAIN conns[n] \ {h}
         /\ \A x \in DOMAIN conns[n] \ {h} : conns'[n][x] = conns[n][x]
         /\ \A m \in Nodes \ {n} : conns'[m] = conns[m]
<1>. DEFINE f == [x \in DOMAIN conns[n] \ {h} |-> conns[n][x]]
<1>1. conns' = [m \in Nodes |-> IF m = n THEN f ELSE conns[m]]
  BY DEF Forget, Restrict, ConnTyped
<1>2. /\ DOMAIN f = DOMAIN conns[n] \ {h}
      /\ f = [x \in DOMAIN f |-> f[x]]
      /\ \A x \in DOMAIN conns[n] \ {h} : f[x] = conns[n][x]
  OBVIOUS
<1>. HIDE DEF f
<1>3. DOMAIN f \subseteq Handle /\ \A x \in DOMAIN f : f[x] \in Conn
  BY <1>2 DEF ConnTyped
<1>4. /\ ConnTyped'
      /\ conns'[n] = f /\ \A m \in Nodes \ {n} : conns'[m] = conns[m]
  BY <1>1, <1>2, <1>3, TableTyped
<1>. QED  BY <1>2, <1>4

-----------------------------------------------------------------------------
(* What a thread has still to do *)

LEMMA EffectTypes ==
  /\ \A d \in Datagram : [send |-> d] \in Effect
  /\ \A h \in Handle, s \in State : Report(h, s) \in Effect
BY DEF Effect, Report

LEMMA EffectKinds ==
  /\ \A h, s, d : Report(h, s) # [send |-> d]
  /\ \A d, e : [send |-> d] = [send |-> e] => d = e
<1>1. ASSUME NEW h, NEW s, NEW d, Report(h, s) = [send |-> d]
      PROVE  FALSE
  <2>1. DOMAIN Report(h, s) = {"report", "conn"} /\ DOMAIN [send |-> d] = {"send"}
    BY DEF Report
  <2>. QED  BY <1>1, <2>1
<1>2. ASSUME NEW d, NEW e, [send |-> d] = [send |-> e]
      PROVE  d = e
  BY <1>2
<1>. QED  BY <1>1, <1>2

LEMMA SendType ==
  ASSUME RestTyped, NEW n \in Nodes, NEW kind \in {"Req", "Acc", "Msg", "Fin"}, NEW h \in Handle,
         NEW c \in Conn
  PROVE  \E d \in Datagram :
           /\ Send(n, kind, h, c) = [send |-> d]
           /\ d.kind = kind /\ d.from = Self(n) /\ d.to = c.remoteAddr
           /\ d.src = h /\ d.dst = c.remoteHandle
<1>. DEFINE d == [kind |-> kind, from |-> Self(n), to |-> c.remoteAddr,
                  src |-> h, dst |-> c.remoteHandle]
<1>1. Self(n) \in Address
  BY DEF Self, Address, RestTyped
<1>2. c.remoteAddr \in Address \cup {NoAddress} /\ c.remoteHandle \in Handle \cup {NoHandle}
  BY DEF Conn
<1>3. d \in Datagram
  BY <1>1, <1>2 DEF Datagram
<1>. QED  BY <1>3 DEF Send

(* A call replaces what its thread has to do, which was nothing. *)
LEMMA LaterFacts ==
  ASSUME RestTyped, NEW n \in Nodes, NEW t \in Thread, NEW effects \in Seq(Effect),
         Later(n, t, effects)
  PROVE  /\ todo' \in [Nodes -> [Thread -> Seq(Effect)]]
         /\ \A m \in Nodes, u \in Thread :
              todo'[m][u] = IF m = n /\ u = t THEN effects ELSE todo[m][u]
BY DEF RestTyped, Later

LEMMA DueAfter ==
  ASSUME RestTyped, NEW n \in Nodes, NEW t \in Thread, NEW effects \in Seq(Effect),
         Later(n, t, effects),
         NEW S, \A i \in DOMAIN effects : \A d \in Datagram : effects[i] = [send |-> d] => d \in S
  PROVE  /\ todo' \in [Nodes -> [Thread -> Seq(Effect)]]
         /\ \A m \in Nodes, u \in Thread : \A d \in Due(m, u)' : d \in Due(m, u) \/ d \in S
<1>1. /\ todo' \in [Nodes -> [Thread -> Seq(Effect)]]
      /\ \A m \in Nodes, u \in Thread :
           todo'[m][u] = IF m = n /\ u = t THEN effects ELSE todo[m][u]
  BY LaterFacts
<1>2. ASSUME NEW m \in Nodes, NEW u \in Thread, NEW d \in Due(m, u)'
      PROVE  d \in Due(m, u) \/ d \in S
  <2>1. CASE m = n /\ u = t
    BY <1>1, <1>2, <2>1 DEF Due
  <2>2. CASE ~ (m = n /\ u = t)
    BY <1>1, <1>2, <2>2 DEF Due
  <2>. QED  BY <2>1, <2>2
<1>. QED  BY <1>1, <1>2

-----------------------------------------------------------------------------
(* How a step keeps the invariant *)

LEMMA NumbersOK == RestTyped /\ RestTyped' => Numbers
BY HandleNat DEF RestTyped, Numbers

(* What a connection says of the one who asked for it stays true while it  *)
(* is the same connection and is not taken for accepted by itself.         *)
LEMMA ServerConnKept ==
  ASSUME Numbers, Kept, NEW n \in Nodes, NEW h \in DOMAIN conns[n], ServerConn(n, h),
         SameEnd(n, h), life'[n] = life[n],
         conns'[n][h].state = "Connected" /\ conns[n][h].listen # NoHandle =>
           \/ conns[n][h].state = "Connected"
           \/ Pair(<<Self(n), h>>, <<conns[n][h].remoteAddr, conns[n][h].remoteHandle>>)
                \in accepted'
  PROVE  ServerConn(n, h)'
<1>1. CASE conns[n][h].listen = NoHandle
  BY <1>1 DEF ServerConn, SameEnd
<1>2. CASE conns[n][h].listen # NoHandle
  <2>1. PICK e \in Endpoint, addr \in {Self(n)} :
          /\ e = <<conns[n][h].remoteAddr, conns[n][h].remoteHandle>> /\ addr = Self(n)
          /\ Issued(e) /\ CallerEnd(e, addr)
          /\ conns[n][h].state = "Connected" => Pair(<<addr, h>>, e) \in accepted
    <3>1. /\ <<conns[n][h].remoteAddr, conns[n][h].remoteHandle>> \in Endpoint
          /\ Issued(<<conns[n][h].remoteAddr, conns[n][h].remoteHandle>>)
          /\ CallerEnd(<<conns[n][h].remoteAddr, conns[n][h].remoteHandle>>, Self(n))
          /\ conns[n][h].state = "Connected" =>
               Pair(<<Self(n), h>>, <<conns[n][h].remoteAddr, conns[n][h].remoteHandle>>) \in accepted
      BY <1>2 DEF ServerConn
    <3>. QED  BY <3>1
  <2>2. Issued(e)' /\ CallerEnd(e, addr)'
    BY <2>1, IssuedKept, CallerEndKept
  <2>3. /\ addr = Self(n)'
        /\ e = <<conns'[n][h].remoteAddr, conns'[n][h].remoteHandle>>
        /\ conns'[n][h].state = "Connected" => Pair(<<addr, h>>, e) \in accepted'
    BY <1>2, <2>1 DEF SameEnd, Self, Kept
  <2>. QED  BY <2>2, <2>3 DEF ServerConn, Issued, CallerEnd
<1>. QED  BY <1>1, <1>2

Same(n, h) ==
  /\ h \in DOMAIN conns[n]
  /\ conns'[n][h] = conns[n][h]
  /\ life'[n] = life[n]

LEMMA ConnOKKept ==
  ASSUME Numbers, Kept, NEW n \in Nodes, NEW h, Same(n, h), ConnOK(n, h)
  PROVE  ConnOK(n, h)'
<1>1. SameEnd(n, h) /\ Self(n)' = Self(n)
  BY DEF Same, SameEnd, Self
<1>2. ServerConn(n, h)'
  BY <1>1, ServerConnKept DEF Same, ConnOK, ServerConn
<1>3. CallerConn(n, h)'
  BY <1>1 DEF Same, ConnOK, CallerConn, Kept
<1>4. InboxFrom(n, h)'
  BY <1>1 DEF Same, ConnOK, InboxFrom, Kept
<1>. QED  BY <1>2, <1>3, <1>4 DEF ConnOK

(* Every step: what is left to show is what the step itself makes true of  *)
(* the connections, pairs and datagrams that are new or have changed.      *)
LEMMA StepKeeps ==
  ASSUME IInv, TypeOK', Kept, HandlesIssued',
         \A n \in Nodes : \A h \in DOMAIN conns'[n] : Same(n, h) \/ ConnOK(n, h)',
         \A r \in accepted' : r \in accepted \/ Agreed(r)',
         \A d \in net' : d \in net \/ \E n \in Nodes, t \in Thread : d \in Due(n, t),
         \A n \in Nodes, t \in Thread : \A d \in Due(n, t)' : d \in Due(n, t) \/ Truthful(d)'
  PROVE  IInv'
<1>1. RestTyped /\ RestTyped' /\ Numbers
  BY Types, NumbersOK DEF IInv
<1>2. \A n \in Nodes : \A h \in DOMAIN conns'[n] : ConnOK(n, h)'
  BY <1>1, ConnOKKept DEF IInv, Same
<1>3. \A r \in accepted' : Agreed(r)'
  BY <1>1, AgreedKept DEF IInv, RestTyped
<1>4. ASSUME NEW d \in net'
      PROVE  Truthful(d)'
  <2>1. d \in Datagram /\ Truthful(d)
    <3>1. net \subseteq Datagram
      BY <1>1 DEF RestTyped
    <3>2. \A n \in Nodes, t \in Thread : Due(n, t) \subseteq Datagram
      BY DEF Due
    <3>. QED  BY <1>4, <3>1, <3>2 DEF IInv, AllTruthful
  <2>. QED  BY <1>1, <2>1, TruthfulKept
<1>5. \A n \in Nodes, t \in Thread : \A d \in Due(n, t)' : Truthful(d)'
  BY <1>1, TruthfulKept DEF IInv, AllTruthful, Due
<1>. QED  BY <1>2, <1>3, <1>4, <1>5 DEF IInv, AllTruthful

(* A step that leaves the tables, the numbers and the pairs as they are. *)
LEMMA TablesUnchanged ==
  ASSUME IInv, UNCHANGED <<conns, nextHandle, life, accepted>>
  PROVE  /\ ConnTyped' /\ Kept /\ HandlesIssued'
         /\ \A n \in Nodes : \A h \in DOMAIN conns'[n] : Same(n, h)
<1>1. ConnTyped'
  BY Types DEF IInv, ConnTyped
<1>2. HandlesIssued'
  BY DEF IInv, HandlesIssued
<1>3. \A n \in Nodes : \A h \in DOMAIN conns'[n] : Same(n, h)
  BY DEF Same
<1>4. Kept
  <2>1. \A n \in Nodes : life[n] \in Nat /\ nextHandle[n] \in Nat
    BY Types DEF IInv, RestTyped
  <2>. QED  BY <2>1 DEF Kept, KeptAt, SameEnd
<1>. QED  BY <1>1, <1>2, <1>3, <1>4

(* A step that makes the connection at the next handle. *)
LEMMA OneMade ==
  ASSUME IInv, NEW n \in Nodes, NEW h \in Handle, NEW c \in Conn,
         NewHandle(n, h), NewConn(n, h, c), UNCHANGED <<life, accepted>>
  PROVE  /\ ConnTyped' /\ Kept /\ HandlesIssued'
         /\ nextHandle' \in [Nodes -> Nat]
         /\ \A m \in Nodes : nextHandle'[m] \in 1..MaxHandle[m] + 1
         /\ h \in DOMAIN conns'[n] /\ conns'[n][h] = c /\ nextHandle'[n] = h + 1
         /\ \A m \in Nodes : \A x \in DOMAIN conns'[m] : Same(m, x) \/ (m = n /\ x = h)
<1>1. ConnTyped /\ RestTyped
  BY Types DEF IInv
<1>2. /\ ConnTyped'
      /\ DOMAIN conns'[n] = DOMAIN conns[n] \cup {h}
      /\ conns'[n][h] = c
      /\ \A x \in DOMAIN conns[n] \ {h} : conns'[n][x] = conns[n][x]
      /\ \A m \in Nodes \ {n} : conns'[m] = conns[m]
  BY <1>1, NewConnFacts
<1>3. /\ h = nextHandle[n] /\ h \in Nat /\ h + 1 \in Nat /\ h <= MaxHandle[n]
      /\ h < h + 1 /\ h <= h + 1 /\ h >= h
  <2>1. h = nextHandle[n] /\ h \in Nat /\ h <= MaxHandle[n]
    BY <1>1, HandleNat DEF NewHandle
  <2>. QED  BY <2>1
<1>4. nextHandle'[n] = h + 1 /\ \A m \in Nodes \ {n} : nextHandle'[m] = nextHandle[m]
  BY <1>1 DEF NewHandle, RestTyped
<1>5. nextHandle' \in [Nodes -> Nat]
  BY <1>1, <1>3 DEF NewHandle, RestTyped
<1>6. h + 1 \in 1..MaxHandle[n] + 1
  BY <1>3, ConnectionsAssumption
<1>7. \A m \in Nodes : nextHandle'[m] \in 1..MaxHandle[m] + 1
  BY <1>1, <1>4, <1>6 DEF RestTyped
<1>8. \A m \in Nodes : \A x \in DOMAIN conns'[m] : Same(m, x) \/ (m = n /\ x = h)
  BY <1>2 DEF Same
<1>9. HandlesIssued'
  <2>1. ASSUME NEW m \in Nodes, NEW x \in DOMAIN conns'[m]
        PROVE  x < nextHandle'[m]
    <3>1. CASE m = n /\ x = h
      BY <1>3, <1>4, <3>1
    <3>2. CASE Same(m, x)
      <4>1. x < nextHandle[m] /\ x \in Nat /\ nextHandle[m] \in Nat
        BY <1>1, <3>2, HandleNat DEF Same, IInv, HandlesIssued, ConnTyped, RestTyped
      <4>2. CASE m = n
        BY <1>3, <1>4, <4>1, <4>2
      <4>3. CASE m # n
        BY <1>4, <4>1, <4>3
      <4>. QED  BY <4>2, <4>3
    <3>. QED  BY <1>8, <3>1, <3>2
  <2>. QED  BY <2>1 DEF HandlesIssued
<1>10. Kept
  <2>1. ASSUME NEW m \in Nodes
        PROVE  KeptAt(m)
    <3>1. life[m] \in Nat /\ nextHandle[m] \in Nat
      <4>1. life[m] \in 1..2 /\ nextHandle[m] \in Nat
        BY <1>1 DEF RestTyped
      <4>. QED  BY <4>1
    <3>2. nextHandle[m] <= nextHandle'[m]
      BY <1>3, <1>4, <3>1
    <3>3. \A x \in DOMAIN conns'[m] : SameEnd(m, x) \/ x >= nextHandle[m]
      BY <1>3, <1>8, <3>1 DEF Same, SameEnd
    <3>. QED  BY <3>1, <3>2, <3>3 DEF KeptAt
  <2>. QED  BY <2>1 DEF Kept
<1>. QED  BY <1>2, <1>4, <1>5, <1>7, <1>8, <1>9, <1>10

(* A step that changes a connection without changing whose it is. *)
LEMMA OneChanged ==
  ASSUME IInv, NEW n \in Nodes, NEW h \in DOMAIN conns[n], NEW c \in Conn,
         Changed(n, h, c),
         c.listen = conns[n][h].listen, c.remoteAddr = conns[n][h].remoteAddr,
         conns[n][h].listen # NoHandle => c.remoteHandle = conns[n][h].remoteHandle,
         UNCHANGED <<nextHandle, life>>, accepted \subseteq accepted'
  PROVE  /\ ConnTyped' /\ Kept /\ HandlesIssued'
         /\ SameEnd(n, h) /\ conns'[n][h] = c
         /\ \A m \in Nodes : \A x \in DOMAIN conns'[m] : Same(m, x) \/ (m = n /\ x = h)
<1>1. ConnTyped /\ RestTyped
  BY Types DEF IInv
<1>2. /\ ConnTyped'
      /\ DOMAIN conns'[n] = DOMAIN conns[n]
      /\ conns'[n][h] = c
      /\ \A x \in DOMAIN conns[n] \ {h} : conns'[n][x] = conns[n][x]
      /\ \A m \in Nodes \ {n} : conns'[m] = conns[m]
  BY <1>1, ChangeFacts
<1>3. SameEnd(n, h)
  BY <1>2 DEF SameEnd
<1>4. \A m \in Nodes : \A x \in DOMAIN conns'[m] : Same(m, x) \/ (m = n /\ x = h)
  BY <1>2 DEF Same
<1>5. HandlesIssued'
  BY <1>2 DEF IInv, HandlesIssued
<1>6. Kept
  <2>1. \A m \in Nodes : life[m] \in Nat /\ nextHandle[m] \in Nat
    <3>1. \A m \in Nodes : life[m] \in 1..2 /\ nextHandle[m] \in Nat
      BY <1>1 DEF RestTyped
    <3>2. 1..2 \subseteq Nat
      OBVIOUS
    <3>. QED  BY <3>1, <3>2
  <2>2. \A m \in Nodes : \A x \in DOMAIN conns'[m] : SameEnd(m, x)
    BY <1>3, <1>4 DEF Same, SameEnd
  <2>. QED  BY <2>1, <2>2 DEF Kept, KeptAt
<1>. QED  BY <1>2, <1>3, <1>4, <1>5, <1>6

LEMMA ConnParts ==
  ASSUME NEW c \in Conn
  PROVE  /\ c.remote \in Nodes /\ c.remoteAddr \in Address \cup {NoAddress}
         /\ c.remoteHandle \in Handle \cup {NoHandle} /\ c.state \in State
         /\ c.listen \in Handle \cup {NoHandle} /\ c.inbox \in Seq(Message)
BY DEF Conn

LEMMA DatagramParts ==
  ASSUME NEW d \in Datagram
  PROVE  /\ d.kind \in {"Req", "Acc", "Msg", "Fin"}
         /\ d.from \in Address /\ d.to \in Address \cup {NoAddress}
         /\ d.src \in Handle /\ d.dst \in Handle \cup {NoHandle}
         /\ <<d.from, d.src>> \in Endpoint /\ d.from[1] \in Nodes
BY DEF Datagram, Endpoint, Address

(* The forms in which the actions change a connection. *)
StateSet(n, h, s) == conns' = [conns EXCEPT ![n][h].state = s]
Answered(n, h, src) ==
  conns' = [conns EXCEPT ![n][h].remoteHandle = src, ![n][h].state = "Connected"]
InboxSet(n, h, inbox) == conns' = [conns EXCEPT ![n][h].inbox = inbox]

LEMMA SetState ==
  ASSUME ConnTyped, NEW n \in Nodes, NEW h \in DOMAIN conns[n], NEW s \in State,
         StateSet(n, h, s)
  PROVE  \E c \in Conn :
           /\ Changed(n, h, c)
           /\ c.state = s
           /\ c.listen = conns[n][h].listen /\ c.remoteAddr = conns[n][h].remoteAddr
           /\ c.remoteHandle = conns[n][h].remoteHandle /\ c.inbox = conns[n][h].inbox
<1>. DEFINE c == [conns[n][h] EXCEPT !.state = s]
<1>1. conns[n][h] \in Conn
  BY DEF ConnTyped
<1>2. /\ c \in Conn /\ c.state = s
      /\ c.listen = conns[n][h].listen /\ c.remoteAddr = conns[n][h].remoteAddr
      /\ c.remoteHandle = conns[n][h].remoteHandle /\ c.inbox = conns[n][h].inbox
  BY <1>1 DEF Conn
<1>3. Changed(n, h, c)
  BY DEF Changed, StateSet
<1>. HIDE DEF c
<1>. QED  BY <1>2, <1>3

LEMMA SetAnswered ==
  ASSUME ConnTyped, NEW n \in Nodes, NEW h \in DOMAIN conns[n], NEW src \in Handle,
         Answered(n, h, src)
  PROVE  \E c \in Conn :
           /\ Changed(n, h, c)
           /\ c.state = "Connected" /\ c.remoteHandle = src
           /\ c.listen = conns[n][h].listen /\ c.remoteAddr = conns[n][h].remoteAddr
           /\ c.inbox = conns[n][h].inbox
<1>. DEFINE c == [conns[n][h] EXCEPT !.remoteHandle = src, !.state = "Connected"]
<1>1. conns[n][h] \in Conn
  BY DEF ConnTyped
<1>2. /\ c \in Conn
      /\ c.state = "Connected" /\ c.remoteHandle = src
      /\ c.listen = conns[n][h].listen /\ c.remoteAddr = conns[n][h].remoteAddr
      /\ c.inbox = conns[n][h].inbox
  BY <1>1 DEF Conn, State
<1>3. Changed(n, h, c)
  BY DEF Changed, Answered, ConnTyped
<1>. HIDE DEF c
<1>. QED  BY <1>2, <1>3

LEMMA SetInbox ==
  ASSUME ConnTyped, NEW n \in Nodes, NEW h \in DOMAIN conns[n], NEW inbox \in Seq(Message),
         InboxSet(n, h, inbox)
  PROVE  \E c \in Conn :
           /\ Changed(n, h, c)
           /\ c.inbox = inbox /\ c.state = conns[n][h].state
           /\ c.listen = conns[n][h].listen /\ c.remoteAddr = conns[n][h].remoteAddr
           /\ c.remoteHandle = conns[n][h].remoteHandle
<1>. DEFINE c == [conns[n][h] EXCEPT !.inbox = inbox]
<1>1. conns[n][h] \in Conn
  BY DEF ConnTyped
<1>2. /\ c \in Conn
      /\ c.inbox = inbox /\ c.state = conns[n][h].state
      /\ c.listen = conns[n][h].listen /\ c.remoteAddr = conns[n][h].remoteAddr
      /\ c.remoteHandle = conns[n][h].remoteHandle
  BY <1>1 DEF Conn
<1>3. Changed(n, h, c)
  BY DEF Changed, InboxSet
<1>. HIDE DEF c
<1>. QED  BY <1>2, <1>3

-----------------------------------------------------------------------------
(* Each action keeps the invariant *)

LEMMA CreateListenSocketKeeps ==
  ASSUME IInv, NEW n \in Nodes, CreateListenSocketP2P(n)
  PROVE  IInv'
<1>1. ConnTyped /\ RestTyped
  BY Types DEF IInv
<1>2. PICK h \in Handle : NewHandle(n, h) /\ listening' = [listening EXCEPT ![n] = @ \cup {h}]
  BY DEF CreateListenSocketP2P
<1>3. UNCHANGED <<conns, todo, net, life, sent, seen, accepted>>
  BY DEF CreateListenSocketP2P
<1>4. h = nextHandle[n] /\ h \in Nat /\ h + 1 \in 1..MaxHandle[n] + 1 /\ h < h + 1 /\ h + 1 \in Nat
  <2>1. h = nextHandle[n] /\ h \in Nat /\ h <= MaxHandle[n] /\ MaxHandle[n] \in Nat
    BY <1>1, <1>2, HandleNat, ConnectionsAssumption DEF NewHandle
  <2>. QED  BY <2>1
<1>5. nextHandle'[n] = h + 1 /\ \A m \in Nodes \ {n} : nextHandle'[m] = nextHandle[m]
  BY <1>1, <1>2 DEF NewHandle, RestTyped
<1>6. TypeOK'
  <2>1. listening' \in [Nodes -> SUBSET Handle]
    BY <1>1, <1>2 DEF RestTyped
  <2>2. nextHandle' \in [Nodes -> Nat]
    BY <1>1, <1>2, <1>4 DEF NewHandle, RestTyped
  <2>3. \A m \in Nodes : nextHandle'[m] \in 1..MaxHandle[m] + 1
    BY <1>1, <1>4, <1>5 DEF RestTyped
  <2>4. ConnTyped'
    BY <1>1, <1>3 DEF ConnTyped
  <2>. QED  BY <1>1, <1>3, <2>1, <2>2, <2>3, <2>4, Types DEF RestTyped
<1>7. \A m \in Nodes : nextHandle[m] \in Nat /\ nextHandle'[m] \in Nat /\ nextHandle[m] <= nextHandle'[m]
  <2>1. \A m \in Nodes : nextHandle[m] \in Nat
    BY <1>1 DEF RestTyped
  <2>. QED  BY <1>4, <1>5, <2>1
<1>8. HandlesIssued'
  <2>1. ASSUME NEW m \in Nodes, NEW x \in DOMAIN conns'[m]
        PROVE  x < nextHandle'[m]
    <3>1. x \in Nat /\ x < nextHandle[m]
      BY <1>1, <1>3, HandleNat DEF IInv, HandlesIssued, ConnTyped
    <3>. QED  BY <1>7, <3>1
  <2>. QED  BY <2>1 DEF HandlesIssued
<1>9. Kept
  <2>1. \A m \in Nodes : life[m] <= life'[m]
    <3>1. \A m \in Nodes : life[m] \in 1..2
      BY <1>1 DEF RestTyped
    <3>. QED  BY <1>3, <3>1
  <2>. QED  BY <1>3, <1>7, <2>1 DEF Kept, KeptAt, SameEnd
<1>10. \A m \in Nodes : \A x \in DOMAIN conns'[m] : Same(m, x)
  BY <1>3 DEF Same
<1>11. \A m \in Nodes, t \in Thread : Due(m, t)' = Due(m, t)
  BY <1>3 DEF Due
<1>. QED  BY <1>3, <1>6, <1>8, <1>9, <1>10, <1>11, StepKeeps

LEMMA CloseListenSocketKeeps ==
  ASSUME IInv, NEW n \in Nodes, NEW h, CloseListenSocket(n, h)
  PROVE  IInv'
<1>1. ConnTyped /\ RestTyped
  BY Types DEF IInv
<1>2. UNCHANGED <<conns, nextHandle, todo, net, life, sent, seen, accepted>>
  BY DEF CloseListenSocket
<1>3. /\ ConnTyped' /\ Kept /\ HandlesIssued'
      /\ \A m \in Nodes : \A x \in DOMAIN conns'[m] : Same(m, x)
  BY <1>2, TablesUnchanged
<1>4. listening' \in [Nodes -> SUBSET Handle]
  BY <1>1 DEF CloseListenSocket, RestTyped
<1>5. TypeOK'
  BY <1>1, <1>2, <1>3, <1>4, Types DEF RestTyped
<1>6. \A m \in Nodes, t \in Thread : Due(m, t)' = Due(m, t)
  BY <1>2 DEF Due
<1>. QED  BY <1>2, <1>3, <1>5, <1>6, StepKeeps

(* What a thread sends later, all in one: at most the datagram d. *)
LEMMA NoneDue ==
  ASSUME NEW h \in Handle, NEW s \in State
  PROVE  /\ <<Report(h, s)>> \in Seq(Effect)
         /\ \A i \in DOMAIN <<Report(h, s)>> : \A d \in Datagram : <<Report(h, s)>>[i] # [send |-> d]
<1>1. Report(h, s) \in Effect
  BY EffectTypes
<1>2. <<Report(h, s)>> \in Seq(Effect)
  BY <1>1
<1>3. ASSUME NEW i \in DOMAIN <<Report(h, s)>>
      PROVE  <<Report(h, s)>>[i] = Report(h, s)
  OBVIOUS
<1>. QED  BY <1>2, <1>3, EffectKinds

LEMMA OneDue ==
  ASSUME NEW d \in Datagram, NEW h \in Handle, NEW s \in State, NEW effects,
         \/ effects = <<[send |-> d]>>
         \/ effects = <<[send |-> d], Report(h, s)>>
         \/ effects = <<Report(h, s), [send |-> d]>>
  PROVE  /\ effects \in Seq(Effect)
         /\ \A i \in DOMAIN effects : \A e \in Datagram : effects[i] = [send |-> e] => e \in {d}
<1>1. PICK r \in Effect, q \in Effect : r = Report(h, s) /\ q = [send |-> d]
  BY EffectTypes
<1>2. \/ effects = <<q>> \/ effects = <<q, r>> \/ effects = <<r, q>>
  BY <1>1
<1>3. effects \in Seq(Effect) /\ \A i \in DOMAIN effects : effects[i] = q \/ effects[i] = r
  <2>1. CASE effects = <<q>>
    BY <2>1
  <2>2. CASE effects = <<q, r>>
    BY <2>2
  <2>3. CASE effects = <<r, q>>
    BY <2>3
  <2>. QED  BY <1>2, <2>1, <2>2, <2>3
<1>. QED  BY <1>1, <1>3, EffectKinds

LEMMA ConnectKeeps ==
  ASSUME IInv, NEW n \in Nodes, NEW remote \in Nodes, ConnectP2P(n, remote)
  PROVE  IInv'
<1>1. ConnTyped /\ RestTyped
  BY Types DEF IInv
<1>2. UNCHANGED <<listening, net, life, sent, seen, accepted>>
  BY DEF ConnectP2P
<1>0. PICK h \in Handle, addr \in KnownAddress(remote) :
        /\ NewHandle(n, h)
        /\ LET c == [remote |-> remote, remoteAddr |-> addr,
                     remoteHandle |-> NoHandle, state |-> "Connecting",
                     listen |-> NoHandle, inbox |-> << >>]
           IN  NewConn(n, h, c) /\ Later(n, "game", Call(n, h, c))
  BY DEF ConnectP2P
<1>3. PICK c :
        /\ NewHandle(n, h) /\ NewConn(n, h, c) /\ Later(n, "game", Call(n, h, c))
        /\ c = [remote |-> remote, remoteAddr |-> addr,
                remoteHandle |-> NoHandle, state |-> "Connecting",
                listen |-> NoHandle, inbox |-> << >>]
  BY <1>0
<1>4. /\ c \in Conn /\ c.listen = NoHandle /\ c.state = "Connecting" /\ c.inbox = << >>
      /\ c.remoteAddr = addr /\ c.remoteHandle = NoHandle
  <2>1. addr \in Address \cup {NoAddress}
    <3>1. life[remote] \in 1..2
      BY <1>1 DEF RestTyped
    <3>2. 1..life[remote] \subseteq 1..2
      BY <3>1
    <3>. QED  BY <3>2 DEF KnownAddress, Address
  <2>2. << >> \in Seq(Message)
    OBVIOUS
  <2>. QED  BY <1>3, <2>1, <2>2 DEF Conn, State
<1>5. /\ ConnTyped' /\ Kept /\ HandlesIssued'
      /\ nextHandle' \in [Nodes -> Nat]
      /\ \A m \in Nodes : nextHandle'[m] \in 1..MaxHandle[m] + 1
      /\ h \in DOMAIN conns'[n] /\ conns'[n][h] = c /\ nextHandle'[n] = h + 1
      /\ \A m \in Nodes : \A x \in DOMAIN conns'[m] : Same(m, x) \/ (m = n /\ x = h)
  BY <1>2, <1>3, <1>4, OneMade
<1>6. PICK d \in Datagram :
        /\ Send(n, "Req", h, c) = [send |-> d]
        /\ d.kind = "Req" /\ d.from = Self(n) /\ d.to = addr /\ d.src = h
  BY <1>1, <1>4, SendType
<1>7. /\ todo' \in [Nodes -> [Thread -> Seq(Effect)]]
      /\ \A m \in Nodes, u \in Thread : \A e \in Due(m, u)' : e \in Due(m, u) \/ e \in {d}
  <2>1. "game" \in Thread /\ "Connecting" \in State
    BY DEF Thread, State
  <2>2. PICK effects : effects = Call(n, h, c)
    OBVIOUS
  <2>3. \/ effects = <<Report(h, "Connecting")>>
        \/ effects = <<Report(h, "Connecting"), [send |-> d]>>
    BY <1>6, <2>2 DEF Call
  <2>4. effects \in Seq(Effect)
    BY <2>1, <2>3, NoneDue, OneDue
  <2>5. \A i \in DOMAIN effects : \A e \in Datagram : effects[i] = [send |-> e] => e \in {d}
    BY <2>1, <2>3, NoneDue, OneDue
  <2>6. Later(n, "game", effects)
    BY <1>3, <2>2
  <2>. QED  BY <1>1, <2>1, <2>4, <2>5, <2>6, DueAfter
<1>8. TypeOK'
  BY <1>1, <1>2, <1>5, <1>7, Types DEF RestTyped
<1>9. Self(n)' = Self(n)
  BY <1>2 DEF Self
<1>10. Truthful(d)'
  <2>1. PICK e : e = <<Self(n), h>>
    OBVIOUS
  <2>2. Issued(e)'
    <3>1. e[1] = Self(n)' /\ e[1][1] = n /\ e[1][2] = life'[n] /\ e[2] = h
      BY <1>9, <2>1 DEF Self
    <3>2. h < h + 1 /\ life'[n] <= life'[n]
      <4>1. h \in Nat
        BY HandleNat
      <4>2. life'[n] \in 1..2
        BY <1>1, <1>2 DEF RestTyped
      <4>. QED  BY <4>1, <4>2
    <3>. QED  BY <1>5, <3>1, <3>2 DEF Issued
  <2>3. CallerEnd(e, addr)'
    <3>1. SUFFICES ASSUME NEW m \in Nodes, e[1] = Self(m)', e[2] \in DOMAIN conns'[m]
                   PROVE  /\ conns'[m][e[2]].listen = NoHandle
                          /\ conns'[m][e[2]].remoteAddr = addr
      BY DEF CallerEnd
    <3>2. m = n /\ e[2] = h
      BY <1>9, <2>1, <3>1, SelfFacts
    <3>. QED  BY <1>4, <1>5, <3>2
  <2>4. <<d.from, d.src>> = e
    BY <1>6, <2>1
  <2>. QED  BY <1>6, <2>2, <2>3, <2>4 DEF Truthful
<1>11. ConnOK(n, h)'
  BY <1>4, <1>5, <1>9 DEF ConnOK, ServerConn, CallerConn, InboxFrom
<1>. QED  BY <1>2, <1>5, <1>7, <1>8, <1>10, <1>11, StepKeeps

LEMMA AcceptKeeps ==
  ASSUME IInv, NEW n \in Nodes, NEW h \in Handle, AcceptConnection(n, h)
  PROVE  IInv'
<1>1. ConnTyped /\ RestTyped
  BY Types DEF IInv
<1>2. UNCHANGED <<listening, nextHandle, net, life, sent, seen>>
  BY DEF AcceptConnection
<1>3. /\ h \in DOMAIN conns[n] /\ conns[n][h].listen # NoHandle /\ conns[n][h] \in Conn
      /\ StateSet(n, h, "Connected")
  BY <1>1 DEF AcceptConnection, ConnTyped, StateSet
<1>4. PICK server, client, pair :
        /\ server = <<Self(n), h>>
        /\ client = <<conns[n][h].remoteAddr, conns[n][h].remoteHandle>>
        /\ pair = Pair(server, client)
        /\ accepted' = accepted \cup {pair}
  BY DEF AcceptConnection, Pair
<1>5. client \in Endpoint /\ Issued(client) /\ CallerEnd(client, server[1])
  BY <1>3, <1>4 DEF IInv, ConnOK, ServerConn, Issued, CallerEnd
<1>6. server \in Endpoint /\ Issued(server)
  <2>1. server \in Endpoint
    BY <1>1, <1>4 DEF Endpoint, Address, Self, RestTyped
  <2>2. /\ server[1][1] = n /\ server[1][2] = life[n] /\ server[2] = h
        /\ h < nextHandle[n] /\ life[n] <= life[n]
    <3>1. life[n] \in 1..2
      BY <1>1 DEF RestTyped
    <3>2. life[n] <= life[n]
      BY <3>1
    <3>. QED  BY <1>3, <1>4, <3>2 DEF Self, IInv, HandlesIssued
  <2>. QED  BY <2>1, <2>2 DEF Issued
<1>7. "Connected" \in State
  BY DEF State
<1>8. PICK c \in Conn :
        /\ Changed(n, h, c) /\ c.state = "Connected"
        /\ c.listen = conns[n][h].listen /\ c.remoteAddr = conns[n][h].remoteAddr
        /\ c.remoteHandle = conns[n][h].remoteHandle /\ c.inbox = conns[n][h].inbox
  BY <1>1, <1>3, <1>7, SetState
<1>9. /\ ConnTyped' /\ Kept /\ HandlesIssued'
      /\ SameEnd(n, h) /\ conns'[n][h] = c
      /\ \A m \in Nodes : \A x \in DOMAIN conns'[m] : Same(m, x) \/ (m = n /\ x = h)
  <2>1. UNCHANGED <<nextHandle, life>> /\ accepted \subseteq accepted'
    BY <1>2, <1>4
  <2>. QED  BY <1>3, <1>8, <2>1, OneChanged
<1>10. PICK d \in Datagram :
         /\ Send(n, "Acc", h, conns[n][h]) = [send |-> d]
         /\ d.kind = "Acc" /\ d.from = Self(n) /\ d.to = conns[n][h].remoteAddr
         /\ d.src = h /\ d.dst = conns[n][h].remoteHandle
  <2>1. PICK old \in Conn : old = conns[n][h]
    BY <1>3
  <2>2. "Acc" \in {"Req", "Acc", "Msg", "Fin"}
    OBVIOUS
  <2>3. \E d \in Datagram :
          /\ Send(n, "Acc", h, old) = [send |-> d]
          /\ d.kind = "Acc" /\ d.from = Self(n) /\ d.to = old.remoteAddr
          /\ d.src = h /\ d.dst = old.remoteHandle
    BY <1>1, <2>2, SendType
  <2>. QED  BY <2>1, <2>3
<1>11. /\ todo' \in [Nodes -> [Thread -> Seq(Effect)]]
       /\ \A m \in Nodes, u \in Thread : \A e \in Due(m, u)' : e \in Due(m, u) \/ e \in {d}
  <2>1. "game" \in Thread
    BY DEF Thread
  <2>2. PICK effects : effects = <<[send |-> d], Report(h, "Connected")>>
    OBVIOUS
  <2>3. /\ effects \in Seq(Effect)
        /\ \A i \in DOMAIN effects : \A e \in Datagram : effects[i] = [send |-> e] => e \in {d}
    BY <1>7, <2>2, OneDue
  <2>4. Later(n, "game", effects)
    BY <1>10, <2>2 DEF AcceptConnection
  <2>. QED  BY <1>1, <2>1, <2>3, <2>4, DueAfter
<1>12. accepted' \subseteq [server : Endpoint, client : Endpoint]
  <2>1. pair \in [server : Endpoint, client : Endpoint]
    BY <1>4, <1>5, <1>6 DEF Pair
  <2>2. accepted \subseteq [server : Endpoint, client : Endpoint]
    BY <1>1 DEF RestTyped
  <2>. QED  BY <1>4, <2>1, <2>2
<1>13. TypeOK'
  BY <1>1, <1>2, <1>9, <1>11, <1>12, Types DEF RestTyped
<1>14. Numbers
  BY <1>1, <1>13, Types, NumbersOK
<1>15. ConnOK(n, h)'
  <2>1. ServerConn(n, h)'
    <3>1. ServerConn(n, h) /\ life'[n] = life[n]
      BY <1>2, <1>3 DEF IInv, ConnOK
    <3>2. Pair(<<Self(n), h>>, <<conns[n][h].remoteAddr, conns[n][h].remoteHandle>>) \in accepted'
      BY <1>4
    <3>. QED  BY <1>3, <1>9, <1>14, <3>1, <3>2, ServerConnKept
  <2>2. CallerConn(n, h)'
    BY <1>3, <1>8, <1>9 DEF CallerConn
  <2>3. InboxFrom(n, h)'
    <3>1. InboxFrom(n, h)
      BY <1>3 DEF IInv, ConnOK
    <3>. QED  BY <1>3, <1>8, <1>9, <3>1 DEF InboxFrom
  <2>. QED  BY <2>1, <2>2, <2>3 DEF ConnOK
<1>16. ASSUME NEW r \in accepted'
       PROVE  r \in accepted \/ Agreed(r)'
  <2>1. Issued(server)' /\ Issued(client)' /\ CallerEnd(client, server[1])'
    <3>1. PICK addr : addr = server[1]
      OBVIOUS
    <3>2. CallerEnd(client, addr)
      BY <1>5, <3>1
    <3>3. CallerEnd(client, addr)'
      BY <1>5, <1>9, <1>14, <3>2, CallerEndKept
    <3>. QED  BY <1>5, <1>6, <1>9, <1>14, <3>1, <3>3, IssuedKept
  <2>2. ServerEnd(server, client)'
    <3>1. SUFFICES ASSUME NEW m \in Nodes, server[1] = Self(m)', server[2] \in DOMAIN conns'[m]
                   PROVE  /\ conns'[m][server[2]].listen # NoHandle
                          /\ <<conns'[m][server[2]].remoteAddr, conns'[m][server[2]].remoteHandle>> = client
      BY DEF ServerEnd
    <3>2. Self(n)' = Self(n)
      BY <1>2 DEF Self
    <3>3. m = n /\ server[2] = h
      BY <1>4, <3>1, <3>2, SelfFacts
    <3>. QED  BY <1>3, <1>4, <1>8, <1>9, <3>3
  <2>3. pair.server = server /\ pair.client = client
    BY <1>4 DEF Pair
  <2>4. CASE r = pair
    BY <2>1, <2>2, <2>3, <2>4 DEF Agreed
  <2>. QED  BY <1>4, <1>16, <2>4
<1>17. Truthful(d)'
  BY <1>4, <1>10 DEF Truthful
<1>. QED  BY <1>2, <1>9, <1>11, <1>13, <1>15, <1>16, <1>17, StepKeeps

LEMMA CloseConnectionKeeps ==
  ASSUME IInv, NEW n \in Nodes, NEW h \in Handle, CloseConnection(n, h)
  PROVE  IInv'
<1>1. ConnTyped /\ RestTyped
  BY Types DEF IInv
<1>2. UNCHANGED <<listening, nextHandle, net, life, sent, accepted>>
  BY DEF CloseConnection
<1>3. /\ h \in DOMAIN conns[n] /\ Forget(n, h)
      /\ seen' = [seen EXCEPT ![n][h] = "None"]
      /\ Later(n, "game", <<Send(n, "Fin", h, conns[n][h])>>)
  BY DEF CloseConnection
<1>4. /\ ConnTyped'
      /\ DOMAIN conns'[n] = DOMAIN conns[n] \ {h}
      /\ \A x \in DOMAIN conns[n] \ {h} : conns'[n][x] = conns[n][x]
      /\ \A m \in Nodes \ {n} : conns'[m] = conns[m]
  BY <1>1, <1>3, ForgetFacts
<1>5. \A m \in Nodes : \A x \in DOMAIN conns'[m] : Same(m, x)
  BY <1>2, <1>4 DEF Same
<1>6. HandlesIssued'
  BY <1>2, <1>5 DEF Same, IInv, HandlesIssued
<1>7. Kept
  <2>1. \A m \in Nodes : life[m] \in 1..2 /\ nextHandle[m] \in Nat
    BY <1>1 DEF RestTyped
  <2>2. \A m \in Nodes : life[m] <= life'[m] /\ nextHandle[m] <= nextHandle'[m]
    BY <1>2, <2>1
  <2>3. \A m \in Nodes : \A x \in DOMAIN conns'[m] : SameEnd(m, x)
    BY <1>5 DEF Same, SameEnd
  <2>. QED  BY <1>2, <2>2, <2>3 DEF Kept, KeptAt
<1>8. PICK d \in Datagram : Send(n, "Fin", h, conns[n][h]) = [send |-> d] /\ d.kind = "Fin"
  <2>1. PICK old \in Conn : old = conns[n][h]
    BY <1>1, <1>3 DEF ConnTyped
  <2>2. "Fin" \in {"Req", "Acc", "Msg", "Fin"}
    OBVIOUS
  <2>3. \E d \in Datagram : Send(n, "Fin", h, old) = [send |-> d] /\ d.kind = "Fin"
    BY <1>1, <2>2, SendType
  <2>. QED  BY <2>1, <2>3
<1>9. /\ todo' \in [Nodes -> [Thread -> Seq(Effect)]]
      /\ \A m \in Nodes, u \in Thread : \A e \in Due(m, u)' : e \in Due(m, u) \/ e \in {d}
  <2>1. "game" \in Thread /\ "None" \in State
    BY DEF Thread, State
  <2>2. PICK effects : effects = <<[send |-> d]>>
    OBVIOUS
  <2>3. /\ effects \in Seq(Effect)
        /\ \A i \in DOMAIN effects : \A e \in Datagram : effects[i] = [send |-> e] => e \in {d}
    BY <2>1, <2>2, OneDue
  <2>4. Later(n, "game", effects)
    BY <1>3, <1>8, <2>2
  <2>. QED  BY <1>1, <2>1, <2>3, <2>4, DueAfter
<1>10. seen' \in [Nodes -> [Handle -> State]]
  <2>1. "None" \in State
    BY DEF State
  <2>. QED  BY <1>1, <1>3, <2>1 DEF RestTyped
<1>11. TypeOK'
  BY <1>1, <1>2, <1>4, <1>9, <1>10, Types DEF RestTyped
<1>12. Truthful(d)'
  BY <1>8 DEF Truthful
<1>. QED  BY <1>2, <1>5, <1>6, <1>7, <1>9, <1>11, <1>12, StepKeeps

LEMMA SendToConnectionKeeps ==
  ASSUME IInv, NEW n \in Nodes, NEW h \in Handle, SendToConnection(n, h)
  PROVE  IInv'
<1>1. ConnTyped /\ RestTyped
  BY Types DEF IInv
<1>2. UNCHANGED <<conns, listening, nextHandle, net, life, seen, accepted>>
  BY DEF SendToConnection
<1>3. /\ h \in DOMAIN conns[n] /\ conns[n][h].state = "Connected"
      /\ Later(n, "game", <<Send(n, "Msg", h, conns[n][h])>>)
  BY DEF SendToConnection
<1>4. PICK d \in Datagram :
        /\ Send(n, "Msg", h, conns[n][h]) = [send |-> d] /\ d.kind = "Msg"
        /\ d.from = Self(n) /\ d.to = conns[n][h].remoteAddr
        /\ d.src = h /\ d.dst = conns[n][h].remoteHandle
  <2>1. PICK old \in Conn : old = conns[n][h]
    BY <1>1, <1>3 DEF ConnTyped
  <2>2. "Msg" \in {"Req", "Acc", "Msg", "Fin"}
    OBVIOUS
  <2>3. \E d \in Datagram :
          /\ Send(n, "Msg", h, old) = [send |-> d] /\ d.kind = "Msg"
          /\ d.from = Self(n) /\ d.to = old.remoteAddr
          /\ d.src = h /\ d.dst = old.remoteHandle
    BY <1>1, <2>2, SendType
  <2>. QED  BY <2>1, <2>3
<1>5. /\ todo' \in [Nodes -> [Thread -> Seq(Effect)]]
      /\ \A m \in Nodes, u \in Thread : \A e \in Due(m, u)' : e \in Due(m, u) \/ e \in {d}
  <2>1. "game" \in Thread /\ "None" \in State
    BY DEF Thread, State
  <2>2. PICK effects : effects = <<[send |-> d]>>
    OBVIOUS
  <2>3. /\ effects \in Seq(Effect)
        /\ \A i \in DOMAIN effects : \A e \in Datagram : effects[i] = [send |-> e] => e \in {d}
    BY <2>1, <2>2, OneDue
  <2>4. Later(n, "game", effects)
    BY <1>3, <1>4, <2>2
  <2>. QED  BY <1>1, <2>1, <2>3, <2>4, DueAfter
<1>6. /\ ConnTyped' /\ Kept /\ HandlesIssued'
      /\ \A m \in Nodes : \A x \in DOMAIN conns'[m] : Same(m, x)
  BY <1>2, TablesUnchanged
<1>7. sent' \in 0..MaxSends
  <2>1. sent \in 0..MaxSends /\ sent < MaxSends /\ sent' = sent + 1 /\ MaxSends \in Nat
    BY <1>1, ConnectionsAssumption DEF SendToConnection, RestTyped
  <2>. QED  BY <2>1
<1>8. TypeOK'
  BY <1>1, <1>2, <1>5, <1>6, <1>7, Types DEF RestTyped
<1>9. Truthful(d)'
  <2>1. \/ Pair(<<d.from, d.src>>, <<d.to, d.dst>>) \in accepted
        \/ Pair(<<d.to, d.dst>>, <<d.from, d.src>>) \in accepted
    <3>1. ServerConn(n, h) /\ CallerConn(n, h)
      BY <1>3 DEF IInv, ConnOK
    <3>. QED  BY <1>3, <1>4, <3>1 DEF ServerConn, CallerConn
  <2>. QED  BY <1>2, <1>4, <2>1 DEF Truthful
<1>. QED  BY <1>2, <1>5, <1>6, <1>8, <1>9, StepKeeps

LEMMA ReceiveOnConnectionKeeps ==
  ASSUME IInv, NEW n \in Nodes, NEW h \in Handle, NEW k \in 1..MaxInbox,
         ReceiveOnConnection(n, h, k)
  PROVE  IInv'
<1>1. ConnTyped /\ RestTyped
  BY Types DEF IInv
<1>2. UNCHANGED <<listening, nextHandle, todo, net, life, sent, seen, accepted>>
  BY DEF ReceiveOnConnection
<1>3. PICK old, inbox :
        /\ old = conns[n][h].inbox
        /\ inbox = SubSeq(old, k + 1, Len(old))
  OBVIOUS
<1>4. h \in DOMAIN conns[n] /\ InboxSet(n, h, inbox) /\ k \in 1..Len(old) /\ old \in Seq(Message)
  <2>1. conns[n][h].inbox \in Seq(Message)
    BY <1>1, ConnParts DEF ReceiveOnConnection, ConnTyped
  <2>. QED  BY <1>3, <2>1 DEF ReceiveOnConnection, InboxSet
<1>5. /\ inbox \in Seq(Message)
      /\ \A i \in DOMAIN inbox : \E j \in DOMAIN old : inbox[i] = old[j]
  <2>1. /\ Len(old) \in Nat /\ k \in Nat /\ k >= 1 /\ k <= Len(old)
        /\ DOMAIN old = 1..Len(old)
        /\ \A i \in 1..Len(old) : old[i] \in Message
    BY <1>4
  <2>2. /\ k + 1 \in Int /\ Len(old) \in Int
        /\ \A i \in k + 1..Len(old) : i \in 1..Len(old)
        /\ Len(old) - (k + 1) + 1 = Len(old) - k
    BY <2>1
  <2>3. /\ inbox \in Seq(Message)
        /\ Len(inbox) = IF k + 1 <= Len(old) THEN Len(old) - (k + 1) + 1 ELSE 0
        /\ \A i \in 1..Len(old) - (k + 1) + 1 : inbox[i] = old[k + 1 + i - 1]
    BY <1>3, <2>1, <2>2, SubSeqProperties
  <2>4. DOMAIN inbox = 1..Len(inbox)
    BY <2>3
  <2>5. ASSUME NEW i \in 1..Len(inbox)
        PROVE  k + i \in DOMAIN old /\ inbox[i] = old[k + i]
    <3>1. /\ i \in 1..Len(old) - (k + 1) + 1
          /\ k + 1 + i - 1 = k + i /\ k + i \in 1..Len(old)
      <4>1. PICK l \in Nat, j \in Nat, m \in Nat : l = Len(old) /\ j = Len(inbox) /\ m = k
        <5>1. Len(inbox) \in Nat
          BY <2>3, LenProperties
        <5>. QED  BY <2>1, <5>1
      <4>2. m <= l /\ m >= 1 /\ j = (IF m + 1 <= l THEN l - (m + 1) + 1 ELSE 0) /\ i \in 1..j
        BY <2>1, <2>3, <4>1
      <4>3. i \in 1..l - (m + 1) + 1 /\ m + 1 + i - 1 = m + i /\ m + i \in 1..l
        BY <4>2
      <4>. QED  BY <4>1, <4>3
    <3>. QED  BY <2>1, <2>3, <3>1
  <2>. QED  BY <2>3, <2>4, <2>5
<1>6. PICK c \in Conn :
        /\ Changed(n, h, c)
        /\ c.inbox = inbox /\ c.state = conns[n][h].state
        /\ c.listen = conns[n][h].listen /\ c.remoteAddr = conns[n][h].remoteAddr
        /\ c.remoteHandle = conns[n][h].remoteHandle
  BY <1>1, <1>4, <1>5, SetInbox
<1>7. /\ ConnTyped' /\ Kept /\ HandlesIssued'
      /\ SameEnd(n, h) /\ conns'[n][h] = c
      /\ \A m \in Nodes : \A x \in DOMAIN conns'[m] : Same(m, x) \/ (m = n /\ x = h)
  BY <1>2, <1>4, <1>6, OneChanged
<1>8. TypeOK'
  BY <1>1, <1>2, <1>7, Types DEF RestTyped
<1>9. ConnOK(n, h)'
  <2>1. ConnOK(n, h) /\ Self(n)' = Self(n)
    BY <1>2, <1>4 DEF IInv, Self
  <2>2. ServerConn(n, h)'
    <3>1. Numbers
      BY <1>1, <1>8, Types, NumbersOK
    <3>2. ServerConn(n, h) /\ life'[n] = life[n]
      BY <1>2, <2>1 DEF ConnOK
    <3>3. conns'[n][h].state = "Connected" => conns[n][h].state = "Connected"
      BY <1>6, <1>7
    <3>. QED  BY <1>4, <1>7, <3>1, <3>2, <3>3, ServerConnKept
  <2>3. CallerConn(n, h)'
    BY <1>2, <1>6, <1>7, <2>1 DEF ConnOK, CallerConn
  <2>4. InboxFrom(n, h)'
    <3>1. /\ conns'[n][h].inbox = inbox /\ accepted' = accepted
          /\ conns'[n][h].listen = conns[n][h].listen
          /\ conns'[n][h].remoteAddr = conns[n][h].remoteAddr
          /\ conns'[n][h].remoteHandle = conns[n][h].remoteHandle
      BY <1>2, <1>6, <1>7
    <3>2. \A i \in DOMAIN inbox :
            IF conns[n][h].listen # NoHandle
            THEN inbox[i] = <<conns[n][h].remoteAddr, conns[n][h].remoteHandle>>
            ELSE Pair(inbox[i], <<Self(n), h>>) \in accepted
      <4>1. ASSUME NEW i \in DOMAIN inbox, NEW j \in DOMAIN old, inbox[i] = old[j]
            PROVE  IF conns[n][h].listen # NoHandle
                   THEN inbox[i] = <<conns[n][h].remoteAddr, conns[n][h].remoteHandle>>
                   ELSE Pair(inbox[i], <<Self(n), h>>) \in accepted
        <5>1. /\ old = conns[n][h].inbox
              /\ InboxFrom(n, h)
          BY <1>3, <2>1 DEF ConnOK
        <5>. QED  BY <4>1, <5>1 DEF InboxFrom
      <4>. QED  BY <1>5, <4>1
    <3>. QED  BY <2>1, <3>1, <3>2 DEF InboxFrom
  <2>. QED  BY <2>2, <2>3, <2>4 DEF ConnOK
<1>10. \A m \in Nodes, t \in Thread : Due(m, t)' = Due(m, t)
  BY <1>2 DEF Due
<1>. QED  BY <1>2, <1>7, <1>8, <1>9, <1>10, StepKeeps

LEMMA Received ==
  ASSUME IInv, NEW n \in Nodes, NEW d \in net, NEW kind, Receive(n, d, kind)
  PROVE  /\ d \in Datagram /\ Truthful(d) /\ d.kind = kind /\ d.to = Self(n)
         /\ net' \subseteq net
<1>1. RestTyped
  BY Types DEF IInv
<1>. QED  BY <1>1 DEF IInv, AllTruthful, RestTyped, Receive

LEMMA HandleReqKeeps ==
  ASSUME IInv, NEW n \in Nodes, NEW d \in net, HandleReq(n, d)
  PROVE  IInv'
<1>1. ConnTyped /\ RestTyped
  BY Types DEF IInv
<1>2. UNCHANGED <<listening, life, sent, seen, accepted>>
  BY DEF HandleReq
<1>3. d \in Datagram /\ Truthful(d) /\ d.kind = "Req" /\ d.to = Self(n) /\ net' \subseteq net
  BY Received DEF HandleReq
<1>0. PICK h \in Handle, listen \in listening[n] :
        /\ NewHandle(n, h)
        /\ NewConn(n, h, [remote |-> d.from[1], remoteAddr |-> d.from,
                          remoteHandle |-> d.src, state |-> "Connecting",
                          listen |-> listen, inbox |-> << >>])
        /\ Later(n, "pump", <<Report(h, "Connecting")>>)
  BY DEF HandleReq
<1>4. PICK c :
        /\ NewHandle(n, h) /\ NewConn(n, h, c)
        /\ c = [remote |-> d.from[1], remoteAddr |-> d.from,
                remoteHandle |-> d.src, state |-> "Connecting",
                listen |-> listen, inbox |-> << >>]
        /\ Later(n, "pump", <<Report(h, "Connecting")>>)
  BY <1>0
<1>5. /\ c \in Conn /\ c.listen # NoHandle /\ c.state = "Connecting" /\ c.inbox = << >>
      /\ c.remoteAddr = d.from /\ c.remoteHandle = d.src
  <2>1. listen \in Handle /\ listen # NoHandle
    BY <1>1, HandleNat DEF RestTyped
  <2>2. << >> \in Seq(Message)
    OBVIOUS
  <2>. QED  BY <1>3, <1>4, <2>1, <2>2, DatagramParts DEF Conn, State
<1>6. /\ ConnTyped' /\ Kept /\ HandlesIssued'
      /\ nextHandle' \in [Nodes -> Nat]
      /\ \A m \in Nodes : nextHandle'[m] \in 1..MaxHandle[m] + 1
      /\ h \in DOMAIN conns'[n] /\ conns'[n][h] = c /\ nextHandle'[n] = h + 1
      /\ \A m \in Nodes : \A x \in DOMAIN conns'[m] : Same(m, x) \/ (m = n /\ x = h)
  BY <1>2, <1>4, <1>5, OneMade
<1>7. /\ todo' \in [Nodes -> [Thread -> Seq(Effect)]]
      /\ \A m \in Nodes, u \in Thread : \A e \in Due(m, u)' : e \in Due(m, u) \/ e \in {}
  <2>1. "pump" \in Thread /\ "Connecting" \in State
    BY DEF Thread, State
  <2>2. PICK effects : effects = <<Report(h, "Connecting")>>
    OBVIOUS
  <2>3. /\ effects \in Seq(Effect)
        /\ \A i \in DOMAIN effects : \A e \in Datagram : effects[i] = [send |-> e] => e \in {}
    BY <2>1, <2>2, NoneDue
  <2>4. Later(n, "pump", effects)
    BY <1>4, <2>2
  <2>. QED  BY <1>1, <2>1, <2>3, <2>4, DueAfter
<1>8. TypeOK'
  BY <1>1, <1>2, <1>3, <1>6, <1>7, Types DEF RestTyped
<1>9. ConnOK(n, h)'
  <2>1. PICK e \in Endpoint, addr \in {Self(n)} :
          e = <<d.from, d.src>> /\ addr = Self(n) /\ Issued(e) /\ CallerEnd(e, addr)
    <3>1. <<d.from, d.src>> \in Endpoint
      BY <1>3, DatagramParts
    <3>. QED  BY <1>3, <3>1 DEF Truthful
  <2>2. Issued(e)' /\ CallerEnd(e, addr)'
    <3>1. Numbers
      BY <1>1, <1>8, Types, NumbersOK
    <3>. QED  BY <1>6, <2>1, <3>1, IssuedKept, CallerEndKept
  <2>3. /\ addr = Self(n)'
        /\ e = <<conns'[n][h].remoteAddr, conns'[n][h].remoteHandle>>
        /\ conns'[n][h].state # "Connected"
    BY <1>2, <1>5, <1>6, <2>1 DEF Self
  <2>4. ServerConn(n, h)'
    BY <2>2, <2>3 DEF ServerConn, Issued, CallerEnd
  <2>5. CallerConn(n, h)' /\ InboxFrom(n, h)'
    BY <1>5, <1>6 DEF CallerConn, InboxFrom
  <2>. QED  BY <2>4, <2>5 DEF ConnOK
<1>. QED  BY <1>2, <1>3, <1>6, <1>7, <1>8, <1>9, StepKeeps

(* An answer can only be for a connection the game here has called for. *)
LEMMA HandleAccKeeps ==
  ASSUME IInv, NEW n \in Nodes, NEW d \in net, HandleAcc(n, d)
  PROVE  IInv'
<1>1. ConnTyped /\ RestTyped
  BY Types DEF IInv
<1>2. UNCHANGED <<listening, nextHandle, life, sent, seen, accepted>>
  BY DEF HandleAcc
<1>3. d \in Datagram /\ Truthful(d) /\ d.kind = "Acc" /\ d.to = Self(n) /\ net' \subseteq net
  BY Received DEF HandleAcc
<1>4. PICK h \in Handle :
        /\ h \in DOMAIN conns[n] /\ h = d.dst
        /\ Answered(n, h, d.src)
        /\ Later(n, "pump", <<Report(h, "Connected")>>)
  BY DEF HandleAcc, Answer, Answered
<1>5. PICK pair \in accepted : pair = Pair(<<d.from, d.src>>, <<Self(n), h>>)
  BY <1>3, <1>4 DEF Truthful
<1>6. conns[n][h].listen = NoHandle /\ conns[n][h].remoteAddr = d.from
  <2>1. /\ pair.server = <<d.from, d.src>> /\ pair.client = <<Self(n), h>>
        /\ CallerEnd(pair.client, pair.server[1])
    BY <1>5 DEF Pair, IInv, Agreed
  <2>. QED  BY <1>4, <2>1 DEF CallerEnd
<1>7. PICK c \in Conn :
        /\ Changed(n, h, c)
        /\ c.state = "Connected" /\ c.remoteHandle = d.src
        /\ c.listen = conns[n][h].listen /\ c.remoteAddr = conns[n][h].remoteAddr
        /\ c.inbox = conns[n][h].inbox
  <2>1. d.src \in Handle
    BY <1>3, DatagramParts
  <2>. QED  BY <1>1, <1>4, <2>1, SetAnswered
<1>8. /\ ConnTyped' /\ Kept /\ HandlesIssued'
      /\ SameEnd(n, h) /\ conns'[n][h] = c
      /\ \A m \in Nodes : \A x \in DOMAIN conns'[m] : Same(m, x) \/ (m = n /\ x = h)
  BY <1>2, <1>4, <1>6, <1>7, OneChanged
<1>9. /\ todo' \in [Nodes -> [Thread -> Seq(Effect)]]
      /\ \A m \in Nodes, u \in Thread : \A e \in Due(m, u)' : e \in Due(m, u) \/ e \in {}
  <2>1. "pump" \in Thread /\ "Connected" \in State
    BY DEF Thread, State
  <2>2. PICK effects : effects = <<Report(h, "Connected")>>
    OBVIOUS
  <2>3. /\ effects \in Seq(Effect)
        /\ \A i \in DOMAIN effects : \A e \in Datagram : effects[i] = [send |-> e] => e \in {}
    BY <2>1, <2>2, NoneDue
  <2>4. Later(n, "pump", effects)
    BY <1>4, <2>2
  <2>. QED  BY <1>1, <2>1, <2>3, <2>4, DueAfter
<1>10. TypeOK'
  BY <1>1, <1>2, <1>3, <1>8, <1>9, Types DEF RestTyped
<1>11. ConnOK(n, h)'
  <2>1. ConnOK(n, h) /\ Self(n)' = Self(n)
    BY <1>2, <1>4 DEF IInv, Self
  <2>2. ServerConn(n, h)'
    BY <1>6, <1>7, <1>8 DEF ServerConn
  <2>3. CallerConn(n, h)'
    BY <1>2, <1>5, <1>6, <1>7, <1>8, <2>1 DEF CallerConn
  <2>4. InboxFrom(n, h)'
    <3>1. InboxFrom(n, h)
      BY <2>1 DEF ConnOK
    <3>. QED  BY <1>2, <1>6, <1>7, <1>8, <2>1, <3>1 DEF InboxFrom
  <2>. QED  BY <2>2, <2>3, <2>4 DEF ConnOK
<1>. QED  BY <1>2, <1>3, <1>8, <1>9, <1>10, <1>11, StepKeeps

LEMMA HandleMsgKeeps ==
  ASSUME IInv, NEW n \in Nodes, NEW d \in net, HandleMsg(n, d)
  PROVE  IInv'
<1>1. ConnTyped /\ RestTyped
  BY Types DEF IInv
<1>2. UNCHANGED <<listening, nextHandle, todo, life, sent, seen, accepted>>
  BY DEF HandleMsg
<1>3. d \in Datagram /\ Truthful(d) /\ d.kind = "Msg" /\ d.to = Self(n) /\ net' \subseteq net
  BY Received DEF HandleMsg
<1>0. PICK h \in Handle :
        /\ h \in DOMAIN conns[n] /\ h = d.dst
        /\ InboxSet(n, h, Append(conns[n][h].inbox, <<d.from, d.src>>))
  BY DEF HandleMsg, Answer, InboxSet
<1>4. PICK message, old, inbox :
        /\ h \in DOMAIN conns[n] /\ h = d.dst
        /\ message = <<d.from, d.src>>
        /\ old = conns[n][h].inbox /\ inbox = Append(old, message)
        /\ InboxSet(n, h, inbox)
  BY <1>0
<1>5. /\ message \in Message /\ old \in Seq(Message) /\ inbox \in Seq(Message)
      /\ \A i \in DOMAIN inbox : inbox[i] = message \/ (i \in DOMAIN old /\ inbox[i] = old[i])
  <2>1. message \in Message
    BY <1>3, <1>4, DatagramParts DEF Message
  <2>2. old \in Seq(Message)
    BY <1>1, <1>4, ConnParts DEF ConnTyped
  <2>3. inbox \in Seq(Message)
    BY <1>4, <2>1, <2>2
  <2>4. \A i \in DOMAIN inbox : inbox[i] = message \/ (i \in DOMAIN old /\ inbox[i] = old[i])
    <3>1. /\ Len(inbox) = Len(old) + 1 /\ Len(old) \in Nat
          /\ \A i \in 1..Len(old) : inbox[i] = old[i]
          /\ inbox[Len(old) + 1] = message
      BY <1>4, <2>1, <2>2, AppendProperties, LenProperties
    <3>2. DOMAIN inbox = 1..Len(old) + 1 /\ DOMAIN old = 1..Len(old)
      BY <2>2, <2>3, <3>1
    <3>3. \A i \in 1..Len(old) + 1 : i = Len(old) + 1 \/ i \in 1..Len(old)
      BY <3>1
    <3>. QED  BY <3>1, <3>2, <3>3
  <2>. QED  BY <2>1, <2>2, <2>3, <2>4
<1>6. PICK c \in Conn :
        /\ Changed(n, h, c)
        /\ c.inbox = inbox /\ c.state = conns[n][h].state
        /\ c.listen = conns[n][h].listen /\ c.remoteAddr = conns[n][h].remoteAddr
        /\ c.remoteHandle = conns[n][h].remoteHandle
  <2>1. h \in DOMAIN conns[n] /\ InboxSet(n, h, inbox) /\ inbox \in Seq(Message)
    BY <1>4, <1>5
  <2>. QED  BY <1>1, <2>1, SetInbox
<1>7. /\ ConnTyped' /\ Kept /\ HandlesIssued'
      /\ SameEnd(n, h) /\ conns'[n][h] = c
      /\ \A m \in Nodes : \A x \in DOMAIN conns'[m] : Same(m, x) \/ (m = n /\ x = h)
  BY <1>2, <1>4, <1>6, OneChanged
<1>8. TypeOK'
  BY <1>1, <1>2, <1>3, <1>7, Types DEF RestTyped
<1>9. IF conns[n][h].listen # NoHandle
      THEN message = <<conns[n][h].remoteAddr, conns[n][h].remoteHandle>>
      ELSE Pair(message, <<Self(n), h>>) \in accepted
  <2>1. CASE Pair(message, <<Self(n), h>>) \in accepted
    <3>1. PICK pair \in accepted : pair = Pair(message, <<Self(n), h>>)
      BY <2>1
    <3>2. pair.client = <<Self(n), h>> /\ CallerEnd(pair.client, pair.server[1])
      BY <3>1 DEF Pair, IInv, Agreed
    <3>. QED  BY <1>4, <2>1, <3>2 DEF CallerEnd
  <2>2. CASE Pair(<<Self(n), h>>, message) \in accepted
    <3>1. PICK pair \in accepted : pair = Pair(<<Self(n), h>>, message)
      BY <2>2
    <3>2. /\ pair.server = <<Self(n), h>> /\ pair.client = message
          /\ ServerEnd(pair.server, pair.client)
      BY <3>1 DEF Pair, IInv, Agreed
    <3>. QED  BY <1>4, <3>2 DEF ServerEnd
  <2>. QED  BY <1>3, <1>4, <2>1, <2>2 DEF Truthful
<1>10. ConnOK(n, h)'
  <2>1. ConnOK(n, h) /\ Self(n)' = Self(n)
    BY <1>2, <1>4 DEF IInv, Self
  <2>2. ServerConn(n, h)'
    <3>1. Numbers
      BY <1>1, <1>8, Types, NumbersOK
    <3>2. ServerConn(n, h) /\ life'[n] = life[n]
      BY <1>2, <2>1 DEF ConnOK
    <3>3. conns'[n][h].state = "Connected" => conns[n][h].state = "Connected"
      BY <1>6, <1>7
    <3>. QED  BY <1>4, <1>7, <3>1, <3>2, <3>3, ServerConnKept
  <2>3. CallerConn(n, h)'
    BY <1>2, <1>6, <1>7, <2>1 DEF ConnOK, CallerConn
  <2>4. InboxFrom(n, h)'
    <3>1. /\ conns'[n][h].inbox = inbox /\ accepted' = accepted
          /\ conns'[n][h].listen = conns[n][h].listen
          /\ conns'[n][h].remoteAddr = conns[n][h].remoteAddr
          /\ conns'[n][h].remoteHandle = conns[n][h].remoteHandle
      BY <1>2, <1>6, <1>7
    <3>2. ASSUME NEW i \in DOMAIN inbox
          PROVE  IF conns[n][h].listen # NoHandle
                 THEN inbox[i] = <<conns[n][h].remoteAddr, conns[n][h].remoteHandle>>
                 ELSE Pair(inbox[i], <<Self(n), h>>) \in accepted
      <4>1. CASE inbox[i] = message
        BY <1>9, <4>1
      <4>2. CASE i \in DOMAIN old /\ inbox[i] = old[i]
        <5>1. old = conns[n][h].inbox /\ InboxFrom(n, h)
          BY <1>4, <2>1 DEF ConnOK
        <5>. QED  BY <4>2, <5>1 DEF InboxFrom
      <4>. QED  BY <1>5, <4>1, <4>2
    <3>. QED  BY <2>1, <3>1, <3>2 DEF InboxFrom
  <2>. QED  BY <2>2, <2>3, <2>4 DEF ConnOK
<1>11. \A m \in Nodes, t \in Thread : Due(m, t)' = Due(m, t)
  BY <1>2 DEF Due
<1>. QED  BY <1>2, <1>3, <1>7, <1>8, <1>10, <1>11, StepKeeps

LEMMA HandleFinKeeps ==
  ASSUME IInv, NEW n \in Nodes, NEW d \in net, HandleFin(n, d)
  PROVE  IInv'
<1>1. ConnTyped /\ RestTyped
  BY Types DEF IInv
<1>2. UNCHANGED <<listening, nextHandle, life, sent, seen, accepted>>
  BY DEF HandleFin
<1>3. net' \subseteq net
  BY Received DEF HandleFin
<1>4. PICK h \in Handle :
        /\ h \in DOMAIN conns[n] /\ StateSet(n, h, "ClosedByPeer")
        /\ Later(n, "pump", <<Report(h, "ClosedByPeer")>>)
  BY DEF HandleFin, Answer, StateSet
<1>5. "ClosedByPeer" \in State
  BY DEF State
<1>6. PICK c \in Conn :
        /\ Changed(n, h, c)
        /\ c.state = "ClosedByPeer"
        /\ c.listen = conns[n][h].listen /\ c.remoteAddr = conns[n][h].remoteAddr
        /\ c.remoteHandle = conns[n][h].remoteHandle /\ c.inbox = conns[n][h].inbox
  BY <1>1, <1>4, <1>5, SetState
<1>7. /\ ConnTyped' /\ Kept /\ HandlesIssued'
      /\ SameEnd(n, h) /\ conns'[n][h] = c
      /\ \A m \in Nodes : \A x \in DOMAIN conns'[m] : Same(m, x) \/ (m = n /\ x = h)
  BY <1>2, <1>4, <1>6, OneChanged
<1>8. /\ todo' \in [Nodes -> [Thread -> Seq(Effect)]]
      /\ \A m \in Nodes, u \in Thread : \A e \in Due(m, u)' : e \in Due(m, u) \/ e \in {}
  <2>1. "pump" \in Thread
    BY DEF Thread
  <2>2. PICK effects : effects = <<Report(h, "ClosedByPeer")>>
    OBVIOUS
  <2>3. /\ effects \in Seq(Effect)
        /\ \A i \in DOMAIN effects : \A e \in Datagram : effects[i] = [send |-> e] => e \in {}
    BY <1>5, <2>2, NoneDue
  <2>4. Later(n, "pump", effects)
    BY <1>4, <2>2
  <2>. QED  BY <1>1, <2>1, <2>3, <2>4, DueAfter
<1>9. TypeOK'
  BY <1>1, <1>2, <1>3, <1>7, <1>8, Types DEF RestTyped
<1>10. ConnOK(n, h)'
  <2>1. ConnOK(n, h) /\ Self(n)' = Self(n)
    BY <1>2, <1>4 DEF IInv, Self
  <2>2. ServerConn(n, h)'
    <3>1. Numbers
      BY <1>1, <1>9, Types, NumbersOK
    <3>2. ServerConn(n, h) /\ life'[n] = life[n]
      BY <1>2, <2>1 DEF ConnOK
    <3>3. conns'[n][h].state # "Connected"
      BY <1>6, <1>7
    <3>. QED  BY <1>4, <1>7, <3>1, <3>2, <3>3, ServerConnKept
  <2>3. CallerConn(n, h)'
    BY <1>6, <1>7 DEF CallerConn
  <2>4. InboxFrom(n, h)'
    <3>1. InboxFrom(n, h)
      BY <2>1 DEF ConnOK
    <3>. QED  BY <1>2, <1>6, <1>7, <2>1, <3>1 DEF InboxFrom
  <2>. QED  BY <2>2, <2>3, <2>4 DEF ConnOK
<1>. QED  BY <1>2, <1>3, <1>7, <1>8, <1>9, <1>10, StepKeeps

(* What is next for a thread. *)
LEMMA NextEffect ==
  ASSUME IInv, NEW n \in Nodes, NEW t \in Thread, ~Idle(n, t), Later(n, t, Tail(todo[n][t]))
  PROVE  /\ Head(todo[n][t]) \in Effect
         /\ \A d \in Datagram : Head(todo[n][t]) = [send |-> d] => d \in Due(n, t)
         /\ todo' \in [Nodes -> [Thread -> Seq(Effect)]]
         /\ \A m \in Nodes, u \in Thread : \A d \in Due(m, u)' : d \in Due(m, u)
<1>1. RestTyped
  BY Types DEF IInv
<1>2. PICK effects : effects = todo[n][t]
  OBVIOUS
<1>3. effects \in Seq(Effect) /\ effects # << >>
  BY <1>1, <1>2 DEF RestTyped, Idle
<1>4. PICK rest : rest = Tail(effects)
  OBVIOUS
<1>5. /\ Head(effects) \in Effect /\ rest \in Seq(Effect)
      /\ Len(rest) = Len(effects) - 1 /\ Len(effects) \in Nat /\ Len(rest) \in Nat
      /\ \A i \in 1..Len(rest) : rest[i] = effects[i + 1]
  BY <1>3, <1>4, HeadTailProperties, LenProperties
<1>6. DOMAIN effects = 1..Len(effects) /\ DOMAIN rest = 1..Len(rest)
  BY <1>3, <1>5, LenProperties
<1>7. \A i \in DOMAIN rest : i + 1 \in DOMAIN effects /\ rest[i] = effects[i + 1]
  <2>1. \A i \in 1..Len(rest) : i + 1 \in 1..Len(effects)
    BY <1>5
  <2>. QED  BY <1>5, <1>6, <2>1
<1>8. 1 \in DOMAIN effects /\ effects[1] = Head(effects)
  BY <1>3, <1>5, <1>6
<1>9. \A d \in Datagram : Head(effects) = [send |-> d] => d \in Due(n, t)
  BY <1>2, <1>8 DEF Due
<1>10. \A i \in DOMAIN rest : \A d \in Datagram : rest[i] = [send |-> d] => d \in Due(n, t)
  BY <1>2, <1>7 DEF Due
<1>11. Later(n, t, rest)
  BY <1>2, <1>4
<1>12. PICK S : S = Due(n, t)
  OBVIOUS
<1>13. /\ todo' \in [Nodes -> [Thread -> Seq(Effect)]]
       /\ \A m \in Nodes, u \in Thread :
            todo'[m][u] = IF m = n /\ u = t THEN rest ELSE todo[m][u]
  BY <1>1, <1>5, <1>11, LaterFacts
<1>14. ASSUME NEW m \in Nodes, NEW u \in Thread, NEW d \in Due(m, u)'
       PROVE  d \in Due(m, u)
  <2>1. CASE m = n /\ u = t
    BY <1>10, <1>13, <1>14, <2>1 DEF Due
  <2>2. CASE ~ (m = n /\ u = t)
    BY <1>13, <1>14, <2>2 DEF Due
  <2>. QED  BY <2>1, <2>2
<1>. QED  BY <1>2, <1>5, <1>9, <1>13, <1>14

LEMMA SendNextKeeps ==
  ASSUME IInv, NEW n \in Nodes, NEW t \in Thread, SendNext(n, t)
  PROVE  IInv'
<1>1. ConnTyped /\ RestTyped
  BY Types DEF IInv
<1>2. UNCHANGED <<conns, listening, nextHandle, life, sent, seen, accepted>>
  BY DEF SendNext
<1>3. PICK next :
        /\ next = Head(todo[n][t]) /\ "send" \in DOMAIN next
        /\ net' = net \cup {next.send}
        /\ ~Idle(n, t) /\ Later(n, t, Tail(todo[n][t]))
  BY DEF SendNext
<1>4. /\ next \in Effect
      /\ \A d \in Datagram : next = [send |-> d] => d \in Due(n, t)
      /\ todo' \in [Nodes -> [Thread -> Seq(Effect)]]
      /\ \A m \in Nodes, u \in Thread : \A d \in Due(m, u)' : d \in Due(m, u)
  BY <1>3, NextEffect
<1>5. next.send \in Datagram /\ next = [send |-> next.send]
  <2>1. CASE next \in [send : Datagram]
    BY <2>1
  <2>2. CASE next \in [report : State, conn : Handle]
    <3>1. DOMAIN next = {"report", "conn"}
      BY <2>2
    <3>. QED  BY <1>3, <3>1
  <2>. QED  BY <1>4, <2>1, <2>2 DEF Effect
<1>6. /\ ConnTyped' /\ Kept /\ HandlesIssued'
      /\ \A m \in Nodes : \A x \in DOMAIN conns'[m] : Same(m, x)
  BY <1>2, TablesUnchanged
<1>7. net' \subseteq Datagram
  BY <1>1, <1>3, <1>5 DEF RestTyped
<1>8. TypeOK'
  BY <1>1, <1>2, <1>4, <1>6, <1>7, Types DEF RestTyped
<1>9. next.send \in Due(n, t)
  BY <1>4, <1>5
<1>. QED  BY <1>2, <1>3, <1>4, <1>6, <1>8, <1>9, StepKeeps

LEMMA FireConnStatusKeeps ==
  ASSUME IInv, NEW n \in Nodes, NEW t \in Thread, FireConnStatus(n, t)
  PROVE  IInv'
<1>1. ConnTyped /\ RestTyped
  BY Types DEF IInv
<1>2. UNCHANGED <<conns, listening, nextHandle, net, life, sent, accepted>>
  BY DEF FireConnStatus
<1>3. PICK next :
        /\ next = Head(todo[n][t]) /\ "report" \in DOMAIN next
        /\ seen' = [seen EXCEPT ![n][next.conn] = next.report]
        /\ ~Idle(n, t) /\ Later(n, t, Tail(todo[n][t]))
  BY DEF FireConnStatus
<1>4. /\ next \in Effect
      /\ todo' \in [Nodes -> [Thread -> Seq(Effect)]]
      /\ \A m \in Nodes, u \in Thread : \A d \in Due(m, u)' : d \in Due(m, u)
  BY <1>3, NextEffect
<1>5. next.conn \in Handle /\ next.report \in State
  <2>1. CASE next \in [send : Datagram]
    <3>1. DOMAIN next = {"send"}
      BY <2>1
    <3>. QED  BY <1>3, <3>1
  <2>2. CASE next \in [report : State, conn : Handle]
    BY <2>2
  <2>. QED  BY <1>4, <2>1, <2>2 DEF Effect
<1>6. /\ ConnTyped' /\ Kept /\ HandlesIssued'
      /\ \A m \in Nodes : \A x \in DOMAIN conns'[m] : Same(m, x)
  BY <1>2, TablesUnchanged
<1>7. seen' \in [Nodes -> [Handle -> State]]
  BY <1>1, <1>3, <1>5 DEF RestTyped
<1>8. TypeOK'
  BY <1>1, <1>2, <1>4, <1>6, <1>7, Types DEF RestTyped
<1>. QED  BY <1>2, <1>4, <1>6, <1>8, StepKeeps

LEMMA RestartKeeps ==
  ASSUME IInv, NEW n \in Nodes, Restart(n)
  PROVE  IInv'
<1>1. ConnTyped /\ RestTyped
  BY Types DEF IInv
<1>2. /\ life[n] = 1 /\ life' = [life EXCEPT ![n] = 2]
      /\ conns' = [conns EXCEPT ![n] = << >>]
      /\ listening' = [listening EXCEPT ![n] = {}]
      /\ nextHandle' = [nextHandle EXCEPT ![n] = 1]
      /\ todo' = [todo EXCEPT ![n] = [t \in Thread |-> << >>]]
      /\ seen' = [seen EXCEPT ![n] = [h \in Handle |-> "None"]]
      /\ net' \subseteq net
      /\ UNCHANGED <<sent, accepted>>
  BY DEF Restart
<1>3. /\ ConnTyped'
      /\ conns'[n] = << >> /\ \A m \in Nodes \ {n} : conns'[m] = conns[m]
  <2>1. PICK f : f = << >>
    OBVIOUS
  <2>2. DOMAIN f = {} /\ f = [x \in DOMAIN f |-> f[x]]
    BY <2>1
  <2>3. conns' = [m \in Nodes |-> IF m = n THEN f ELSE conns[m]]
    BY <1>1, <1>2, <2>1 DEF ConnTyped
  <2>4. DOMAIN f \subseteq Handle /\ \A x \in DOMAIN f : f[x] \in Conn
    BY <2>2
  <2>5. ConnTyped' /\ conns'[n] = f /\ \A m \in Nodes \ {n} : conns'[m] = conns[m]
    BY <1>1, <2>2, <2>3, <2>4, TableTyped
  <2>. QED  BY <2>1, <2>5
<1>4. DOMAIN conns'[n] = {}
  BY <1>3
<1>5. /\ life'[n] = 2 /\ life' \in [Nodes -> 1..2]
      /\ \A m \in Nodes \ {n} : life'[m] = life[m] /\ nextHandle'[m] = nextHandle[m]
      /\ nextHandle'[n] = 1 /\ nextHandle' \in [Nodes -> Nat]
  BY <1>1, <1>2 DEF RestTyped
<1>6. \A m \in Nodes : \A x \in DOMAIN conns'[m] : m # n /\ Same(m, x)
  BY <1>3, <1>4, <1>5 DEF Same
<1>7. TypeOK'
  <2>1. \A m \in Nodes : nextHandle'[m] \in 1..MaxHandle[m] + 1
    <3>1. MaxHandle[n] \in Nat
      BY ConnectionsAssumption
    <3>2. 1 \in 1..MaxHandle[n] + 1
      BY <3>1
    <3>. QED  BY <1>1, <1>5, <3>2 DEF RestTyped
  <2>2. listening' \in [Nodes -> SUBSET Handle]
    BY <1>1, <1>2 DEF RestTyped
  <2>3. todo' \in [Nodes -> [Thread -> Seq(Effect)]]
    <3>1. [t \in Thread |-> << >>] \in [Thread -> Seq(Effect)]
      OBVIOUS
    <3>. QED  BY <1>1, <1>2, <3>1 DEF RestTyped
  <2>4. seen' \in [Nodes -> [Handle -> State]]
    <3>1. [h \in Handle |-> "None"] \in [Handle -> State]
      BY DEF State
    <3>. QED  BY <1>1, <1>2, <3>1 DEF RestTyped
  <2>. QED  BY <1>1, <1>2, <1>3, <1>5, <2>1, <2>2, <2>3, <2>4, Types DEF RestTyped
<1>8. HandlesIssued'
  BY <1>5, <1>6 DEF Same, IInv, HandlesIssued
<1>9. Kept
  <2>1. \A m \in Nodes : life[m] \in 1..2 /\ nextHandle[m] \in Nat
    BY <1>1 DEF RestTyped
  <2>2. \A m \in Nodes \ {n} : life[m] <= life'[m] /\ nextHandle[m] <= nextHandle'[m]
    BY <1>5, <2>1
  <2>3. life[n] <= life'[n] /\ life'[n] # life[n]
    BY <1>2, <1>5
  <2>4. \A m \in Nodes : \A x \in DOMAIN conns'[m] : SameEnd(m, x)
    BY <1>6 DEF Same, SameEnd
  <2>. QED  BY <1>2, <1>4, <1>5, <2>2, <2>3, <2>4 DEF Kept, KeptAt
<1>10. \A m \in Nodes, t \in Thread : \A d \in Due(m, t)' : d \in Due(m, t)
  <2>1. ASSUME NEW m \in Nodes, NEW t \in Thread, NEW d \in Due(m, t)'
        PROVE  d \in Due(m, t)
    <3>1. CASE m = n
      <4>1. todo'[m][t] = << >>
        BY <1>1, <1>2, <3>1 DEF RestTyped
      <4>2. \A i \in DOMAIN todo'[m][t] : FALSE
        BY <4>1
      <4>. QED  BY <2>1, <4>2 DEF Due
    <3>2. CASE m # n
      <4>1. todo'[m][t] = todo[m][t]
        BY <1>1, <1>2, <3>2 DEF RestTyped
      <4>. QED  BY <2>1, <4>1 DEF Due
    <3>. QED  BY <3>1, <3>2
  <2>. QED  BY <2>1
<1>. QED  BY <1>2, <1>6, <1>7, <1>8, <1>9, <1>10, StepKeeps

-----------------------------------------------------------------------------
(* The theorems *)

LEMMA InitIInv == Init => IInv
<1>. SUFFICES ASSUME Init PROVE IInv
  OBVIOUS
<1>1. \A n \in Nodes : conns[n] = << >> /\ DOMAIN conns[n] = {}
  BY DEF Init
<1>2. ConnTyped
  <2>1. conns = [n \in Nodes |-> conns[n]]
    BY DEF Init
  <2>2. \A n \in Nodes : conns[n] = [h \in DOMAIN conns[n] |-> conns[n][h]]
    BY <1>1
  <2>. QED  BY <1>1, <2>1, <2>2 DEF ConnTyped
<1>3. RestTyped
  <2>1. \A n \in Nodes : 1 \in 1..MaxHandle[n] + 1
    <3>1. \A n \in Nodes : MaxHandle[n] \in Nat
      BY ConnectionsAssumption
    <3>2. \A m \in Nat : 1 \in 1..m + 1
      OBVIOUS
    <3>. QED  BY <3>1, <3>2
  <2>2. \A n \in Nodes : nextHandle[n] \in 1..MaxHandle[n] + 1
    BY <2>1 DEF Init
  <2>3. todo \in [Nodes -> [Thread -> Seq(Effect)]]
    <3>1. << >> \in Seq(Effect)
      OBVIOUS
    <3>. QED  BY <3>1 DEF Init
  <2>4. seen \in [Nodes -> [Handle -> State]]
    BY DEF Init, State
  <2>5. sent \in 0..MaxSends
    <3>1. MaxSends \in Nat
      BY ConnectionsAssumption
    <3>. QED  BY <3>1 DEF Init
  <2>6. listening \in [Nodes -> SUBSET Handle] /\ nextHandle \in [Nodes -> Nat]
    BY DEF Init
  <2>7. life \in [Nodes -> 1..2] /\ net \subseteq Datagram
        /\ accepted \subseteq [server : Endpoint, client : Endpoint]
    BY DEF Init
  <2>. QED  BY <2>2, <2>3, <2>4, <2>5, <2>6, <2>7 DEF RestTyped
<1>4. AllTruthful
  <2>1. ASSUME NEW n \in Nodes, NEW t \in Thread, NEW d \in Due(n, t)
        PROVE  FALSE
    <3>1. todo[n][t] = << >>
      BY DEF Init
    <3>2. \A i \in DOMAIN todo[n][t] : FALSE
      BY <3>1
    <3>. QED  BY <2>1, <3>2 DEF Due
  <2>. QED  BY <2>1 DEF AllTruthful, Init
<1>5. accepted = {}
  BY DEF Init
<1>. QED  BY <1>1, <1>2, <1>3, <1>4, <1>5, Types DEF IInv, HandlesIssued

LEMMA StutterKeeps == IInv /\ UNCHANGED vars => IInv'
<1>. SUFFICES ASSUME IInv, UNCHANGED vars PROVE IInv'
  OBVIOUS
<1>1. UNCHANGED <<conns, listening, nextHandle, todo, net, life, sent, seen, accepted>>
  BY DEF vars
<1>2. ConnTyped /\ RestTyped
  BY Types DEF IInv
<1>3. /\ ConnTyped' /\ Kept /\ HandlesIssued'
      /\ \A m \in Nodes : \A x \in DOMAIN conns'[m] : Same(m, x)
  BY <1>1, TablesUnchanged
<1>4. TypeOK'
  BY <1>1, <1>2, <1>3, Types DEF RestTyped
<1>5. \A m \in Nodes, t \in Thread : Due(m, t)' = Due(m, t)
  BY <1>1 DEF Due
<1>. QED  BY <1>1, <1>3, <1>4, <1>5, StepKeeps

LEMMA NextIInv == IInv /\ [Next]_vars => IInv'
<1>. SUFFICES ASSUME IInv, [Next]_vars PROVE IInv'
  OBVIOUS
<1>1. CASE UNCHANGED vars
  BY <1>1, StutterKeeps
<1>2. ASSUME NEW n \in Nodes, Game(n)
      PROVE  IInv'
  <2>1. CASE CreateListenSocketP2P(n)
    BY <2>1, CreateListenSocketKeeps
  <2>2. CASE \E m \in Nodes : ConnectP2P(n, m)
    BY <2>2, ConnectKeeps
  <2>3. CASE \E h \in Handle : CloseListenSocket(n, h)
    BY <2>3, CloseListenSocketKeeps
  <2>4. CASE \E h \in Handle : AcceptConnection(n, h)
    BY <2>4, AcceptKeeps
  <2>5. CASE \E h \in Handle : CloseConnection(n, h)
    BY <2>5, CloseConnectionKeeps
  <2>6. CASE \E h \in Handle : SendToConnection(n, h)
    BY <2>6, SendToConnectionKeeps
  <2>7. CASE \E h \in Handle, k \in 1..MaxInbox : ReceiveOnConnection(n, h, k)
    BY <2>7, ReceiveOnConnectionKeeps
  <2>. QED  BY <1>2, <2>1, <2>2, <2>3, <2>4, <2>5, <2>6, <2>7 DEF Game
<1>3. ASSUME NEW n \in Nodes, Pump(n)
      PROVE  IInv'
  BY <1>3, HandleReqKeeps, HandleAccKeeps, HandleMsgKeeps, HandleFinKeeps DEF Pump
<1>4. ASSUME NEW n \in Nodes, Restart(n)
      PROVE  IInv'
  BY <1>4, RestartKeeps
<1>5. ASSUME NEW n \in Nodes, NEW t \in Thread, SendNext(n, t) \/ FireConnStatus(n, t)
      PROVE  IInv'
  BY <1>5, SendNextKeeps, FireConnStatusKeeps
<1>. QED  BY <1>1, <1>2, <1>3, <1>4, <1>5 DEF Next

(* Every reachable state is typed, whose a handle, a pair of accepted ends *)
(* or a datagram says a connection is, it is.                              *)
THEOREM InductiveInvariant == Spec => []IInv
BY InitIInv, NextIInv, PTL DEF Spec

(* The tables, the datagrams and what the threads have still to do hold    *)
(* what their types say, whatever is called, received or restarted.        *)
THEOREM TypeCorrect == Spec => []TypeOK
<1>1. IInv => TypeOK
  BY DEF IInv
<1>. QED  BY InductiveInvariant, <1>1, PTL

(* A caller takes itself for connected only to the connection the game at  *)
(* the address it called has accepted for it, however the two processes    *)
(* restarted and gave out the same handles again.                          *)
THEOREM CallersWereAccepted == Spec => []ConnectedWasAccepted
BY InductiveInvariant, IInvImplies, PTL

(* What a game receives on a connection was sent by the connection at the  *)
(* other end of it, and never by one that merely names the same handle.    *)
THEOREM MessagesStayApart == Spec => []NoCrossTalk
BY InductiveInvariant, IInvImplies, PTL

-----------------------------------------------------------------------------
(* The status a caller was last told of.  The request of a call is made    *)
(* after the report, so while the report is due no one else can know the   *)
(* connection: no datagram under way and no connection names its handle.   *)

Remote(c) == <<c.remoteAddr, c.remoteHandle>>
Told(d) == {<<d.from, d.src>>, <<d.to, d.dst>>}

(* The endpoint is named by a datagram sent, by one that a thread of       *)
(* threads is about to send, or by a connection as its other end.          *)
Named(threads, e) ==
  \/ \E d \in net : e \in Told(d)
  \/ \E n \in Nodes, t \in Thread : <<n, t>> \in threads /\ \E d \in Due(n, t) : e \in Told(d)
  \/ \E n \in Nodes : \E h \in DOMAIN conns[n] : e = Remote(conns[n][h])

Threads == Nodes \X Thread
Elsewhere(n) == Threads \ {<<n, "game">>}

NamesIssued == \A e \in Endpoint : Named(Threads, e) => Issued(e)

Caller(n, h) == h \in DOMAIN conns[n] /\ conns[n][h].listen = NoHandle

(* The game is still in the call that made the connection. *)
Calling(n, h) == todo[n]["game"] = Call(n, h, conns[n][h])

(* A report of the pump is of the state the connection is in. *)
PumpReports(n) ==
  \/ todo[n]["pump"] = << >>
  \/ \E h \in Handle, s \in State :
       /\ todo[n]["pump"] = <<Report(h, s)>>
       /\ h < nextHandle[n]
       /\ Caller(n, h) => s = conns[n][h].state

(* One of the game is of a connection there is, and of a caller's only in  *)
(* the call that makes it.                                                 *)
GameReports(n) ==
  \A i \in DOMAIN todo[n]["game"] : \A h \in Handle, s \in State :
    todo[n]["game"][i] = Report(h, s) =>
      h \in DOMAIN conns[n] /\ (Caller(n, h) => Calling(n, h))

Unknown(n, h) ==
  /\ conns[n][h].state = "Connecting"
  /\ \A s \in State : todo[n]["pump"] # <<Report(h, s)>>
  /\ ~Named(Elsewhere(n), <<Self(n), h>>)

Known(n, h) ==
  \/ seen[n][h] = conns[n][h].state
  \/ todo[n]["pump"] = <<Report(h, conns[n][h].state)>>

StatusAt(n) ==
  /\ PumpReports(n)
  /\ GameReports(n)
  /\ \A h \in Handle : Caller(n, h) => IF Calling(n, h) THEN Unknown(n, h) ELSE Known(n, h)

SInv == NamesIssued /\ \A n \in Nodes : StatusAt(n)

-----------------------------------------------------------------------------
(* Which names a step spreads: those it sends of its own connections and   *)
(* of what they are connected to, and those it has received.               *)

LEMMA NothingGivenOut ==
  ASSUME RestTyped, UNCHANGED <<nextHandle, life>>
  PROVE  Rising
<1>1. \A n \in Nodes : life[n] \in 1..2 /\ nextHandle[n] \in Nat
  BY DEF RestTyped
<1>. QED  BY <1>1 DEF Rising

LEMMA OneGivenOut ==
  ASSUME RestTyped, NEW n \in Nodes, NEW h, NewHandle(n, h), UNCHANGED life
  PROVE  /\ Rising
         /\ nextHandle'[n] = nextHandle[n] + 1 /\ h = nextHandle[n]
         /\ \A m \in Nodes \ {n} : nextHandle'[m] = nextHandle[m]
<1>1. \A m \in Nodes : life[m] \in 1..2 /\ nextHandle[m] \in Nat
  BY DEF RestTyped
<1>2. /\ nextHandle'[n] = nextHandle[n] + 1 /\ h = nextHandle[n]
      /\ \A m \in Nodes \ {n} : nextHandle'[m] = nextHandle[m]
  BY DEF RestTyped, NewHandle
<1>3. \A m \in Nodes : nextHandle[m] <= nextHandle'[m]
  BY <1>1, <1>2
<1>4. \A m \in Nodes : life[m] <= life'[m]
  BY <1>1
<1>. QED  BY <1>2, <1>3, <1>4 DEF Rising

OwnName(n, d) ==
  /\ d.from = Self(n)' /\ d.src < nextHandle'[n]
  /\ \/ <<d.to, d.dst>> \notin Endpoint
     \/ \E h \in DOMAIN conns[n] : <<d.to, d.dst>> = Remote(conns[n][h])

RemoteKept(n, h) ==
  \/ h \in DOMAIN conns[n] /\ Remote(conns'[n][h]) = Remote(conns[n][h])
  \/ Remote(conns'[n][h]) \notin Endpoint
  \/ \E d \in net : Remote(conns'[n][h]) \in Told(d)

NewNames(n) ==
  /\ \A d \in net' : d \in net \/ \E t \in Thread : d \in Due(n, t)
  /\ \A m \in Nodes, t \in Thread : <<m, t>> # <<n, "game">> => Due(m, t)' \subseteq Due(m, t)
  /\ \A d \in Due(n, "game")' : d \in Due(n, "game") \/ OwnName(n, d)
  /\ \A m \in Nodes : \A h \in DOMAIN conns'[m] : RemoteKept(m, h)

LEMMA NamedAfter ==
  ASSUME NEW n \in Nodes, NewNames(n), NEW threads, NEW e \in Endpoint, Named(threads, e)',
         \A d \in net' : d \in net \/ \E t \in Thread : <<n, t>> \in threads /\ d \in Due(n, t)
  PROVE  \/ Named(threads, e)
         \/ <<n, "game">> \in threads /\ e[1] = Self(n)' /\ e[2] < nextHandle'[n]
<1>1. CASE \E d \in net' : e \in Told(d)
  BY <1>1 DEF Named
<1>2. ASSUME NEW m \in Nodes, NEW t \in Thread, <<m, t>> \in threads,
             NEW d \in Due(m, t)', e \in Told(d)
      PROVE  \/ Named(threads, e)
             \/ <<n, "game">> \in threads /\ e[1] = Self(n)' /\ e[2] < nextHandle'[n]
  <2>1. CASE d \in Due(m, t)
    BY <1>2, <2>1 DEF Named
  <2>2. CASE d \notin Due(m, t)
    <3>1. m = n /\ t = "game" /\ OwnName(n, d)
      BY <1>2, <2>2 DEF NewNames
    <3>2. CASE e = <<d.from, d.src>>
      BY <1>2, <3>1, <3>2 DEF OwnName
    <3>3. CASE e = <<d.to, d.dst>>
      BY <3>1, <3>3 DEF OwnName, Named
    <3>. QED  BY <1>2, <3>2, <3>3 DEF Told
  <2>. QED  BY <2>1, <2>2
<1>3. ASSUME NEW m \in Nodes, NEW h \in DOMAIN conns'[m], e = Remote(conns'[m][h])
      PROVE  Named(threads, e)
  BY <1>3 DEF NewNames, RemoteKept, Named
<1>4. \/ \E d \in net' : e \in Told(d)
      \/ \E m \in Nodes, t \in Thread : <<m, t>> \in threads /\ \E d \in Due(m, t)' : e \in Told(d)
      \/ \E m \in Nodes : \E h \in DOMAIN conns'[m] : e = Remote(conns'[m][h])
  BY DEF Named, Remote, Told
<1>. QED  BY <1>1, <1>2, <1>3, <1>4

LEMMA NamesIssuedAfter ==
  ASSUME Numbers, Rising, NEW n \in Nodes, NewNames(n), NamesIssued
  PROVE  NamesIssued'
<1>1. SUFFICES ASSUME NEW e \in Endpoint, Named(Threads, e)'
               PROVE  Issued(e)'
  BY DEF NamesIssued, Threads
<1>2. \A d \in net' : d \in net \/ \E t \in Thread : <<n, t>> \in Threads /\ d \in Due(n, t)
  BY DEF NewNames, Threads
<1>3. CASE Named(Threads, e)
  BY <1>3, IssuedRises DEF NamesIssued
<1>4. CASE e[1] = Self(n)' /\ e[2] < nextHandle'[n]
  <2>1. e[1][1] = n /\ e[1][2] = life'[n]
    BY <1>4, SelfFacts
  <2>2. life'[n] <= life'[n]
    BY DEF Numbers
  <2>. QED  BY <1>4, <2>1, <2>2 DEF Issued
<1>. QED  BY <1>1, <1>2, <1>3, <1>4, NamedAfter

(* The step of another thread does not make a connection of m known. *)
LEMMA UnnamedKept ==
  ASSUME RestTyped, RestTyped', NEW n \in Nodes, NewNames(n),
         NEW m \in Nodes, NEW h \in Handle, life'[m] = life[m],
         m # n \/ \A d \in net' : d \in net \/ d \in Due(n, "pump"),
         ~Named(Elsewhere(m), <<Self(m), h>>)
  PROVE  ~Named(Elsewhere(m), <<Self(m), h>>)'
<1>1. PICK e : e = <<Self(m), h>>
  OBVIOUS
<1>2. e = <<Self(m), h>>' /\ e \in Endpoint /\ e[1][1] = m
  BY <1>1 DEF Self, Endpoint, Address, RestTyped
<1>3. PICK threads : threads = Elsewhere(m)
  OBVIOUS
<1>4. \A d \in net' : d \in net \/ \E t \in Thread : <<n, t>> \in threads /\ d \in Due(n, t)
  <2>1. <<n, "pump">> \in threads /\ "pump" \in Thread
    BY <1>3 DEF Elsewhere, Threads, Thread
  <2>2. m # n => \A t \in Thread : <<n, t>> \in threads
    BY <1>3 DEF Elsewhere, Threads
  <2>. QED  BY <2>1, <2>2 DEF NewNames
<1>5. ~ (<<n, "game">> \in threads /\ e[1] = Self(n)')
  <2>1. CASE m = n
    BY <1>3, <2>1 DEF Elsewhere
  <2>2. CASE m # n
    BY <1>2, <2>2, SelfFacts
  <2>. QED  BY <2>1, <2>2
<1>6. ~Named(threads, e)
  BY <1>1, <1>3
<1>7. ~Named(threads, e)'
  BY <1>2, <1>4, <1>5, <1>6, NamedAfter
<1>8. Named(Elsewhere(m), <<Self(m), h>>)' => Named(threads, e)'
  BY <1>2, <1>3 DEF Named, Elsewhere, Threads
<1>. QED  BY <1>7, <1>8

-----------------------------------------------------------------------------
(* What a step does to the status of the connections of a node             *)

LEMMA ReportParts ==
  ASSUME NEW h, NEW s, NEW x, NEW r, Report(h, s) = Report(x, r)
  PROVE  h = x /\ s = r
BY DEF Report

(* A call has its report first. *)
LEMMA CallingFirst ==
  ASSUME NEW n, NEW h
  PROVE  /\ Calling(n, h) => /\ 1 \in DOMAIN todo[n]["game"]
                             /\ todo[n]["game"][1] = Report(h, "Connecting")
         /\ Calling(n, h)' => /\ 1 \in DOMAIN todo'[n]["game"]
                              /\ todo'[n]["game"][1] = Report(h, "Connecting")
<1>1. Calling(n, h) => /\ 1 \in DOMAIN todo[n]["game"]
                       /\ todo[n]["game"][1] = Report(h, "Connecting")
  BY DEF Calling, Call
<1>2. (Calling(n, h) => /\ 1 \in DOMAIN todo[n]["game"]
                        /\ todo[n]["game"][1] = Report(h, "Connecting"))'
  BY <1>1, PTL
<1>. QED  BY <1>1, <1>2

SameCall(n, h) == Remote(conns'[n][h]) = Remote(conns[n][h]) /\ life'[n] = life[n]

LEMMA CallingKept ==
  ASSUME NEW n, NEW h, SameCall(n, h), todo'[n]["game"] = todo[n]["game"]
  PROVE  Calling(n, h)' <=> Calling(n, h)
<1>1. /\ conns'[n][h].remoteAddr = conns[n][h].remoteAddr
      /\ conns'[n][h].remoteHandle = conns[n][h].remoteHandle
      /\ Self(n)' = Self(n)
  BY DEF SameCall, Remote, Self
<1>2. Send(n, "Req", h, conns[n][h])' = Send(n, "Req", h, conns[n][h])
  BY <1>1 DEF Send
<1>3. Call(n, h, conns[n][h])' = Call(n, h, conns[n][h])
  BY <1>1, <1>2 DEF Call, Report
<1>. QED  BY <1>3 DEF Calling

(* A step that changes no status: at other nodes, or that of an inbox. *)
LEMMA StatusUnchanged ==
  ASSUME NEW n \in Nodes, StatusAt(n),
         todo'[n] = todo[n], seen'[n] = seen[n],
         nextHandle'[n] = nextHandle[n], life'[n] = life[n],
         DOMAIN conns'[n] = DOMAIN conns[n],
         \A h \in DOMAIN conns[n] :
           /\ SameCall(n, h)
           /\ conns'[n][h].state = conns[n][h].state
           /\ conns'[n][h].listen = conns[n][h].listen,
         \A h \in Handle : ~Named(Elsewhere(n), <<Self(n), h>>)
                             => ~Named(Elsewhere(n), <<Self(n), h>>)'
  PROVE  StatusAt(n)'
<1>1. \A h \in Handle : Caller(n, h)' <=> Caller(n, h)
  BY DEF Caller
<1>2. \A h \in Handle : Caller(n, h) =>
        /\ Calling(n, h)' <=> Calling(n, h)
        /\ conns'[n][h].state = conns[n][h].state
  BY CallingKept DEF Caller
<1>3. PumpReports(n)'
  <2>1. CASE todo[n]["pump"] = << >>
    BY <2>1 DEF PumpReports
  <2>2. ASSUME NEW x \in Handle, NEW s \in State,
               todo[n]["pump"] = <<Report(x, s)>>, x < nextHandle[n],
               Caller(n, x) => s = conns[n][x].state
        PROVE  PumpReports(n)'
    <3>1. todo'[n]["pump"] = <<Report(x, s)>> /\ x < nextHandle'[n]
      BY <2>2
    <3>2. Caller(n, x)' => s = conns'[n][x].state
      BY <1>1, <1>2, <2>2
    <3>. QED  BY <3>1, <3>2 DEF PumpReports, Report
  <2>. QED  BY <2>1, <2>2 DEF StatusAt, PumpReports
<1>4. GameReports(n)'
  <2>1. ASSUME NEW i \in DOMAIN todo[n]["game"], NEW h \in Handle, NEW s \in State,
               todo[n]["game"][i] = Report(h, s)
        PROVE  h \in DOMAIN conns'[n] /\ (Caller(n, h)' => Calling(n, h)')
    BY <1>1, <1>2, <2>1 DEF StatusAt, GameReports
  <2>. QED  BY <2>1 DEF GameReports, Report
<1>5. ASSUME NEW h \in Handle, Caller(n, h)'
      PROVE  IF Calling(n, h)' THEN Unknown(n, h)' ELSE Known(n, h)'
  <2>1. Caller(n, h) /\ conns'[n][h].state = conns[n][h].state
    BY <1>1, <1>2, <1>5
  <2>2. CASE Calling(n, h)
    <3>1. Unknown(n, h)
      BY <2>1, <2>2 DEF StatusAt
    <3>2. Unknown(n, h)'
      BY <2>1, <3>1 DEF Unknown, Report
    <3>. QED  BY <1>2, <2>1, <2>2, <3>2
  <2>3. CASE ~Calling(n, h)
    <3>1. Known(n, h)
      BY <2>1, <2>3 DEF StatusAt
    <3>2. Known(n, h)'
      BY <2>1, <3>1 DEF Known, Report
    <3>. QED  BY <1>2, <2>1, <2>3, <3>2
  <2>. QED  BY <2>2, <2>3
<1>. QED  BY <1>3, <1>4, <1>5 DEF StatusAt

(* A step of the game's thread that leaves it in no call: what it has      *)
(* still to report is of connections others have asked for.                *)
LEMMA GameStatus ==
  ASSUME RestTyped, RestTyped', NEW n \in Nodes, StatusAt(n),
         nextHandle[n] <= nextHandle'[n], todo'[n]["pump"] = todo[n]["pump"],
         \A h \in Handle : Caller(n, h)' =>
           /\ Caller(n, h)
           /\ conns'[n][h].state = conns[n][h].state
           /\ \/ seen'[n][h] = conns[n][h].state
              \/ seen'[n][h] = seen[n][h] /\ ~Calling(n, h),
         \A i \in DOMAIN todo'[n]["game"] : \A h \in Handle, s \in State :
           todo'[n]["game"][i] = Report(h, s) => h \in DOMAIN conns'[n] /\ ~Caller(n, h)'
  PROVE  StatusAt(n)'
<1>1. PumpReports(n)'
  <2>1. CASE todo[n]["pump"] = << >>
    BY <2>1 DEF PumpReports
  <2>2. ASSUME NEW x \in Handle, NEW s \in State,
               todo[n]["pump"] = <<Report(x, s)>>, x < nextHandle[n],
               Caller(n, x) => s = conns[n][x].state
        PROVE  PumpReports(n)'
    <3>1. todo'[n]["pump"] = <<Report(x, s)>>
      BY <2>2
    <3>2. x < nextHandle'[n]
      <4>1. x \in Nat /\ nextHandle[n] \in Nat /\ nextHandle'[n] \in Nat
        BY HandleNat DEF RestTyped
      <4>. QED  BY <2>2, <4>1
    <3>3. Caller(n, x)' => s = conns'[n][x].state
      BY <2>2
    <3>. QED  BY <3>1, <3>2, <3>3 DEF PumpReports, Report
  <2>. QED  BY <2>1, <2>2 DEF StatusAt, PumpReports
<1>2. GameReports(n)'
  BY DEF GameReports, Report
<1>3. ASSUME NEW h \in Handle, Caller(n, h)'
      PROVE  ~Calling(n, h)' /\ Known(n, h)'
  <2>1. ~Calling(n, h)'
    <3>1. "Connecting" \in State
      BY DEF State
    <3>. QED  BY <1>3, <3>1, CallingFirst
  <2>2. /\ Caller(n, h) /\ conns'[n][h].state = conns[n][h].state
        /\ \/ seen'[n][h] = conns[n][h].state
           \/ seen'[n][h] = seen[n][h] /\ ~Calling(n, h)
    BY <1>3
  <2>3. CASE seen'[n][h] = conns[n][h].state
    BY <2>1, <2>2, <2>3 DEF Known
  <2>4. CASE seen'[n][h] = seen[n][h] /\ ~Calling(n, h)
    <3>1. Known(n, h)
      BY <2>2, <2>4 DEF StatusAt
    <3>. QED  BY <2>1, <2>2, <2>4, <3>1 DEF Known, Report
  <2>. QED  BY <2>2, <2>3, <2>4
<1>. QED  BY <1>1, <1>2, <1>3 DEF StatusAt

(* A handler of the pump that leaves the status of a connection to report: *)
(* one it makes, or one a game has called for and not only just now.       *)
LEMMA PumpStatus ==
  ASSUME NEW n \in Nodes, StatusAt(n), Idle(n, "pump"),
         NEW x \in Handle, NEW s \in State,
         todo'[n]["pump"] = <<Report(x, s)>>, todo'[n]["game"] = todo[n]["game"],
         x < nextHandle'[n], seen'[n] = seen[n], life'[n] = life[n],
         DOMAIN conns[n] \subseteq DOMAIN conns'[n],
         \A h \in DOMAIN conns'[n] \ {x} : h \in DOMAIN conns[n] /\ conns'[n][h] = conns[n][h],
         Caller(n, x)' => Caller(n, x) /\ ~Calling(n, x) /\ s = conns'[n][x].state,
         \A h \in Handle : ~Named(Elsewhere(n), <<Self(n), h>>)
                             => ~Named(Elsewhere(n), <<Self(n), h>>)'
  PROVE  StatusAt(n)'
<1>1. PumpReports(n)'
  BY DEF PumpReports, Report
<1>2. \A h \in Handle : Caller(n, h)' /\ h # x => Caller(n, h) /\ conns'[n][h] = conns[n][h]
  BY DEF Caller
<1>3. \A h \in Handle : Caller(n, h)' /\ h # x => (Calling(n, h)' <=> Calling(n, h))
  BY <1>2, CallingKept DEF SameCall
<1>4. ASSUME NEW i \in DOMAIN todo[n]["game"], NEW h \in Handle, NEW r \in State,
             todo[n]["game"][i] = Report(h, r)
      PROVE  h \in DOMAIN conns'[n] /\ (Caller(n, h)' => h # x /\ Calling(n, h)')
  <2>1. h \in DOMAIN conns[n] /\ (Caller(n, h) => Calling(n, h))
    BY <1>4 DEF StatusAt, GameReports
  <2>. QED  BY <1>2, <1>3, <2>1
<1>5. GameReports(n)'
  BY <1>4 DEF GameReports, Report
<1>6. ASSUME NEW h \in Handle, Caller(n, h)', h # x
      PROVE  IF Calling(n, h)' THEN Unknown(n, h)' ELSE Known(n, h)'
  <2>1. Caller(n, h) /\ conns'[n][h] = conns[n][h]
    BY <1>2, <1>6
  <2>2. CASE Calling(n, h)
    <3>1. Unknown(n, h)
      BY <2>1, <2>2 DEF StatusAt
    <3>2. \A r \in State : todo'[n]["pump"] # <<Report(h, r)>>
      BY <1>6 DEF Report
    <3>3. Unknown(n, h)'
      BY <2>1, <3>1, <3>2 DEF Unknown, Report
    <3>. QED  BY <1>3, <1>6, <2>2, <3>3
  <2>3. CASE ~Calling(n, h)
    <3>1. Known(n, h)
      BY <2>1, <2>3 DEF StatusAt
    <3>2. seen[n][h] = conns[n][h].state
      BY <3>1 DEF Known, Idle
    <3>. QED  BY <1>3, <1>6, <2>1, <2>3, <3>2 DEF Known
  <2>. QED  BY <2>2, <2>3
<1>7. ASSUME Caller(n, x)'
      PROVE  ~Calling(n, x)' /\ Known(n, x)'
  <2>1. ~Calling(n, x)'
    <3>1. "Connecting" \in State
      BY DEF State
    <3>. QED  BY <1>4, <1>7, <3>1, CallingFirst
  <2>2. Known(n, x)'
    BY <1>7 DEF Known, Report
  <2>. QED  BY <2>1, <2>2
<1>. QED  BY <1>1, <1>5, <1>6, <1>7 DEF StatusAt

-----------------------------------------------------------------------------
(* Each action keeps it *)

SKnown == IInv /\ SInv

(* A step is of one node: what is left to show is the status there. *)
OnlyAt(n) ==
  \A m \in Nodes \ {n} :
    /\ conns'[m] = conns[m] /\ todo'[m] = todo[m] /\ seen'[m] = seen[m]
    /\ nextHandle'[m] = nextHandle[m] /\ life'[m] = life[m]

LEMMA StatusKept ==
  ASSUME SKnown, IInv', NEW n \in Nodes, NewNames(n), Rising, OnlyAt(n), StatusAt(n)'
  PROVE  SInv'
<1>1. RestTyped /\ RestTyped' /\ Numbers
  BY Types, NumbersOK DEF IInv, SKnown
<1>2. NamesIssued'
  BY <1>1, NamesIssuedAfter DEF SKnown, SInv
<1>3. ASSUME NEW m \in Nodes, m # n
      PROVE  StatusAt(m)'
  <2>1. \A h \in Handle : ~Named(Elsewhere(m), <<Self(m), h>>)
                            => ~Named(Elsewhere(m), <<Self(m), h>>)'
    BY <1>1, <1>3, UnnamedKept DEF OnlyAt
  <2>2. \A h \in DOMAIN conns[m] :
          /\ SameCall(m, h)
          /\ conns'[m][h].state = conns[m][h].state
          /\ conns'[m][h].listen = conns[m][h].listen
    BY <1>3 DEF OnlyAt, SameCall, Remote
  <2>3. /\ conns'[m] = conns[m] /\ todo'[m] = todo[m] /\ seen'[m] = seen[m]
        /\ nextHandle'[m] = nextHandle[m] /\ life'[m] = life[m]
        /\ StatusAt(m)
    BY <1>3 DEF OnlyAt, SKnown, SInv
  <2>. QED  BY <2>1, <2>2, <2>3, StatusUnchanged
<1>. QED  BY <1>2, <1>3 DEF SInv

LEMMA LaterAt ==
  ASSUME RestTyped, NEW n \in Nodes, NEW t \in Thread, NEW effects, Later(n, t, effects)
  PROVE  /\ todo'[n][t] = effects
         /\ \A m \in Nodes, u \in Thread : ~(m = n /\ u = t) => todo'[m][u] = todo[m][u]
         /\ \A m \in Nodes \ {n} : todo'[m] = todo[m]
BY DEF RestTyped, Later

(* The datagrams due of a thread, as what it has to do has them. *)
LEMMA DueAt ==
  ASSUME NEW m, NEW u
  PROVE  /\ todo'[m][u] = todo[m][u] => Due(m, u)' = Due(m, u)
         /\ todo'[m][u] = << >> => Due(m, u)' = {}
<1>1. todo'[m][u] = todo[m][u] => Due(m, u)' = Due(m, u)
  BY DEF Due
<1>2. ASSUME todo'[m][u] = << >>
      PROVE  Due(m, u)' = {}
  <2>1. \A i \in DOMAIN todo'[m][u] : FALSE
    BY <1>2
  <2>. QED  BY <2>1 DEF Due
<1>. QED  BY <1>1, <1>2

LEMMA CreateListenSocketStatus ==
  ASSUME SKnown, IInv', NEW n \in Nodes, CreateListenSocketP2P(n)
  PROVE  SInv'
<1>1. RestTyped /\ RestTyped' /\ StatusAt(n)
  BY Types DEF IInv, SKnown, SInv
<1>2. UNCHANGED <<conns, todo, net, life, seen>> /\ Idle(n, "game")
  BY DEF CreateListenSocketP2P
<1>3. PICK h \in Handle : NewHandle(n, h)
  BY DEF CreateListenSocketP2P
<1>4. Rising /\ OnlyAt(n)
  BY <1>1, <1>2, <1>3, OneGivenOut DEF OnlyAt
<1>5. NewNames(n)
  BY <1>2, DueAt DEF NewNames, RemoteKept, Remote
<1>6. nextHandle[n] <= nextHandle'[n]
  BY <1>2, <1>4 DEF Rising
<1>7. \A x \in Handle : Caller(n, x)' =>
        /\ Caller(n, x)
        /\ conns'[n][x].state = conns[n][x].state
        /\ \/ seen'[n][x] = conns[n][x].state
           \/ seen'[n][x] = seen[n][x] /\ ~Calling(n, x)
  <2>1. \A x \in Handle : ~Calling(n, x)
    BY <1>2, CallingFirst DEF Idle
  <2>. QED  BY <1>2, <2>1 DEF Caller
<1>8. \A i \in DOMAIN todo'[n]["game"] : FALSE
  BY <1>2 DEF Idle
<1>9. StatusAt(n)'
  BY <1>1, <1>2, <1>6, <1>7, <1>8, GameStatus
<1>. QED  BY <1>4, <1>5, <1>9, StatusKept

LEMMA NoCall ==
  ASSUME NEW n \in Nodes, Idle(n, "game")
  PROVE  \A h \in Handle : ~Calling(n, h)
BY CallingFirst DEF Idle

(* A step that changes no status, at any node. *)
LEMMA QuietStatus ==
  ASSUME SKnown, IInv', NEW n \in Nodes,
         UNCHANGED <<todo, seen, nextHandle, life>>, net' \subseteq net,
         \A m \in Nodes :
           /\ DOMAIN conns'[m] = DOMAIN conns[m]
           /\ \A h \in DOMAIN conns[m] :
                /\ Remote(conns'[m][h]) = Remote(conns[m][h])
                /\ conns'[m][h].state = conns[m][h].state
                /\ conns'[m][h].listen = conns[m][h].listen
  PROVE  SInv'
<1>1. RestTyped /\ RestTyped' /\ Numbers /\ SInv
  BY Types, NumbersOK DEF IInv, SKnown
<1>2. Rising
  BY <1>1, NothingGivenOut
<1>3. NewNames(n)
  BY DueAt DEF NewNames, RemoteKept
<1>4. NamesIssued'
  BY <1>1, <1>2, <1>3, NamesIssuedAfter DEF SInv
<1>5. ASSUME NEW m \in Nodes
      PROVE  StatusAt(m)'
  <2>1. \A h \in Handle : ~Named(Elsewhere(m), <<Self(m), h>>)
                            => ~Named(Elsewhere(m), <<Self(m), h>>)'
    BY <1>1, <1>3, UnnamedKept
  <2>2. \A h \in DOMAIN conns[m] :
          /\ SameCall(m, h)
          /\ conns'[m][h].state = conns[m][h].state
          /\ conns'[m][h].listen = conns[m][h].listen
    BY DEF SameCall
  <2>. QED  BY <1>1, <2>1, <2>2, StatusUnchanged DEF SInv
<1>. QED  BY <1>4, <1>5 DEF SInv

LEMMA CloseListenSocketStatus ==
  ASSUME SKnown, IInv', NEW n \in Nodes, NEW h, CloseListenSocket(n, h)
  PROVE  SInv'
BY QuietStatus DEF CloseListenSocket

LEMMA StutterStatus ==
  ASSUME SKnown, IInv', UNCHANGED vars, NEW n \in Nodes
  PROVE  SInv'
BY QuietStatus DEF vars

(* A message comes to an inbox, or goes from it. *)
LEMMA InboxStatus ==
  ASSUME SKnown, IInv', NEW n \in Nodes, NEW h \in DOMAIN conns[n], NEW inbox \in Seq(Message),
         InboxSet(n, h, inbox), UNCHANGED <<todo, seen, nextHandle, life>>, net' \subseteq net
  PROVE  SInv'
<1>1. ConnTyped
  BY Types DEF IInv, SKnown
<1>2. PICK c \in Conn :
        /\ Changed(n, h, c)
        /\ c.state = conns[n][h].state
        /\ c.listen = conns[n][h].listen /\ c.remoteAddr = conns[n][h].remoteAddr
        /\ c.remoteHandle = conns[n][h].remoteHandle
  BY <1>1, SetInbox
<1>3. /\ DOMAIN conns'[n] = DOMAIN conns[n]
      /\ conns'[n][h] = c
      /\ \A x \in DOMAIN conns[n] \ {h} : conns'[n][x] = conns[n][x]
      /\ \A m \in Nodes \ {n} : conns'[m] = conns[m]
  BY <1>1, <1>2, ChangeFacts
<1>4. \A m \in Nodes :
        /\ DOMAIN conns'[m] = DOMAIN conns[m]
        /\ \A x \in DOMAIN conns[m] :
             /\ Remote(conns'[m][x]) = Remote(conns[m][x])
             /\ conns'[m][x].state = conns[m][x].state
             /\ conns'[m][x].listen = conns[m][x].listen
  BY <1>2, <1>3 DEF Remote
<1>. QED  BY <1>4, QuietStatus

LEMMA ReceiveOnConnectionStatus ==
  ASSUME SKnown, IInv', NEW n \in Nodes, NEW h \in Handle, NEW k \in 1..MaxInbox,
         ReceiveOnConnection(n, h, k)
  PROVE  SInv'
<1>1. ConnTyped
  BY Types DEF IInv, SKnown
<1>2. PICK old, inbox :
        old = conns[n][h].inbox /\ inbox = SubSeq(old, k + 1, Len(old))
  OBVIOUS
<1>3. /\ h \in DOMAIN conns[n] /\ InboxSet(n, h, inbox)
      /\ old \in Seq(Message) /\ k \in 1..Len(old)
  <2>1. conns[n][h].inbox \in Seq(Message)
    BY <1>1, ConnParts DEF ReceiveOnConnection, ConnTyped
  <2>. QED  BY <1>2, <2>1 DEF ReceiveOnConnection, InboxSet
<1>4. inbox \in Seq(Message)
  <2>1. Len(old) \in Nat /\ k \in Nat /\ k >= 1 /\ \A i \in 1..Len(old) : old[i] \in Message
    BY <1>3
  <2>2. k + 1 \in Int /\ Len(old) \in Int /\ \A i \in k + 1..Len(old) : i \in 1..Len(old)
    BY <2>1
  <2>. QED  BY <1>2, <2>1, <2>2, SubSeqProperties
<1>5. UNCHANGED <<todo, seen, nextHandle, life>> /\ net' \subseteq net
  BY DEF ReceiveOnConnection
<1>. QED  BY <1>3, <1>4, <1>5, InboxStatus

LEMMA HandleMsgStatus ==
  ASSUME SKnown, IInv', NEW n \in Nodes, NEW d \in net, HandleMsg(n, d)
  PROVE  SInv'
<1>1. ConnTyped
  BY Types DEF IInv, SKnown
<1>2. d \in Datagram /\ net' \subseteq net
  BY Received DEF HandleMsg, SKnown
<1>3. PICK h \in Handle :
        h \in DOMAIN conns[n] /\ InboxSet(n, h, Append(conns[n][h].inbox, <<d.from, d.src>>))
  BY DEF HandleMsg, Answer, InboxSet
<1>4. PICK message, old, inbox :
        /\ message = <<d.from, d.src>> /\ old = conns[n][h].inbox
        /\ inbox = Append(old, message)
  OBVIOUS
<1>5. inbox \in Seq(Message)
  <2>1. message \in Message
    BY <1>2, <1>4, DatagramParts DEF Message
  <2>2. old \in Seq(Message)
    BY <1>1, <1>3, <1>4, ConnParts DEF ConnTyped
  <2>. QED  BY <1>4, <2>1, <2>2
<1>6. UNCHANGED <<todo, seen, nextHandle, life>> /\ InboxSet(n, h, inbox)
  BY <1>3, <1>4 DEF HandleMsg
<1>. QED  BY <1>2, <1>3, <1>5, <1>6, InboxStatus

(* What a call of the game names, when it sends a datagram of one of the   *)
(* connections there are.                                                  *)
LEMMA OwnNames ==
  ASSUME RestTyped, NEW n \in Nodes, NEW effects \in Seq(Effect), Later(n, "game", effects),
         NEW d \in Datagram, OwnName(n, d), net' = net,
         \A i \in DOMAIN effects : \A e \in Datagram : effects[i] = [send |-> e] => e \in {d},
         \A m \in Nodes : \A h \in DOMAIN conns'[m] : RemoteKept(m, h)
  PROVE  /\ NewNames(n)
         /\ todo'[n]["game"] = effects /\ todo'[n]["pump"] = todo[n]["pump"]
         /\ \A m \in Nodes \ {n} : todo'[m] = todo[m]
<1>1. "game" \in Thread /\ "pump" \in Thread
  BY DEF Thread
<1>2. /\ todo'[n]["game"] = effects
      /\ \A m \in Nodes, u \in Thread : ~(m = n /\ u = "game") => todo'[m][u] = todo[m][u]
      /\ \A m \in Nodes \ {n} : todo'[m] = todo[m]
  BY <1>1, LaterAt
<1>3. \A m \in Nodes, u \in Thread : <<m, u>> # <<n, "game">> => Due(m, u)' = Due(m, u)
  BY <1>2, DueAt
<1>4. \A e \in Due(n, "game")' : e = d
  BY <1>2 DEF Due
<1>. QED  BY <1>1, <1>2, <1>3, <1>4 DEF NewNames

LEMMA OwnSend ==
  ASSUME SKnown, NEW n \in Nodes, NEW h \in DOMAIN conns[n],
         NEW kind \in {"Req", "Acc", "Msg", "Fin"}, UNCHANGED <<nextHandle, life>>
  PROVE  \E d \in Datagram : Send(n, kind, h, conns[n][h]) = [send |-> d] /\ OwnName(n, d)
<1>1. ConnTyped /\ RestTyped
  BY Types DEF IInv, SKnown
<1>2. PICK c \in Conn : c = conns[n][h]
  BY <1>1 DEF ConnTyped
<1>3. h \in Handle
  BY <1>1 DEF ConnTyped
<1>4. PICK d \in Datagram :
        /\ Send(n, kind, h, c) = [send |-> d]
        /\ d.kind = kind /\ d.from = Self(n) /\ d.to = c.remoteAddr
        /\ d.src = h /\ d.dst = c.remoteHandle
  BY <1>1, <1>3, SendType
<1>5. h < nextHandle'[n] /\ Self(n)' = Self(n)
  BY DEF SKnown, IInv, HandlesIssued, Self
<1>6. OwnName(n, d)
  BY <1>2, <1>4, <1>5 DEF OwnName, Remote
<1>. QED  BY <1>2, <1>4, <1>6

LEMMA AcceptStatus ==
  ASSUME SKnown, IInv', NEW n \in Nodes, NEW h \in Handle, AcceptConnection(n, h)
  PROVE  SInv'
<1>1. ConnTyped /\ RestTyped /\ RestTyped' /\ StatusAt(n)
  BY Types DEF IInv, SKnown, SInv
<1>2. UNCHANGED <<nextHandle, net, life, seen>> /\ Idle(n, "game")
  BY DEF AcceptConnection
<1>3. /\ h \in DOMAIN conns[n] /\ conns[n][h].listen # NoHandle
      /\ StateSet(n, h, "Connected")
  BY DEF AcceptConnection, StateSet
<1>4. "Connected" \in State
  BY DEF State
<1>5. PICK c \in Conn :
        /\ Changed(n, h, c)
        /\ c.listen = conns[n][h].listen /\ c.remoteAddr = conns[n][h].remoteAddr
        /\ c.remoteHandle = conns[n][h].remoteHandle
  BY <1>1, <1>3, <1>4, SetState
<1>6. /\ DOMAIN conns'[n] = DOMAIN conns[n]
      /\ conns'[n][h] = c
      /\ \A x \in DOMAIN conns[n] \ {h} : conns'[n][x] = conns[n][x]
      /\ \A m \in Nodes \ {n} : conns'[m] = conns[m]
  BY <1>1, <1>3, <1>5, ChangeFacts
<1>7. PICK d \in Datagram : Send(n, "Acc", h, conns[n][h]) = [send |-> d] /\ OwnName(n, d)
  BY <1>2, <1>3, OwnSend
<1>8. PICK effects : effects = <<[send |-> d], Report(h, "Connected")>>
  OBVIOUS
<1>9. /\ effects \in Seq(Effect) /\ Later(n, "game", effects)
      /\ \A i \in DOMAIN effects : \A e \in Datagram : effects[i] = [send |-> e] => e \in {d}
  <2>1. Later(n, "game", effects)
    BY <1>7, <1>8 DEF AcceptConnection
  <2>2. /\ effects \in Seq(Effect)
        /\ \A i \in DOMAIN effects : \A e \in Datagram : effects[i] = [send |-> e] => e \in {d}
    BY <1>4, <1>8, OneDue
  <2>. QED  BY <2>1, <2>2
<1>10. \A m \in Nodes : \A x \in DOMAIN conns'[m] : RemoteKept(m, x)
  BY <1>5, <1>6 DEF RemoteKept, Remote
<1>11. /\ NewNames(n)
       /\ todo'[n]["game"] = effects /\ todo'[n]["pump"] = todo[n]["pump"]
       /\ \A m \in Nodes \ {n} : todo'[m] = todo[m]
  BY <1>1, <1>2, <1>7, <1>9, <1>10, OwnNames
<1>12. Rising /\ OnlyAt(n)
  BY <1>1, <1>2, <1>6, <1>11, NothingGivenOut DEF OnlyAt
<1>13. \A x \in Handle : Caller(n, x)' =>
         /\ Caller(n, x)
         /\ conns'[n][x].state = conns[n][x].state
         /\ \/ seen'[n][x] = conns[n][x].state
            \/ seen'[n][x] = seen[n][x] /\ ~Calling(n, x)
  BY <1>2, <1>3, <1>5, <1>6, NoCall DEF Caller
<1>14. \A i \in DOMAIN effects : \A x \in Handle, s \in State :
         effects[i] = Report(x, s) => x \in DOMAIN conns'[n] /\ ~Caller(n, x)'
  <2>1. \A i \in DOMAIN effects : effects[i] = [send |-> d] \/ effects[i] = Report(h, "Connected")
    BY <1>8
  <2>. QED  BY <1>3, <1>5, <1>6, <2>1, EffectKinds, ReportParts DEF Caller
<1>15. nextHandle[n] <= nextHandle'[n]
  BY <1>2, <1>12 DEF Rising
<1>16. StatusAt(n)'
  BY <1>1, <1>11, <1>13, <1>14, <1>15, GameStatus
<1>. QED  BY <1>11, <1>12, <1>16, StatusKept

LEMMA CloseConnectionStatus ==
  ASSUME SKnown, IInv', NEW n \in Nodes, NEW h \in Handle, CloseConnection(n, h)
  PROVE  SInv'
<1>1. ConnTyped /\ RestTyped /\ RestTyped' /\ StatusAt(n)
  BY Types DEF IInv, SKnown, SInv
<1>2. UNCHANGED <<nextHandle, net, life>> /\ Idle(n, "game")
  BY DEF CloseConnection
<1>3. /\ h \in DOMAIN conns[n] /\ Forget(n, h)
      /\ seen' = [seen EXCEPT ![n][h] = "None"]
  BY DEF CloseConnection
<1>4. /\ DOMAIN conns'[n] = DOMAIN conns[n] \ {h}
      /\ \A x \in DOMAIN conns[n] \ {h} : conns'[n][x] = conns[n][x]
      /\ \A m \in Nodes \ {n} : conns'[m] = conns[m]
  BY <1>1, <1>3, ForgetFacts
<1>5. /\ \A m \in Nodes \ {n} : seen'[m] = seen[m]
      /\ \A x \in Handle \ {h} : seen'[n][x] = seen[n][x]
  BY <1>1, <1>3 DEF RestTyped
<1>6. PICK d \in Datagram : Send(n, "Fin", h, conns[n][h]) = [send |-> d] /\ OwnName(n, d)
  BY <1>2, <1>3, OwnSend
<1>7. PICK effects : effects = <<[send |-> d]>>
  OBVIOUS
<1>8. /\ effects \in Seq(Effect) /\ Later(n, "game", effects)
      /\ \A i \in DOMAIN effects : \A e \in Datagram : effects[i] = [send |-> e] => e \in {d}
  <2>1. "None" \in State
    BY DEF State
  <2>. QED  BY <1>6, <1>7, <2>1, OneDue DEF CloseConnection
<1>9. \A m \in Nodes : \A x \in DOMAIN conns'[m] : RemoteKept(m, x)
  BY <1>4 DEF RemoteKept, Remote
<1>10. /\ NewNames(n)
       /\ todo'[n]["game"] = effects /\ todo'[n]["pump"] = todo[n]["pump"]
       /\ \A m \in Nodes \ {n} : todo'[m] = todo[m]
  BY <1>1, <1>2, <1>6, <1>8, <1>9, OwnNames
<1>11. Rising /\ OnlyAt(n)
  BY <1>1, <1>2, <1>4, <1>5, <1>10, NothingGivenOut DEF OnlyAt
<1>12. \A x \in Handle : Caller(n, x)' =>
         /\ Caller(n, x)
         /\ conns'[n][x].state = conns[n][x].state
         /\ \/ seen'[n][x] = conns[n][x].state
            \/ seen'[n][x] = seen[n][x] /\ ~Calling(n, x)
  BY <1>2, <1>4, <1>5, NoCall DEF Caller
<1>13. \A i \in DOMAIN effects : \A x \in Handle, s \in State : effects[i] # Report(x, s)
  BY <1>7, EffectKinds
<1>14. nextHandle[n] <= nextHandle'[n]
  BY <1>2, <1>11 DEF Rising
<1>15. StatusAt(n)'
  BY <1>1, <1>10, <1>12, <1>13, <1>14, GameStatus
<1>. QED  BY <1>10, <1>11, <1>15, StatusKept

LEMMA SendToConnectionStatus ==
  ASSUME SKnown, IInv', NEW n \in Nodes, NEW h \in Handle, SendToConnection(n, h)
  PROVE  SInv'
<1>1. RestTyped /\ RestTyped' /\ StatusAt(n)
  BY Types DEF IInv, SKnown, SInv
<1>2. UNCHANGED <<conns, nextHandle, net, life, seen>> /\ Idle(n, "game") /\ h \in DOMAIN conns[n]
  BY DEF SendToConnection
<1>3. PICK d \in Datagram : Send(n, "Msg", h, conns[n][h]) = [send |-> d] /\ OwnName(n, d)
  BY <1>2, OwnSend
<1>4. PICK effects : effects = <<[send |-> d]>>
  OBVIOUS
<1>5. /\ effects \in Seq(Effect) /\ Later(n, "game", effects)
      /\ \A i \in DOMAIN effects : \A e \in Datagram : effects[i] = [send |-> e] => e \in {d}
  <2>1. "None" \in State
    BY DEF State
  <2>. QED  BY <1>3, <1>4, <2>1, OneDue DEF SendToConnection
<1>6. \A m \in Nodes : \A x \in DOMAIN conns'[m] : RemoteKept(m, x)
  BY <1>2 DEF RemoteKept, Remote
<1>7. /\ NewNames(n)
      /\ todo'[n]["game"] = effects /\ todo'[n]["pump"] = todo[n]["pump"]
      /\ \A m \in Nodes \ {n} : todo'[m] = todo[m]
  BY <1>1, <1>2, <1>3, <1>5, <1>6, OwnNames
<1>8. Rising /\ OnlyAt(n)
  BY <1>1, <1>2, <1>7, NothingGivenOut DEF OnlyAt
<1>9. \A x \in Handle : Caller(n, x)' =>
        /\ Caller(n, x)
        /\ conns'[n][x].state = conns[n][x].state
        /\ \/ seen'[n][x] = conns[n][x].state
           \/ seen'[n][x] = seen[n][x] /\ ~Calling(n, x)
  BY <1>2, NoCall DEF Caller
<1>10. \A i \in DOMAIN effects : \A x \in Handle, s \in State : effects[i] # Report(x, s)
  BY <1>4, EffectKinds
<1>11. nextHandle[n] <= nextHandle'[n]
  BY <1>2, <1>8 DEF Rising
<1>12. StatusAt(n)'
  BY <1>1, <1>7, <1>9, <1>10, <1>11, GameStatus
<1>. QED  BY <1>7, <1>8, <1>12, StatusKept

LEMMA ConnectStatus ==
  ASSUME SKnown, IInv', NEW n \in Nodes, NEW remote \in Nodes, ConnectP2P(n, remote)
  PROVE  SInv'
<1>1. ConnTyped /\ RestTyped /\ RestTyped' /\ StatusAt(n)
  BY Types DEF IInv, SKnown, SInv
<1>2. UNCHANGED <<net, life, seen>> /\ Idle(n, "game")
  BY DEF ConnectP2P
<1>0. PICK h \in Handle, addr \in KnownAddress(remote) :
        /\ NewHandle(n, h)
        /\ LET c == [remote |-> remote, remoteAddr |-> addr,
                     remoteHandle |-> NoHandle, state |-> "Connecting",
                     listen |-> NoHandle, inbox |-> << >>]
           IN  NewConn(n, h, c) /\ Later(n, "game", Call(n, h, c))
  BY DEF ConnectP2P
<1>3. PICK c :
        /\ NewHandle(n, h) /\ NewConn(n, h, c) /\ Later(n, "game", Call(n, h, c))
        /\ c = [remote |-> remote, remoteAddr |-> addr,
                remoteHandle |-> NoHandle, state |-> "Connecting",
                listen |-> NoHandle, inbox |-> << >>]
  BY <1>0
<1>4. /\ c \in Conn /\ c.listen = NoHandle /\ c.state = "Connecting"
      /\ c.remoteAddr = addr /\ c.remoteHandle = NoHandle
  <2>1. addr \in Address \cup {NoAddress}
    <3>1. life[remote] \in 1..2
      BY <1>1 DEF RestTyped
    <3>2. 1..life[remote] \subseteq 1..2
      BY <3>1
    <3>. QED  BY <3>2 DEF KnownAddress, Address
  <2>2. << >> \in Seq(Message)
    OBVIOUS
  <2>. QED  BY <1>3, <2>1, <2>2 DEF Conn, State
<1>5. /\ DOMAIN conns'[n] = DOMAIN conns[n] \cup {h}
      /\ conns'[n][h] = c
      /\ \A x \in DOMAIN conns[n] \ {h} : conns'[n][x] = conns[n][x]
      /\ \A m \in Nodes \ {n} : conns'[m] = conns[m]
  BY <1>1, <1>3, <1>4, NewConnFacts
<1>6. /\ Rising /\ h = nextHandle[n] /\ nextHandle'[n] = nextHandle[n] + 1
      /\ \A m \in Nodes \ {n} : nextHandle'[m] = nextHandle[m]
  BY <1>1, <1>2, <1>3, OneGivenOut
<1>7. /\ h \in Nat /\ nextHandle[n] \in Nat
      /\ h < nextHandle'[n] /\ \A x \in Nat : x < h => x < nextHandle'[n]
  <2>1. h \in Nat
    BY HandleNat
  <2>. QED  BY <1>6, <2>1
<1>8. h \notin DOMAIN conns[n]
  BY <1>6, <1>7 DEF SKnown, IInv, HandlesIssued
<1>9. Self(n)' = Self(n)
  BY <1>2 DEF Self
<1>10. Remote(c) \notin Endpoint
  BY <1>4, HandleNat DEF Remote, Endpoint
<1>11. PICK d \in Datagram : Send(n, "Req", h, c) = [send |-> d] /\ OwnName(n, d)
  <2>1. PICK d \in Datagram :
          /\ Send(n, "Req", h, c) = [send |-> d]
          /\ d.kind = "Req" /\ d.from = Self(n) /\ d.to = c.remoteAddr
          /\ d.src = h /\ d.dst = c.remoteHandle
    BY <1>1, <1>4, SendType
  <2>. QED  BY <1>7, <1>9, <1>10, <2>1 DEF OwnName, Remote
<1>12. PICK effects : effects = Call(n, h, c)
  OBVIOUS
<1>13. /\ effects \in Seq(Effect)
       /\ \A i \in DOMAIN effects : \A e \in Datagram : effects[i] = [send |-> e] => e \in {d}
       /\ \A i \in DOMAIN effects :
            effects[i] = Report(h, "Connecting") \/ effects[i] = [send |-> d]
  <2>1. "Connecting" \in State
    BY DEF State
  <2>2. \/ effects = <<Report(h, "Connecting")>>
        \/ effects = <<Report(h, "Connecting"), [send |-> d]>>
    BY <1>11, <1>12 DEF Call
  <2>3. /\ effects \in Seq(Effect)
        /\ \A i \in DOMAIN effects : \A e \in Datagram : effects[i] = [send |-> e] => e \in {d}
    BY <2>1, <2>2, NoneDue, OneDue
  <2>4. PICK r, q : r = Report(h, "Connecting") /\ q = [send |-> d]
    OBVIOUS
  <2>5. \A i \in DOMAIN effects : effects[i] = r \/ effects[i] = q
    <3>1. CASE effects = <<r>>
      BY <3>1
    <3>2. CASE effects = <<r, q>>
      BY <3>2
    <3>. QED  BY <2>2, <2>4, <3>1, <3>2
  <2>. QED  BY <2>3, <2>4, <2>5
<1>14. \A m \in Nodes : \A x \in DOMAIN conns'[m] : RemoteKept(m, x)
  BY <1>5, <1>10 DEF RemoteKept, Remote
<1>15. Later(n, "game", effects) /\ net' = net
  BY <1>2, <1>3, <1>12
<1>16. /\ NewNames(n)
       /\ todo'[n]["game"] = effects /\ todo'[n]["pump"] = todo[n]["pump"]
       /\ \A m \in Nodes \ {n} : todo'[m] = todo[m]
  BY <1>1, <1>11, <1>13, <1>14, <1>15, OwnNames
<1>17. OnlyAt(n)
  BY <1>2, <1>5, <1>6, <1>16 DEF OnlyAt
<1>18. Calling(n, h)'
  <2>1. Call(n, h, c) = Call(n, h, conns[n][h])'
    BY <1>5, <1>9 DEF Call, Send, Report
  <2>. QED  BY <1>12, <1>16, <2>1 DEF Calling
<1>19. \A x \in Handle : Caller(n, x)' /\ x # h =>
         /\ Caller(n, x) /\ conns'[n][x] = conns[n][x]
         /\ ~Calling(n, x) /\ ~Calling(n, x)'
  <2>1. \A x \in Handle : x # h => ~Calling(n, x)'
    BY <1>13, <1>16, EffectKinds, CallingFirst, ReportParts
  <2>. QED  BY <1>2, <1>5, <2>1, NoCall DEF Caller
<1>20. ASSUME NEW x \in Handle, NEW s \in State, todo[n]["pump"] = <<Report(x, s)>>
       PROVE  x # h /\ x < nextHandle'[n] /\ (Caller(n, x)' => s = conns'[n][x].state)
  <2>1. PICK y \in Handle, r \in State :
          /\ todo[n]["pump"] = <<Report(y, r)>> /\ y < nextHandle[n]
          /\ Caller(n, y) => r = conns[n][y].state
    <3>1. <<Report(x, s)>> # << >>
      OBVIOUS
    <3>. QED  BY <1>1, <1>20, <3>1 DEF StatusAt, PumpReports
  <2>2. Report(x, s) = Report(y, r)
    BY <1>20, <2>1
  <2>3. x = y /\ s = r
    BY <2>2, ReportParts
  <2>4. x < h /\ x \in Nat
    BY <1>6, <2>1, <2>3, HandleNat
  <2>5. x # h
    BY <1>7, <2>4
  <2>. QED  BY <1>7, <1>19, <2>1, <2>3, <2>4, <2>5
<1>21. PumpReports(n)'
  <2>1. CASE todo[n]["pump"] = << >>
    BY <1>16, <2>1 DEF PumpReports
  <2>2. CASE \E x \in Handle, s \in State : todo[n]["pump"] = <<Report(x, s)>>
    BY <1>16, <1>20, <2>2 DEF PumpReports, Report
  <2>. QED  BY <1>1, <2>1, <2>2 DEF StatusAt, PumpReports
<1>22. GameReports(n)'
  <2>1. ASSUME NEW i \in DOMAIN effects, NEW x \in Handle, NEW s \in State,
               effects[i] = Report(x, s)
        PROVE  x \in DOMAIN conns'[n] /\ Calling(n, x)'
    <3>1. x = h
      BY <1>13, <2>1, EffectKinds, ReportParts
    <3>. QED  BY <1>5, <1>18, <3>1
  <2>. QED  BY <1>16, <2>1 DEF GameReports, Report
<1>23. ~Named(Elsewhere(n), <<Self(n), h>>)'
  <2>1. PICK e, threads :
          e \in Endpoint /\ e = <<Self(n), h>> /\ threads = Elsewhere(n)
    <3>1. life[n] \in 1..2
      BY <1>1 DEF RestTyped
    <3>2. Self(n) \in Address
      BY <3>1 DEF Self, Address
    <3>3. <<Self(n), h>> \in Endpoint
      BY <3>2 DEF Endpoint
    <3>. QED  BY <3>3
  <2>2. ~Issued(e)
    <3>1. e[1] = Self(n) /\ e[1][1] = n /\ e[2] = h
      BY <2>1 DEF Self
    <3>2. ~ (h < nextHandle[n])
      BY <1>6, <1>7
    <3>. QED  BY <3>1, <3>2 DEF Issued
  <2>3. ~Named(threads, e)
    <3>1. Named(threads, e) => Named(Threads, e)
      BY <2>1 DEF Named, Elsewhere
    <3>. QED  BY <2>1, <2>2, <3>1 DEF SKnown, SInv, NamesIssued
  <2>4. \A q \in net' : q \in net \/ \E t \in Thread : <<n, t>> \in threads /\ q \in Due(n, t)
    BY <1>15
  <2>5. <<n, "game">> \notin threads
    BY <2>1 DEF Elsewhere
  <2>6. ~Named(threads, e)'
    BY <1>16, <2>1, <2>3, <2>4, <2>5, NamedAfter
  <2>7. Named(Elsewhere(n), <<Self(n), h>>)' => Named(threads, e)'
    BY <1>9, <2>1 DEF Named, Elsewhere, Threads
  <2>. QED  BY <2>6, <2>7
<1>24. ASSUME NEW x \in Handle, Caller(n, x)'
       PROVE  IF Calling(n, x)' THEN Unknown(n, x)' ELSE Known(n, x)'
  <2>1. CASE x = h
    <3>1. \A s \in State : todo'[n]["pump"] # <<Report(h, s)>>
      BY <1>16, <1>20
    <3>2. Unknown(n, h)'
      BY <1>4, <1>5, <1>23, <3>1 DEF Unknown, Report
    <3>. QED  BY <1>18, <2>1, <3>2
  <2>2. CASE x # h
    <3>1. Caller(n, x) /\ conns'[n][x] = conns[n][x] /\ ~Calling(n, x) /\ ~Calling(n, x)'
      BY <1>19, <1>24, <2>2
    <3>2. Known(n, x)
      BY <1>1, <3>1 DEF StatusAt
    <3>3. Known(n, x)'
      BY <1>2, <1>16, <3>1, <3>2 DEF Known, Report
    <3>. QED  BY <3>1, <3>3
  <2>. QED  BY <2>1, <2>2
<1>25. StatusAt(n)'
  BY <1>21, <1>22, <1>24 DEF StatusAt
<1>. QED  BY <1>6, <1>16, <1>17, <1>25, StatusKept

(* A handler of the pump sends nothing. *)
LEMMA PumpNames ==
  ASSUME RestTyped, NEW n \in Nodes, NEW x, NEW s, Later(n, "pump", <<Report(x, s)>>),
         net' \subseteq net, \A m \in Nodes : \A h \in DOMAIN conns'[m] : RemoteKept(m, h)
  PROVE  /\ NewNames(n)
         /\ todo'[n]["pump"] = <<Report(x, s)>> /\ todo'[n]["game"] = todo[n]["game"]
         /\ \A m \in Nodes \ {n} : todo'[m] = todo[m]
<1>1. "game" \in Thread /\ "pump" \in Thread
  BY DEF Thread
<1>2. PICK effects : effects = <<Report(x, s)>>
  OBVIOUS
<1>3. Later(n, "pump", effects)
  BY <1>2
<1>4. /\ todo'[n]["pump"] = effects
      /\ \A m \in Nodes, u \in Thread : ~(m = n /\ u = "pump") => todo'[m][u] = todo[m][u]
      /\ \A m \in Nodes \ {n} : todo'[m] = todo[m]
  BY <1>1, <1>3, LaterAt
<1>5. Due(n, "pump")' = {}
  <2>1. \A i \in DOMAIN effects : effects[i] = Report(x, s)
    BY <1>2
  <2>2. \A i \in DOMAIN effects : \A d \in Datagram : effects[i] # [send |-> d]
    BY <2>1, EffectKinds
  <2>. QED  BY <1>4, <2>2 DEF Due
<1>6. \A m \in Nodes, u \in Thread : Due(m, u)' \subseteq Due(m, u)
  <2>1. \A m \in Nodes, u \in Thread : ~(m = n /\ u = "pump") => Due(m, u)' = Due(m, u)
    BY <1>4, DueAt
  <2>. QED  BY <1>5, <2>1
<1>7. NewNames(n)
  BY <1>1, <1>6 DEF NewNames
<1>. QED  BY <1>1, <1>2, <1>4, <1>7

LEMMA PumpUnnamed ==
  ASSUME SKnown, IInv', NEW n \in Nodes, NewNames(n), life'[n] = life[n], net' \subseteq net
  PROVE  \A h \in Handle : ~Named(Elsewhere(n), <<Self(n), h>>)
                             => ~Named(Elsewhere(n), <<Self(n), h>>)'
<1>1. RestTyped /\ RestTyped'
  BY Types DEF IInv, SKnown
<1>. QED  BY <1>1, UnnamedKept

LEMMA HandleReqStatus ==
  ASSUME SKnown, IInv', NEW n \in Nodes, NEW d \in net, HandleReq(n, d)
  PROVE  SInv'
<1>1. ConnTyped /\ RestTyped /\ RestTyped' /\ StatusAt(n)
  BY Types DEF IInv, SKnown, SInv
<1>2. UNCHANGED <<life, seen>> /\ Idle(n, "pump")
  BY DEF HandleReq, Receive
<1>3. d \in Datagram /\ net' \subseteq net
  BY Received DEF HandleReq, SKnown
<1>0. PICK h \in Handle, listen \in listening[n] :
        /\ NewHandle(n, h)
        /\ NewConn(n, h, [remote |-> d.from[1], remoteAddr |-> d.from,
                          remoteHandle |-> d.src, state |-> "Connecting",
                          listen |-> listen, inbox |-> << >>])
        /\ Later(n, "pump", <<Report(h, "Connecting")>>)
  BY DEF HandleReq
<1>4. PICK c :
        /\ NewHandle(n, h) /\ NewConn(n, h, c)
        /\ c = [remote |-> d.from[1], remoteAddr |-> d.from,
                remoteHandle |-> d.src, state |-> "Connecting",
                listen |-> listen, inbox |-> << >>]
        /\ Later(n, "pump", <<Report(h, "Connecting")>>)
  BY <1>0
<1>5. c \in Conn /\ c.listen # NoHandle /\ Remote(c) \in Told(d)
  <2>1. listen \in Handle /\ listen # NoHandle
    BY <1>1, HandleNat DEF RestTyped
  <2>2. << >> \in Seq(Message)
    OBVIOUS
  <2>3. c \in Conn
    BY <1>3, <1>4, <2>1, <2>2, DatagramParts DEF Conn, State
  <2>. QED  BY <1>4, <2>1, <2>3 DEF Remote, Told
<1>6. /\ DOMAIN conns'[n] = DOMAIN conns[n] \cup {h}
      /\ conns'[n][h] = c
      /\ \A x \in DOMAIN conns[n] \ {h} : conns'[n][x] = conns[n][x]
      /\ \A m \in Nodes \ {n} : conns'[m] = conns[m]
  BY <1>1, <1>4, <1>5, NewConnFacts
<1>7. /\ Rising /\ h = nextHandle[n] /\ nextHandle'[n] = nextHandle[n] + 1
      /\ \A m \in Nodes \ {n} : nextHandle'[m] = nextHandle[m]
  BY <1>1, <1>2, <1>4, OneGivenOut
<1>8. h < nextHandle'[n]
  <2>1. h \in Nat
    BY HandleNat
  <2>. QED  BY <1>7, <2>1
<1>9. \A m \in Nodes : \A x \in DOMAIN conns'[m] : RemoteKept(m, x)
  BY <1>5, <1>6 DEF RemoteKept, Remote
<1>10. /\ NewNames(n)
       /\ todo'[n]["pump"] = <<Report(h, "Connecting")>> /\ todo'[n]["game"] = todo[n]["game"]
       /\ \A m \in Nodes \ {n} : todo'[m] = todo[m]
  BY <1>1, <1>3, <1>4, <1>9, PumpNames
<1>11. OnlyAt(n)
  BY <1>2, <1>6, <1>7, <1>10 DEF OnlyAt
<1>12. \A x \in Handle : ~Named(Elsewhere(n), <<Self(n), x>>)
                           => ~Named(Elsewhere(n), <<Self(n), x>>)'
  BY <1>2, <1>3, <1>10, PumpUnnamed
<1>13. ~Caller(n, h)'
  BY <1>5, <1>6 DEF Caller
<1>14. /\ DOMAIN conns[n] \subseteq DOMAIN conns'[n]
       /\ \A x \in DOMAIN conns'[n] \ {h} : x \in DOMAIN conns[n] /\ conns'[n][x] = conns[n][x]
  BY <1>6
<1>15. "Connecting" \in State
  BY DEF State
<1>16. StatusAt(n)'
  BY <1>1, <1>2, <1>8, <1>10, <1>12, <1>13, <1>14, <1>15, PumpStatus
<1>. QED  BY <1>7, <1>10, <1>11, <1>16, StatusKept

(* An answer is for a connection whose call has sent its request. *)
LEMMA AnswerStatus ==
  ASSUME SKnown, IInv', NEW n \in Nodes, NEW d \in net, NEW kind, Receive(n, d, kind),
         NEW h \in DOMAIN conns[n], h = d.dst, NEW c \in Conn, Changed(n, h, c),
         c.listen = conns[n][h].listen, c.remoteAddr = conns[n][h].remoteAddr,
         \/ c.remoteHandle = conns[n][h].remoteHandle
         \/ c.remoteAddr = d.from /\ c.remoteHandle = d.src,
         Later(n, "pump", <<Report(h, c.state)>>),
         UNCHANGED <<nextHandle, life, seen>>
  PROVE  SInv'
<1>1. ConnTyped /\ RestTyped /\ RestTyped' /\ StatusAt(n)
  BY Types DEF IInv, SKnown, SInv
<1>2. Idle(n, "pump") /\ d \in Datagram /\ d.to = Self(n) /\ net' \subseteq net
  BY Received DEF Receive, SKnown
<1>3. /\ DOMAIN conns'[n] = DOMAIN conns[n]
      /\ conns'[n][h] = c
      /\ \A x \in DOMAIN conns[n] \ {h} : conns'[n][x] = conns[n][x]
      /\ \A m \in Nodes \ {n} : conns'[m] = conns[m]
  BY <1>1, ChangeFacts
<1>4. \A m \in Nodes : \A x \in DOMAIN conns'[m] : RemoteKept(m, x)
  BY <1>3 DEF RemoteKept, Remote, Told
<1>5. PICK s \in State : s = c.state
  BY ConnParts
<1>6. /\ NewNames(n)
      /\ todo'[n]["pump"] = <<Report(h, s)>> /\ todo'[n]["game"] = todo[n]["game"]
      /\ \A m \in Nodes \ {n} : todo'[m] = todo[m]
  BY <1>1, <1>2, <1>4, <1>5, PumpNames
<1>7. Rising /\ OnlyAt(n)
  BY <1>1, <1>3, <1>6, NothingGivenOut DEF OnlyAt
<1>8. \A x \in Handle : ~Named(Elsewhere(n), <<Self(n), x>>)
                          => ~Named(Elsewhere(n), <<Self(n), x>>)'
  BY <1>2, <1>6, PumpUnnamed
<1>9. h \in Handle /\ h < nextHandle'[n]
  BY <1>1 DEF ConnTyped, SKnown, IInv, HandlesIssued
<1>10. Caller(n, h)' => Caller(n, h) /\ ~Calling(n, h) /\ s = conns'[n][h].state
  <2>1. ASSUME Caller(n, h), Calling(n, h)
        PROVE  FALSE
    <3>1. ~Named(Elsewhere(n), <<Self(n), h>>)
      BY <1>1, <1>9, <2>1 DEF StatusAt, Unknown
    <3>2. <<Self(n), h>> \in Told(d)
      BY <1>2 DEF Told
    <3>. QED  BY <3>1, <3>2 DEF Named
  <2>. QED  BY <1>3, <1>5, <2>1 DEF Caller
<1>11. /\ DOMAIN conns[n] \subseteq DOMAIN conns'[n]
       /\ \A x \in DOMAIN conns'[n] \ {h} : x \in DOMAIN conns[n] /\ conns'[n][x] = conns[n][x]
  BY <1>3
<1>12. StatusAt(n)'
  BY <1>1, <1>2, <1>6, <1>8, <1>9, <1>10, <1>11, PumpStatus
<1>. QED  BY <1>6, <1>7, <1>12, StatusKept

LEMMA HandleAccStatus ==
  ASSUME SKnown, IInv', NEW n \in Nodes, NEW d \in net, HandleAcc(n, d)
  PROVE  SInv'
<1>1. ConnTyped /\ RestTyped
  BY Types DEF IInv, SKnown
<1>2. UNCHANGED <<nextHandle, life, seen>> /\ Receive(n, d, "Acc")
  BY DEF HandleAcc
<1>3. d \in Datagram /\ Truthful(d) /\ d.kind = "Acc" /\ d.to = Self(n)
  BY <1>2, Received DEF SKnown
<1>4. PICK h \in Handle :
        /\ h \in DOMAIN conns[n] /\ h = d.dst
        /\ Answered(n, h, d.src)
        /\ Later(n, "pump", <<Report(h, "Connected")>>)
  BY DEF HandleAcc, Answer, Answered
<1>5. conns[n][h].remoteAddr = d.from
  <2>1. PICK pair \in accepted : pair = Pair(<<d.from, d.src>>, <<Self(n), h>>)
    BY <1>3, <1>4 DEF Truthful
  <2>2. /\ pair.server = <<d.from, d.src>> /\ pair.client = <<Self(n), h>>
        /\ CallerEnd(pair.client, pair.server[1])
    BY <2>1 DEF Pair, SKnown, IInv, Agreed
  <2>. QED  BY <1>4, <2>2 DEF CallerEnd
<1>6. PICK c \in Conn :
        /\ Changed(n, h, c)
        /\ c.state = "Connected" /\ c.remoteHandle = d.src
        /\ c.listen = conns[n][h].listen /\ c.remoteAddr = conns[n][h].remoteAddr
  <2>1. d.src \in Handle
    BY <1>3, DatagramParts
  <2>. QED  BY <1>1, <1>4, <2>1, SetAnswered
<1>7. Later(n, "pump", <<Report(h, c.state)>>)
  BY <1>4, <1>6
<1>. QED  BY <1>2, <1>4, <1>5, <1>6, <1>7, AnswerStatus

LEMMA HandleFinStatus ==
  ASSUME SKnown, IInv', NEW n \in Nodes, NEW d \in net, HandleFin(n, d)
  PROVE  SInv'
<1>1. ConnTyped
  BY Types DEF IInv, SKnown
<1>2. UNCHANGED <<nextHandle, life, seen>> /\ Receive(n, d, "Fin")
  BY DEF HandleFin
<1>3. PICK h \in Handle :
        /\ h \in DOMAIN conns[n] /\ h = d.dst /\ StateSet(n, h, "ClosedByPeer")
        /\ Later(n, "pump", <<Report(h, "ClosedByPeer")>>)
  BY DEF HandleFin, Answer, StateSet
<1>4. PICK c \in Conn :
        /\ Changed(n, h, c)
        /\ c.state = "ClosedByPeer"
        /\ c.listen = conns[n][h].listen /\ c.remoteAddr = conns[n][h].remoteAddr
        /\ c.remoteHandle = conns[n][h].remoteHandle
  <2>1. "ClosedByPeer" \in State
    BY DEF State
  <2>. QED  BY <1>1, <1>3, <2>1, SetState
<1>5. Later(n, "pump", <<Report(h, c.state)>>)
  BY <1>3, <1>4
<1>. QED  BY <1>2, <1>3, <1>4, <1>5, AnswerStatus

LEMMA TailFacts ==
  ASSUME NEW effects \in Seq(Effect), effects # << >>
  PROVE  /\ 1 \in DOMAIN effects /\ effects[1] = Head(effects)
         /\ \A i \in DOMAIN Tail(effects) :
              /\ i + 1 \in DOMAIN effects /\ i + 1 # 1
              /\ Tail(effects)[i] = effects[i + 1]
<1>1. PICK rest : rest = Tail(effects)
  OBVIOUS
<1>2. /\ rest \in Seq(Effect)
      /\ Len(rest) = Len(effects) - 1 /\ Len(effects) \in Nat /\ Len(rest) \in Nat
      /\ \A i \in 1..Len(rest) : rest[i] = effects[i + 1]
  BY <1>1, HeadTailProperties, LenProperties
<1>3. DOMAIN effects = 1..Len(effects) /\ DOMAIN rest = 1..Len(rest)
  BY <1>2, LenProperties
<1>4. \A i \in 1..Len(rest) : i + 1 \in 1..Len(effects) /\ i + 1 # 1
  BY <1>2
<1>5. 1 \in 1..Len(effects)
  <2>1. Len(effects) # 0
    BY EmptySeq
  <2>. QED  BY <1>2, <2>1
<1>. QED  BY <1>1, <1>2, <1>3, <1>4, <1>5

(* Once a call has made its report, none of a caller is due of the game. *)
LEMMA RestReports ==
  ASSUME RestTyped, NEW n \in Nodes, StatusAt(n), ~Idle(n, "game"),
         NEW i \in DOMAIN Tail(todo[n]["game"]), NEW h \in Handle, NEW s \in State,
         Tail(todo[n]["game"])[i] = Report(h, s)
  PROVE  h \in DOMAIN conns[n] /\ ~Caller(n, h)
<1>1. PICK effects \in Seq(Effect) : effects = todo[n]["game"] /\ effects # << >>
  BY DEF RestTyped, Idle, Thread
<1>2. i + 1 \in DOMAIN effects /\ i + 1 # 1 /\ effects[i + 1] = Report(h, s)
  BY <1>1, TailFacts
<1>3. h \in DOMAIN conns[n] /\ (Caller(n, h) => Calling(n, h))
  BY <1>1, <1>2 DEF StatusAt, GameReports
<1>4. ASSUME Calling(n, h)
      PROVE  FALSE
  <2>1. PICK r, q, d : /\ effects = <<r>> \/ effects = <<r, q>>
                       /\ q = [send |-> d]
    BY <1>1, <1>4 DEF Calling, Call, Send
  <2>2. effects[i + 1] = q
    <3>1. CASE effects = <<r>>
      BY <1>2, <3>1
    <3>2. CASE effects = <<r, q>>
      BY <1>2, <3>2
    <3>. QED  BY <2>1, <3>1, <3>2
  <2>. QED  BY <1>2, <2>1, <2>2, EffectKinds
<1>. QED  BY <1>3, <1>4

(* A step that only takes what is due. *)
LEMMA DueNames ==
  ASSUME NEW n \in Nodes, conns' = conns,
         \A d \in net' : d \in net \/ \E t \in Thread : d \in Due(n, t),
         \A m \in Nodes, t \in Thread : \A d \in Due(m, t)' : d \in Due(m, t)
  PROVE  NewNames(n)
<1>1. "game" \in Thread
  BY DEF Thread
<1>2. \A m \in Nodes : \A h \in DOMAIN conns'[m] : RemoteKept(m, h)
  BY DEF RemoteKept, Remote
<1>3. \A m \in Nodes, t \in Thread : Due(m, t)' \subseteq Due(m, t)
  OBVIOUS
<1>. QED  BY <1>1, <1>2, <1>3 DEF NewNames

LEMMA SendNextStatus ==
  ASSUME SKnown, IInv', NEW n \in Nodes, NEW t \in Thread, SendNext(n, t)
  PROVE  SInv'
<1>1. RestTyped /\ RestTyped' /\ StatusAt(n)
  BY Types DEF IInv, SKnown, SInv
<1>2. UNCHANGED <<conns, nextHandle, life, seen>>
  BY DEF SendNext
<1>3. PICK next :
        /\ next = Head(todo[n][t]) /\ "send" \in DOMAIN next
        /\ net' = net \cup {next.send}
        /\ ~Idle(n, t) /\ Later(n, t, Tail(todo[n][t]))
  BY DEF SendNext
<1>4. /\ next \in Effect
      /\ \A d \in Datagram : next = [send |-> d] => d \in Due(n, t)
      /\ \A m \in Nodes, u \in Thread : \A d \in Due(m, u)' : d \in Due(m, u)
  BY <1>3, NextEffect DEF SKnown
<1>5. next.send \in Datagram /\ next = [send |-> next.send]
  <2>1. CASE next \in [send : Datagram]
    BY <2>1
  <2>2. CASE next \in [report : State, conn : Handle]
    <3>1. DOMAIN next = {"report", "conn"}
      BY <2>2
    <3>. QED  BY <1>3, <3>1
  <2>. QED  BY <1>4, <2>1, <2>2 DEF Effect
<1>6. NewNames(n)
  <2>1. \A d \in net' : d \in net \/ \E u \in Thread : d \in Due(n, u)
    BY <1>3, <1>4, <1>5
  <2>. QED  BY <1>2, <1>4, <2>1, DueNames
<1>7. \A h, s : next # Report(h, s)
  BY <1>5, EffectKinds
<1>8. t = "game"
  <2>1. ASSUME t = "pump"
        PROVE  FALSE
    <3>1. PICK h \in Handle, s \in State : todo[n]["pump"] = <<Report(h, s)>>
      BY <1>1, <1>3, <2>1 DEF StatusAt, PumpReports, Idle
    <3>2. Head(todo[n]["pump"]) = Report(h, s)
      BY <3>1
    <3>. QED  BY <1>3, <1>7, <2>1, <3>2
  <2>. QED  BY <2>1 DEF Thread
<1>9. /\ todo'[n]["game"] = Tail(todo[n]["game"]) /\ todo'[n]["pump"] = todo[n]["pump"]
      /\ \A m \in Nodes \ {n} : todo'[m] = todo[m]
  <2>1. PICK rest : rest = Tail(todo[n]["game"])
    OBVIOUS
  <2>2. Later(n, "game", rest)
    BY <1>3, <1>8, <2>1
  <2>3. "game" \in Thread /\ "pump" \in Thread
    BY DEF Thread
  <2>. QED  BY <1>1, <2>1, <2>2, <2>3, LaterAt
<1>10. Rising /\ OnlyAt(n)
  BY <1>1, <1>2, <1>9, NothingGivenOut DEF OnlyAt
<1>11. \A h \in Handle : ~Calling(n, h)
  <2>1. PICK effects \in Seq(Effect) : effects = todo[n]["game"] /\ effects # << >>
    BY <1>1, <1>3, <1>8 DEF RestTyped, Idle, Thread
  <2>2. effects[1] = next
    BY <1>3, <1>8, <2>1, TailFacts
  <2>. QED  BY <1>7, <2>1, <2>2, CallingFirst
<1>12. \A h \in Handle : Caller(n, h)' =>
         /\ Caller(n, h)
         /\ conns'[n][h].state = conns[n][h].state
         /\ \/ seen'[n][h] = conns[n][h].state
            \/ seen'[n][h] = seen[n][h] /\ ~Calling(n, h)
  BY <1>2, <1>11 DEF Caller
<1>13. \A i \in DOMAIN todo'[n]["game"] : \A h \in Handle, s \in State :
         todo'[n]["game"][i] = Report(h, s) => h \in DOMAIN conns'[n] /\ ~Caller(n, h)'
  BY <1>1, <1>2, <1>3, <1>8, <1>9, RestReports DEF Caller
<1>14. nextHandle[n] <= nextHandle'[n]
  BY <1>2, <1>10 DEF Rising
<1>15. StatusAt(n)'
  BY <1>1, <1>9, <1>12, <1>13, <1>14, GameStatus
<1>. QED  BY <1>6, <1>10, <1>15, StatusKept

(* What a report does: of the game's thread, and of the pump's. *)
Reported(n, t, h, s) ==
  /\ todo[n][t] # << >> /\ Head(todo[n][t]) = Report(h, s)
  /\ Later(n, t, Tail(todo[n][t]))
  /\ seen' = [seen EXCEPT ![n][h] = s]
  /\ UNCHANGED <<conns, nextHandle, net, life>>

LEMMA ReportNames ==
  ASSUME SKnown, IInv', NEW n \in Nodes, NEW t \in Thread, NEW h \in Handle, NEW s \in State,
         Reported(n, t, h, s)
  PROVE  /\ NewNames(n) /\ Rising /\ OnlyAt(n)
         /\ todo'[n][t] = Tail(todo[n][t])
         /\ \A u \in Thread \ {t} : todo'[n][u] = todo[n][u]
         /\ seen'[n][h] = s /\ \A x \in Handle \ {h} : seen'[n][x] = seen[n][x]
<1>1. RestTyped
  BY Types DEF IInv, SKnown
<1>2. PICK rest : rest = Tail(todo[n][t])
  OBVIOUS
<1>3. Later(n, t, rest)
  BY <1>2 DEF Reported
<1>4. /\ todo'[n][t] = rest
      /\ \A u \in Thread \ {t} : todo'[n][u] = todo[n][u]
      /\ \A m \in Nodes \ {n} : todo'[m] = todo[m]
  BY <1>1, <1>3, LaterAt
<1>5. \A m \in Nodes, u \in Thread : \A d \in Due(m, u)' : d \in Due(m, u)
  BY NextEffect DEF SKnown, Reported, Idle
<1>6. NewNames(n)
  BY <1>5, DueNames DEF Reported
<1>7. /\ seen'[n][h] = s /\ \A x \in Handle \ {h} : seen'[n][x] = seen[n][x]
      /\ \A m \in Nodes \ {n} : seen'[m] = seen[m]
  BY <1>1 DEF RestTyped, Reported
<1>8. Rising /\ OnlyAt(n)
  BY <1>1, <1>4, <1>7, NothingGivenOut DEF OnlyAt, Reported
<1>. QED  BY <1>2, <1>4, <1>6, <1>7, <1>8

LEMMA GameReportStatus ==
  ASSUME SKnown, IInv', NEW n \in Nodes, NEW h \in Handle, NEW s \in State,
         Reported(n, "game", h, s)
  PROVE  SInv'
<1>1. RestTyped /\ RestTyped' /\ StatusAt(n)
  BY Types DEF IInv, SKnown, SInv
<1>2. "game" \in Thread /\ "pump" \in Thread
  BY DEF Thread
<1>3. /\ NewNames(n) /\ Rising /\ OnlyAt(n)
      /\ todo'[n]["game"] = Tail(todo[n]["game"]) /\ todo'[n]["pump"] = todo[n]["pump"]
      /\ seen'[n][h] = s /\ \A x \in Handle \ {h} : seen'[n][x] = seen[n][x]
  BY <1>2, ReportNames
<1>4. PICK effects \in Seq(Effect) : effects = todo[n]["game"] /\ effects # << >>
  BY <1>1, <1>2 DEF RestTyped, Reported
<1>5. 1 \in DOMAIN effects /\ effects[1] = Report(h, s)
  BY <1>4, TailFacts DEF Reported
<1>6. Caller(n, h) => s = conns[n][h].state
  <2>1. Caller(n, h) => Calling(n, h)
    BY <1>1, <1>4, <1>5 DEF StatusAt, GameReports
  <2>2. Calling(n, h) => s = "Connecting"
    BY <1>4, <1>5, CallingFirst, ReportParts
  <2>. QED  BY <1>1, <2>1, <2>2 DEF StatusAt, Unknown
<1>7. \A x \in Handle \ {h} : ~Calling(n, x)
  BY <1>4, <1>5, CallingFirst, ReportParts
<1>8. \A x \in Handle : Caller(n, x)' =>
        /\ Caller(n, x)
        /\ conns'[n][x].state = conns[n][x].state
        /\ \/ seen'[n][x] = conns[n][x].state
           \/ seen'[n][x] = seen[n][x] /\ ~Calling(n, x)
  BY <1>3, <1>6, <1>7 DEF Caller, Reported
<1>9. \A i \in DOMAIN todo'[n]["game"] : \A x \in Handle, r \in State :
        todo'[n]["game"][i] = Report(x, r) => x \in DOMAIN conns'[n] /\ ~Caller(n, x)'
  BY <1>1, <1>3, RestReports DEF Caller, Reported, Idle
<1>10. nextHandle[n] <= nextHandle'[n]
  BY <1>3 DEF Rising, Reported
<1>11. StatusAt(n)'
  BY <1>1, <1>3, <1>8, <1>9, <1>10, GameStatus
<1>. QED  BY <1>3, <1>11, StatusKept

LEMMA PumpReportStatus ==
  ASSUME SKnown, IInv', NEW n \in Nodes, NEW h \in Handle, NEW s \in State,
         Reported(n, "pump", h, s)
  PROVE  SInv'
<1>1. RestTyped /\ RestTyped' /\ StatusAt(n)
  BY Types DEF IInv, SKnown, SInv
<1>2. "game" \in Thread /\ "pump" \in Thread
  BY DEF Thread
<1>3. /\ NewNames(n) /\ Rising /\ OnlyAt(n)
      /\ todo'[n]["pump"] = Tail(todo[n]["pump"]) /\ todo'[n]["game"] = todo[n]["game"]
      /\ seen'[n][h] = s /\ \A x \in Handle \ {h} : seen'[n][x] = seen[n][x]
  BY <1>2, ReportNames
<1>4. UNCHANGED <<conns, nextHandle, net, life>>
  BY DEF Reported
<1>5. /\ todo[n]["pump"] = <<Report(h, s)>> /\ todo'[n]["pump"] = << >>
      /\ Caller(n, h) => s = conns[n][h].state
  <2>1. PICK x \in Handle, r \in State :
          /\ todo[n]["pump"] = <<Report(x, r)>>
          /\ Caller(n, x) => r = conns[n][x].state
    BY <1>1 DEF StatusAt, PumpReports, Reported
  <2>2. Report(h, s) = Report(x, r) /\ Tail(todo[n]["pump"]) = << >>
    BY <2>1 DEF Reported
  <2>. QED  BY <1>3, <2>1, <2>2, ReportParts
<1>6. \A x \in Handle : ~Named(Elsewhere(n), <<Self(n), x>>)
                          => ~Named(Elsewhere(n), <<Self(n), x>>)'
  BY <1>3, <1>4, PumpUnnamed
<1>7. \A x \in Handle : /\ Calling(n, x)' <=> Calling(n, x)
                        /\ Caller(n, x)' <=> Caller(n, x)
  BY <1>3, <1>4, CallingKept DEF SameCall, Remote, Caller
<1>8. GameReports(n)'
  <2>1. ASSUME NEW i \in DOMAIN todo[n]["game"], NEW x \in Handle, NEW r \in State,
               todo[n]["game"][i] = Report(x, r)
        PROVE  x \in DOMAIN conns'[n] /\ (Caller(n, x)' => Calling(n, x)')
    BY <1>1, <1>4, <1>7, <2>1 DEF StatusAt, GameReports
  <2>. QED  BY <1>3, <2>1 DEF GameReports, Report
<1>9. ASSUME NEW x \in Handle, Caller(n, x)'
      PROVE  IF Calling(n, x)' THEN Unknown(n, x)' ELSE Known(n, x)'
  <2>1. Caller(n, x)
    BY <1>7, <1>9
  <2>2. CASE Calling(n, x)
    <3>1. Unknown(n, x)
      BY <1>1, <2>1, <2>2 DEF StatusAt
    <3>2. \A r \in State : todo'[n]["pump"] # <<Report(x, r)>>
      BY <1>5
    <3>3. Unknown(n, x)'
      BY <1>4, <1>6, <3>1, <3>2 DEF Unknown, Report
    <3>. QED  BY <1>7, <2>2, <3>3
  <2>3. CASE ~Calling(n, x)
    <3>1. Known(n, x)
      BY <1>1, <2>1, <2>3 DEF StatusAt
    <3>2. seen'[n][x] = conns[n][x].state
      <4>1. CASE x = h
        BY <1>3, <1>5, <2>1, <4>1
      <4>2. CASE x # h
        <5>1. todo[n]["pump"] # <<Report(x, conns[n][x].state)>>
          <6>1. \A r : <<Report(h, s)>> = <<Report(x, r)>> => Report(h, s) = Report(x, r)
            OBVIOUS
          <6>. QED  BY <1>5, <4>2, <6>1, ReportParts
        <5>. QED  BY <1>3, <3>1, <4>2, <5>1 DEF Known
      <4>. QED  BY <4>1, <4>2
    <3>3. Known(n, x)'
      BY <1>4, <3>2 DEF Known
    <3>. QED  BY <1>7, <2>3, <3>3
  <2>. QED  BY <2>2, <2>3
<1>10. PumpReports(n)'
  BY <1>5 DEF PumpReports
<1>11. StatusAt(n)'
  BY <1>8, <1>9, <1>10 DEF StatusAt
<1>. QED  BY <1>3, <1>11, StatusKept

LEMMA FireStatus ==
  ASSUME SKnown, IInv', NEW n \in Nodes, NEW t \in Thread, FireConnStatus(n, t)
  PROVE  SInv'
<1>1. PICK next :
        /\ next = Head(todo[n][t]) /\ "report" \in DOMAIN next
        /\ seen' = [seen EXCEPT ![n][next.conn] = next.report]
        /\ ~Idle(n, t) /\ Later(n, t, Tail(todo[n][t]))
  BY DEF FireConnStatus
<1>2. next \in Effect
  BY <1>1, NextEffect DEF SKnown
<1>3. /\ next.conn \in Handle /\ next.report \in State
      /\ next = Report(next.conn, next.report)
  <2>1. CASE next \in [send : Datagram]
    <3>1. DOMAIN next = {"send"}
      BY <2>1
    <3>. QED  BY <1>1, <3>1
  <2>2. CASE next \in [report : State, conn : Handle]
    BY <2>2 DEF Report
  <2>. QED  BY <1>2, <2>1, <2>2 DEF Effect
<1>4. PICK h \in Handle, s \in State :
        next = Report(h, s) /\ seen' = [seen EXCEPT ![n][h] = s]
  BY <1>1, <1>3
<1>5. Reported(n, t, h, s)
  BY <1>1, <1>4 DEF Reported, FireConnStatus, Idle
<1>. QED  BY <1>5, GameReportStatus, PumpReportStatus DEF Thread

LEMMA RestartStatus ==
  ASSUME SKnown, IInv', NEW n \in Nodes, Restart(n)
  PROVE  SInv'
<1>1. ConnTyped /\ RestTyped /\ RestTyped'
  BY Types DEF IInv, SKnown
<1>2. /\ life[n] = 1 /\ life' = [life EXCEPT ![n] = 2]
      /\ conns' = [conns EXCEPT ![n] = << >>]
      /\ nextHandle' = [nextHandle EXCEPT ![n] = 1]
      /\ todo' = [todo EXCEPT ![n] = [t \in Thread |-> << >>]]
      /\ seen' = [seen EXCEPT ![n] = [h \in Handle |-> "None"]]
      /\ net' \subseteq net
  BY DEF Restart
<1>3. OnlyAt(n)
  BY <1>1, <1>2 DEF OnlyAt, RestTyped, ConnTyped
<1>4. Rising
  <2>1. \A m \in Nodes : life[m] \in 1..2 /\ nextHandle[m] \in Nat
    BY <1>1 DEF RestTyped
  <2>2. life'[n] = 2
    BY <1>1, <1>2 DEF RestTyped
  <2>3. ASSUME NEW m \in Nodes
        PROVE  /\ life[m] <= life'[m]
               /\ life'[m] = life[m] => nextHandle[m] <= nextHandle'[m]
    <3>1. CASE m = n
      BY <1>2, <2>2, <3>1
    <3>2. CASE m # n
      BY <1>3, <2>1, <3>2 DEF OnlyAt
    <3>. QED  BY <3>1, <3>2
  <2>. QED  BY <2>3 DEF Rising
<1>5. DOMAIN conns'[n] = {}
  <2>1. conns'[n] = << >>
    BY <1>1, <1>2 DEF ConnTyped
  <2>. QED  BY <2>1
<1>6. \A t \in Thread : todo'[n][t] = << >>
  BY <1>1, <1>2 DEF RestTyped
<1>7. NewNames(n)
  <2>1. \A m \in Nodes, t \in Thread : Due(m, t)' \subseteq Due(m, t)
    BY <1>3, <1>6, DueAt DEF OnlyAt
  <2>. QED  BY <1>2, <1>3, <1>5, <2>1 DEF NewNames, RemoteKept, OnlyAt, Thread
<1>8. StatusAt(n)'
  <2>1. todo'[n]["game"] = << >> /\ todo'[n]["pump"] = << >>
    BY <1>6 DEF Thread
  <2>2. \A i \in DOMAIN todo'[n]["game"] : FALSE
    BY <2>1
  <2>3. \A h \in Handle : ~Caller(n, h)'
    BY <1>5 DEF Caller
  <2>. QED  BY <2>1, <2>2, <2>3 DEF StatusAt, PumpReports, GameReports
<1>. QED  BY <1>3, <1>4, <1>7, <1>8, StatusKept

LEMMA InitStatus == Init => SInv
<1>. SUFFICES ASSUME Init PROVE SInv
  OBVIOUS
<1>1. \A n \in Nodes : DOMAIN conns[n] = {}
  <2>1. \A n \in Nodes : conns[n] = << >>
    BY DEF Init
  <2>. QED  BY <2>1
<1>2. \A n \in Nodes, t \in Thread : todo[n][t] = << >>
  BY DEF Init
<1>3. \A n \in Nodes, t \in Thread : Due(n, t) = {}
  <2>1. ASSUME NEW n \in Nodes, NEW t \in Thread
        PROVE  \A i \in DOMAIN todo[n][t] : FALSE
    <3>1. todo[n][t] = << >>
      BY <1>2
    <3>. QED  BY <3>1
  <2>. QED  BY <2>1 DEF Due
<1>4. NamesIssued
  BY <1>1, <1>3 DEF NamesIssued, Named, Init
<1>5. ASSUME NEW n \in Nodes
      PROVE  StatusAt(n)
  <2>1. todo[n]["game"] = << >> /\ todo[n]["pump"] = << >>
    BY <1>2 DEF Thread
  <2>2. \A i \in DOMAIN todo[n]["game"] : FALSE
    BY <2>1
  <2>. QED  BY <1>1, <2>1, <2>2 DEF StatusAt, PumpReports, GameReports, Caller
<1>. QED  BY <1>4, <1>5 DEF SInv

LEMMA NextStatus == SKnown /\ IInv' /\ [Next]_vars => SInv'
<1>. SUFFICES ASSUME SKnown, IInv', [Next]_vars PROVE SInv'
  OBVIOUS
<1>1. CASE UNCHANGED vars
  <2>1. CASE Nodes = {}
    BY <2>1, <1>1, EndpointParts DEF SInv, NamesIssued
  <2>2. CASE Nodes # {}
    BY <1>1, <2>2, StutterStatus
  <2>. QED  BY <2>1, <2>2
<1>2. ASSUME NEW n \in Nodes, Game(n)
      PROVE  SInv'
  <2>1. CASE CreateListenSocketP2P(n)
    BY <2>1, CreateListenSocketStatus
  <2>2. CASE \E m \in Nodes : ConnectP2P(n, m)
    BY <2>2, ConnectStatus
  <2>3. CASE \E h \in Handle : CloseListenSocket(n, h)
    BY <2>3, CloseListenSocketStatus
  <2>4. CASE \E h \in Handle : AcceptConnection(n, h)
    BY <2>4, AcceptStatus
  <2>5. CASE \E h \in Handle : CloseConnection(n, h)
    BY <2>5, CloseConnectionStatus
  <2>6. CASE \E h \in Handle : SendToConnection(n, h)
    BY <2>6, SendToConnectionStatus
  <2>7. CASE \E h \in Handle, k \in 1..MaxInbox : ReceiveOnConnection(n, h, k)
    BY <2>7, ReceiveOnConnectionStatus
  <2>. QED  BY <1>2, <2>1, <2>2, <2>3, <2>4, <2>5, <2>6, <2>7 DEF Game
<1>3. ASSUME NEW n \in Nodes, Pump(n)
      PROVE  SInv'
  BY <1>3, HandleReqStatus, HandleAccStatus, HandleMsgStatus, HandleFinStatus DEF Pump
<1>4. ASSUME NEW n \in Nodes, Restart(n)
      PROVE  SInv'
  BY <1>4, RestartStatus
<1>5. ASSUME NEW n \in Nodes, NEW t \in Thread, SendNext(n, t) \/ FireConnStatus(n, t)
      PROVE  SInv'
  BY <1>5, SendNextStatus, FireStatus
<1>. QED  BY <1>1, <1>2, <1>3, <1>4, <1>5 DEF Next

LEMMA StatusImplies == IInv /\ SInv => CallerStatusCurrent
<1>. SUFFICES ASSUME IInv, SInv, NEW n \in Nodes, NEW h \in DOMAIN conns[n],
                     conns[n][h].listen = NoHandle,
                     todo[n]["game"] = << >>, todo[n]["pump"] = << >>
              PROVE  seen[n][h] = conns[n][h].state
  BY DEF CallerStatusCurrent, Current, Idle
<1>1. h \in Handle
  BY Types DEF IInv, ConnTyped
<1>2. Caller(n, h) /\ ~Calling(n, h)
  BY CallingFirst DEF Caller
<1>3. Known(n, h)
  BY <1>1, <1>2 DEF SInv, StatusAt
<1>. QED  BY <1>3 DEF Known

(* A game that has called for a connection knows, whenever none of its     *)
(* calls and no handler is under way, the state the connection is in: no   *)
(* answer overtakes the report of the call, on any of any number of nodes. *)
THEOREM CallersKnowTheirStatus == Spec => []CallerStatusCurrent
<1>1. Init => IInv /\ SInv
  BY InitIInv, InitStatus
<1>2. IInv /\ SInv /\ [Next]_vars => IInv' /\ SInv'
  BY NextIInv, NextStatus DEF SKnown
<1>3. IInv /\ SInv => CallerStatusCurrent
  BY StatusImplies
<1>. QED  BY <1>1, <1>2, <1>3, PTL DEF Spec
=============================================================================
