----------------------------- MODULE LobbyChat -----------------------------
(***************************************************************************)
(* Chat in one lobby (src/net.cpp).  A line is multicast out of every      *)
(* network interface and looped back, so a member receives several copies  *)
(* of it, its own lines included, in any order or not at all.  The copies  *)
(* carry the sender's sequence number, the epoch of its process and a      *)
(* counter of its backend, and a receiver keeps a window of the numbers it *)
(* has seen to drop all copies but the first.                              *)
(***************************************************************************)
EXTENDS Naturals, Sequences, FiniteSets

CONSTANTS
  Chatters,    \* the nodes
  Copies,      \* copies of a line that each node may receive
  Window,      \* sequence numbers a receiver remembers (1024 in the code)
  Restarting,  \* the nodes whose backend may stop and start again
  Relaunching, \* those of them whose process does so too
  MaxLines,    \* bound: lines sent in one behaviour
  MaxRuns      \* bound: backends a node starts

ASSUME LobbyChatAssumption ==
  /\ Copies \in Nat \ {0} /\ Window \in Nat \ {0}
  /\ Relaunching \subseteq Restarting /\ Restarting \subseteq Chatters
  /\ MaxLines \in Nat /\ MaxRuns \in Nat \ {0}

VARIABLES
  inLobby,     \* per node, is it a member?
  epoch,       \* per node, the ProcessEpoch of its process
  backends,    \* per node, the number of backends it has started
  chatCounter, \* per node, the counter of its backend
  seenOrder,   \* per node, the window: the latest numbers, oldest first
  chatNet,     \* per line and receiver, the copies left on the way, if any; they
               \* may never arrive
  linesSent,   \* number of lines sent
  heard,       \* history: per node, lines its backend has told the game, in order
  dropped      \* history: per node, lines of which its backend dropped a copy

chatVars == <<inLobby, epoch, backends, chatCounter, seenOrder, chatNet,
              linesSent, heard, dropped>>

(* A line, and the seq of ChatMsg; line n is the n-th that anybody sends.  *)
Line == 1..MaxLines
Seq64 == (1..MaxRuns) \X (1..MaxLines)
Key == Chatters \X Seq64
Copy == [to : Chatters, line : Line, key : Key, left : 1..Copies]

ChatInit ==
  /\ inLobby = [n \in Chatters |-> TRUE]
  /\ epoch = [n \in Chatters |-> 1]
  /\ backends = [n \in Chatters |-> 1]
  /\ chatCounter = [n \in Chatters |-> 0]
  /\ seenOrder = [n \in Chatters |-> << >>]
  /\ chatNet = {}
  /\ linesSent = 0
  /\ heard = [n \in Chatters |-> << >>]
  /\ dropped = [n \in Chatters |-> {}]

Range64(s) == {s[i] : i \in DOMAIN s}

---------------------------------------------------------------------------
(* SendLobbyChatMsg: members only; the counter is advanced after the lock. *)
SendLobbyChatMsg(n) ==
  /\ linesSent < MaxLines /\ inLobby[n]
  /\ linesSent' = linesSent + 1
  /\ chatCounter' = [chatCounter EXCEPT ![n] = @ + 1]
  /\ chatNet' = chatNet \cup
       [to : Chatters, line : {linesSent + 1}, left : {Copies},
        key : {<<n, <<epoch[n], chatCounter[n] + 1>>>>}]
  /\ UNCHANGED <<inLobby, epoch, backends, seenOrder, heard, dropped>>

(* ChatDuplicate: was k seen, and the window once it has been.             *)
IsDuplicate(n, k) == k \in Range64(seenOrder[n])

(* Mutant of Remember: evicts as soon as the window is full. *)
RememberTooFew(s, k) ==
  LET grown == Append(s, k) IN IF Len(grown) >= Window THEN Tail(grown) ELSE grown

Remember(s, k) ==
  LET grown == Append(s, k) IN IF Len(grown) > Window THEN Tail(grown) ELSE grown

Less(m) ==
  IF m.left = 1 THEN {}
  ELSE {[to |-> m.to, line |-> m.line, key |-> m.key, left |-> m.left - 1]}

(* HandleChatMsg, on the pump thread.                                      *)
HandleChatMsg(n) == \E m \in {c \in chatNet : c.to = n} :
  /\ chatNet' = (chatNet \ {m}) \cup Less(m)
  /\ \/ ~inLobby[n] /\ UNCHANGED <<seenOrder, heard, dropped>>
     \/ /\ inLobby[n] /\ IsDuplicate(n, m.key)
        /\ dropped' = [dropped EXCEPT ![n] = @ \cup {m.line}]
        /\ UNCHANGED <<seenOrder, heard>>
     \/ /\ inLobby[n] /\ ~IsDuplicate(n, m.key)
        /\ seenOrder' = [seenOrder EXCEPT ![n] = Remember(@, m.key)]
        /\ heard' = [heard EXCEPT ![n] = Append(@, m.line)]
        /\ UNCHANGED dropped
  /\ UNCHANGED <<inLobby, epoch, backends, chatCounter, linesSent>>

(* JoinLobby and LeaveLobby; the window stays when a member leaves.        *)
EnterOrLeave(n) ==
  /\ inLobby' = [inLobby EXCEPT ![n] = ~@]
  /\ UNCHANGED <<epoch, backends, chatCounter, seenOrder, chatNet, linesSent,
                 heard, dropped>>

(* Mutant of NewEpoch: a new process has the epoch of the old one. *)
SameEpoch(n) == epoch[n]

(* ProcessEpoch is drawn from the clock once per process, and outlives a   *)
(* Stop and EnsureStarted of the game in that process.                     *)
NewEpoch(n) == IF n \in Relaunching THEN epoch[n] + 1 ELSE epoch[n]

(* A new Impl: no lobby, an empty window, a counter of zero; what the old  *)
(* sockets had not read is gone.                                           *)
RestartBackend(n) ==
  /\ backends[n] < MaxRuns
  /\ backends' = [backends EXCEPT ![n] = @ + 1]
  /\ epoch' = [epoch EXCEPT ![n] = NewEpoch(n)]
  /\ inLobby' = [inLobby EXCEPT ![n] = FALSE]
  /\ chatCounter' = [chatCounter EXCEPT ![n] = 0]
  /\ seenOrder' = [seenOrder EXCEPT ![n] = << >>]
  /\ heard' = [heard EXCEPT ![n] = << >>]
  /\ dropped' = [dropped EXCEPT ![n] = {}]
  /\ chatNet' = {c \in chatNet : c.to /= n}
  /\ UNCHANGED linesSent

ChatNext ==
  \/ \E n \in Chatters : SendLobbyChatMsg(n) \/ HandleChatMsg(n) \/ EnterOrLeave(n)
  \/ \E n \in Restarting : RestartBackend(n)

ChatSpec == ChatInit /\ [][ChatNext]_chatVars

---------------------------------------------------------------------------
ChatTypeOK ==
  /\ inLobby \in [Chatters -> BOOLEAN]
  /\ epoch \in [Chatters -> 1..MaxRuns] /\ backends \in [Chatters -> 1..MaxRuns]
  /\ chatCounter \in [Chatters -> 0..MaxLines]
  /\ seenOrder \in [Chatters -> Seq(Key)]
  /\ chatNet \subseteq Copy
  /\ linesSent \in 0..MaxLines
  /\ heard \in [Chatters -> Seq(Line)] /\ dropped \in [Chatters -> SUBSET Line]

(* A member is told of a line once, and again only when more than Window   *)
(* other lines were told in between (ChatDuplicate, HandleChatMsg).        *)
ToldOnceInWindow == \A n \in Chatters : \A i, j \in DOMAIN heard[n] :
  (i < j /\ heard[n][i] = heard[n][j]) => j - i > Window

(* What is dropped as the copy of a line was told before: a sender that    *)
(* starts again does not use a number that a receiver may still hold       *)
(* (ProcessEpoch, ChatMsg::seq).                                           *)
OnlyCopiesDropped ==
  \A n \in Chatters : dropped[n] \subseteq Range64(heard[n])
=============================================================================
