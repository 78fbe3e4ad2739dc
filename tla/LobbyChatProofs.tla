--------------------------- MODULE LobbyChatProofs ---------------------------
(***************************************************************************)
(* Proofs about LobbyChat, for any nodes, copies, windows and restarts:    *)
(* its types, that no line is told twice within a window and, if a new     *)
(* backend always means a new process, that no line is swallowed.          *)
(***************************************************************************)
EXTENDS LobbyChat, SequenceTheorems, TLAPS

(* What a window is after one more number: its values, and where they were. *)
LEMMA RememberFacts ==
  ASSUME NEW s \in Seq(Key), NEW k \in Key
  PROVE  /\ Remember(s, k) \in Seq(Key)
         /\ Len(Remember(s, k)) = IF Len(s) + 1 > Window THEN Len(s) ELSE Len(s) + 1
         /\ \A i \in 1..Len(Remember(s, k)) :
              Remember(s, k)[i] = IF i + (Len(s) + 1 - Len(Remember(s, k))) = Len(s) + 1
                                  THEN k
                                  ELSE s[i + (Len(s) + 1 - Len(Remember(s, k)))]
         /\ Range64(Remember(s, k)) \subseteq Range64(s) \cup {k}
<1> DEFINE grown == Append(s, k)
<1>1. /\ grown \in Seq(Key) /\ Len(grown) = Len(s) + 1
      /\ \A i \in 1..Len(s) : grown[i] = s[i]
      /\ grown[Len(s) + 1] = k
  BY AppendProperties
<1>2. Len(s) \in Nat
  BY LenProperties
<1>3. grown /= << >>
  BY <1>1, <1>2, EmptySeq
<1>4. /\ Tail(grown) \in Seq(Key) /\ Len(Tail(grown)) = Len(s)
      /\ \A i \in 1..Len(s) : Tail(grown)[i] = grown[i + 1]
  BY <1>1, <1>2, <1>3, HeadTailProperties
<1>5. Remember(s, k) = IF Len(s) + 1 > Window THEN Tail(grown) ELSE grown
  BY <1>1 DEF Remember
<1> HIDE DEF grown
<1>6. /\ Remember(s, k) \in Seq(Key)
      /\ Len(Remember(s, k)) = IF Len(s) + 1 > Window THEN Len(s) ELSE Len(s) + 1
  BY <1>1, <1>4, <1>5
<1>7. \A i \in 1..Len(Remember(s, k)) :
        Remember(s, k)[i] = IF i + (Len(s) + 1 - Len(Remember(s, k))) = Len(s) + 1
                            THEN k
                            ELSE s[i + (Len(s) + 1 - Len(Remember(s, k)))]
  <2> TAKE i \in 1..Len(Remember(s, k))
  <2>1. CASE Len(s) + 1 > Window
    <3>1. Remember(s, k)[i] = grown[i + 1] /\ Len(Remember(s, k)) = Len(s)
      BY <2>1, <1>4, <1>5, <1>6
    <3> QED
      BY <3>1, <1>1, <1>2
  <2>2. CASE ~(Len(s) + 1 > Window)
    BY <2>2, <1>1, <1>2, <1>5, <1>6
  <2> QED
    BY <2>1, <2>2
<1>8. Range64(Remember(s, k)) \subseteq Range64(s) \cup {k}
  <2> SUFFICES ASSUME NEW i \in 1..Len(Remember(s, k))
               PROVE  Remember(s, k)[i] \in Range64(s) \cup {k}
    BY <1>6, LenProperties DEF Range64
  <2> DEFINE j == i + (Len(s) + 1 - Len(Remember(s, k)))
  <2>1. j \in 1..Len(s) + 1
    BY <1>2, <1>6
  <2>2. Remember(s, k)[i] = IF j = Len(s) + 1 THEN k ELSE s[j]
    BY <1>7
  <2>3. DOMAIN s = 1..Len(s)
    BY LenProperties
  <2> HIDE DEF j
  <2>4. j /= Len(s) + 1 => j \in DOMAIN s
    BY <2>1, <2>3, <1>2
  <2> QED
    BY <2>2, <2>4 DEF Range64
<1> QED
  BY <1>6, <1>7, <1>8

(* One more line heard: the lines, and their set.                          *)
LEMMA HearFacts ==
  ASSUME NEW s \in Seq(Line), NEW n \in Line
  PROVE  /\ Append(s, n) \in Seq(Line)
         /\ Len(Append(s, n)) = Len(s) + 1
         /\ \A i \in 1..Len(s) : Append(s, n)[i] = s[i]
         /\ Append(s, n)[Len(s) + 1] = n
         /\ Range64(s) \cup {n} \subseteq Range64(Append(s, n))
<1>1. /\ Append(s, n) \in Seq(Line) /\ Len(Append(s, n)) = Len(s) + 1
      /\ \A i \in 1..Len(s) : Append(s, n)[i] = s[i]
      /\ Append(s, n)[Len(s) + 1] = n
  BY AppendProperties
<1>2. /\ DOMAIN s = 1..Len(s) /\ Len(s) \in Nat
      /\ DOMAIN Append(s, n) = 1..Len(s) + 1
  BY <1>1, LenProperties
<1>3. \A i \in DOMAIN s : i \in DOMAIN Append(s, n) /\ Append(s, n)[i] = s[i]
  BY <1>1, <1>2
<1>4. Len(s) + 1 \in DOMAIN Append(s, n)
  BY <1>2
<1> QED
  BY <1>1, <1>3, <1>4 DEF Range64
---------------------------------------------------------------------------
(* What the types rest on: epochs and counters are bounded by what has     *)
(* been started and sent.                                                  *)
Counted == \A n \in Chatters : epoch[n] <= backends[n] /\ chatCounter[n] <= linesSent

(* The numbers given out by now.                                           *)
UsedIn(k, epochs, counters) ==
  /\ k[2][1] <= epochs[k[1]]
  /\ k[2][1] = epochs[k[1]] => k[2][2] <= counters[k[1]]
Used(k) == UsedIn(k, epoch, chatCounter)

NumbersUsed ==
  /\ \A c \in chatNet : Used(c.key)
  /\ \A n \in Chatters : \A k \in Range64(seenOrder[n]) : Used(k)

(* Copies of one line have one number, which no other line has.            *)
OneNumber == \A c, d \in chatNet : c.line = d.line => c.key = d.key
OneLine == \A c, d \in chatNet : c.key = d.key => c.line = d.line

(* A number in the window is that of a line that was told.                 *)
SeenTold == \A n \in Chatters : \A c \in chatNet :
  c.key \in Range64(seenOrder[n]) => c.line \in Range64(heard[n])

(* The window holds the numbers of the lines that were told last.          *)
Sent == /\ \A c \in chatNet : c.line <= linesSent
        /\ \A n \in Chatters : \A i \in 1..Len(heard[n]) : heard[n][i] <= linesSent
WindowLength == \A n \in Chatters :
  Len(seenOrder[n]) = IF Len(heard[n]) < Window THEN Len(heard[n]) ELSE Window
LastSeen == \A n \in Chatters : \A c \in chatNet : \A i \in 1..Len(seenOrder[n]) :
  heard[n][i + (Len(heard[n]) - Len(seenOrder[n]))] = c.line => seenOrder[n][i] = c.key

Types == ChatTypeOK /\ Counted

THEOREM ChatTypes == ChatSpec => []Types
<1> USE LobbyChatAssumption
<1>1. ChatInit => Types
  BY EmptySeq DEF ChatInit, Types, ChatTypeOK, Counted
<1>2. Types /\ [ChatNext]_chatVars => Types'
  <2> SUFFICES ASSUME Types, [ChatNext]_chatVars
               PROVE  Types'
    OBVIOUS
  <2> USE DEF Types, ChatTypeOK, Counted
  <2>1. ASSUME NEW n \in Chatters, SendLobbyChatMsg(n)
        PROVE  Types'
    <3>1. /\ linesSent' \in 1..MaxLines /\ chatCounter[n] + 1 \in 1..MaxLines
          /\ linesSent + 1 \in Line
      BY <2>1 DEF SendLobbyChatMsg, Line
    <3>2. \A c \in chatNet' : c \in Copy
      BY <2>1, <3>1 DEF SendLobbyChatMsg, Copy, Key, Seq64
    <3>3. /\ chatCounter' \in [Chatters -> 0..MaxLines]
          /\ \A m \in Chatters : chatCounter'[m] <= linesSent'
      BY <2>1, <3>1 DEF SendLobbyChatMsg
    <3> QED
      BY <2>1, <3>1, <3>2, <3>3 DEF SendLobbyChatMsg
  <2>2. ASSUME NEW n \in Chatters, HandleChatMsg(n)
        PROVE  Types'
    <3>1. PICK m \in {c \in chatNet : c.to = n} :
            /\ chatNet' = (chatNet \ {m}) \cup Less(m)
            /\ \/ UNCHANGED <<seenOrder, heard, dropped>>
               \/ /\ dropped' = [dropped EXCEPT ![n] = @ \cup {m.line}]
                  /\ UNCHANGED <<seenOrder, heard>>
               \/ /\ seenOrder' = [seenOrder EXCEPT ![n] = Remember(@, m.key)]
                  /\ heard' = [heard EXCEPT ![n] = Append(@, m.line)]
                  /\ UNCHANGED dropped
      BY <2>2 DEF HandleChatMsg
    <3>2. m \in Copy /\ m.key \in Key /\ m.line \in Line
      BY <3>1 DEF Copy
    <3>3. Less(m) \subseteq Copy
      BY <3>2 DEF Less, Copy
    <3>4. chatNet' \subseteq Copy
      BY <3>1, <3>3
    <3>5. Remember(seenOrder[n], m.key) \in Seq(Key)
      BY <3>2, RememberFacts
    <3>6. Append(heard[n], m.line) \in Seq(Line)
      BY <3>2, HearFacts
    <3>7. /\ seenOrder' \in [Chatters -> Seq(Key)] /\ heard' \in [Chatters -> Seq(Line)]
          /\ dropped' \in [Chatters -> SUBSET Line]
      <4> DEFINE window == Remember(seenOrder[n], m.key)
                 lines == Append(heard[n], m.line)
      <4>1. CASE UNCHANGED <<seenOrder, heard, dropped>>
        BY <4>1
      <4>2. CASE /\ dropped' = [dropped EXCEPT ![n] = @ \cup {m.line}]
                 /\ UNCHANGED <<seenOrder, heard>>
        BY <4>2, <3>2
      <4>3. CASE /\ seenOrder' = [seenOrder EXCEPT ![n] = window]
                 /\ heard' = [heard EXCEPT ![n] = lines]
                 /\ UNCHANGED dropped
        <5>1. window \in Seq(Key) /\ lines \in Seq(Line)
          BY <3>5, <3>6
        <5> HIDE DEF window, lines
        <5> QED
          BY <4>3, <5>1
      <4> QED
        BY <3>1, <4>1, <4>2, <4>3
    <3> QED
      BY <2>2, <3>4, <3>7 DEF HandleChatMsg
  <2>3. ASSUME NEW n \in Chatters, EnterOrLeave(n)
        PROVE  Types'
    BY <2>3 DEF EnterOrLeave
  <2>4. ASSUME NEW n \in Chatters, RestartBackend(n)
        PROVE  Types'
    <3>1. backends[n] + 1 \in 1..MaxRuns /\ NewEpoch(n) \in 1..MaxRuns
          /\ NewEpoch(n) <= backends[n] + 1
      BY <2>4 DEF RestartBackend, NewEpoch
    <3>2. << >> \in Seq(Key) /\ << >> \in Seq(Line)
      BY EmptySeq
    <3>3. /\ seenOrder' \in [Chatters -> Seq(Key)] /\ heard' \in [Chatters -> Seq(Line)]
          /\ dropped' \in [Chatters -> SUBSET Line] /\ chatNet' \subseteq Copy
      BY <2>4, <3>2 DEF RestartBackend
    <3>4. /\ inLobby' \in [Chatters -> BOOLEAN] /\ chatCounter' \in [Chatters -> 0..MaxLines]
          /\ backends' \in [Chatters -> 1..MaxRuns] /\ epoch' \in [Chatters -> 1..MaxRuns]
      BY <2>4, <3>1 DEF RestartBackend
    <3>5. Counted'
      BY <2>4, <3>1 DEF RestartBackend
    <3> QED
      BY <2>4, <3>3, <3>4, <3>5 DEF RestartBackend
  <2>5. CASE UNCHANGED chatVars
    BY <2>5 DEF chatVars
  <2> QED
    BY <2>1, <2>2, <2>3, <2>4, <2>5 DEF ChatNext
<1> QED
  BY <1>1, <1>2, PTL DEF ChatSpec

---------------------------------------------------------------------------
(* What HandleChatMsg leaves on the way is what was on the way.            *)
LEMMA NothingNew ==
  ASSUME Types, NEW n \in Chatters, HandleChatMsg(n)
  PROVE  \A c \in chatNet' : c \in Copy /\ \E d \in chatNet : d.key = c.key /\ d.line = c.line
<1>1. PICK m \in chatNet : chatNet' = (chatNet \ {m}) \cup Less(m)
  BY DEF HandleChatMsg
<1>2. m \in Copy
  BY DEF Types, ChatTypeOK
<1>3. \A c \in Less(m) : c \in Copy /\ c.key = m.key /\ c.line = m.line
  BY <1>2, LobbyChatAssumption DEF Less, Copy
<1> QED
  BY <1>1, <1>3 DEF Types, ChatTypeOK

(* What a receiver that is told of a line does, as facts about its         *)
(* sequences.                                                              *)
Tells(n, m) ==
  /\ ~IsDuplicate(n, m.key)
  /\ seenOrder' = [seenOrder EXCEPT ![n] = Remember(@, m.key)]
  /\ heard' = [heard EXCEPT ![n] = Append(@, m.line)]
  /\ UNCHANGED dropped

LEMMA HandleCases ==
  ASSUME NEW n \in Chatters, HandleChatMsg(n)
  PROVE  \/ UNCHANGED <<seenOrder, heard, dropped>>
         \/ \E m \in chatNet : /\ IsDuplicate(n, m.key)
                               /\ dropped' = [dropped EXCEPT ![n] = @ \cup {m.line}]
                               /\ UNCHANGED <<seenOrder, heard>>
         \/ \E m \in chatNet : Tells(n, m)
BY DEF HandleChatMsg, Tells

---------------------------------------------------------------------------
Windows == Sent /\ OneNumber /\ WindowLength /\ LastSeen /\ ToldOnceInWindow

(* Told of a line: nothing told in the last Window lines is that line, or  *)
(* its number would be in the window.                                      *)
LEMMA TellKeepsWindows ==
  ASSUME Types, Windows, NEW n \in Chatters, NEW m \in chatNet, Tells(n, m),
         Types', \A c \in chatNet' : \E d \in chatNet : d.key = c.key /\ d.line = c.line
  PROVE  WindowLength' /\ LastSeen' /\ ToldOnceInWindow'
<1> DEFINE s == seenOrder[n]
           h == heard[n]
           w == Remember(s, m.key)
           g == Append(h, m.line)
<1>1. /\ s \in Seq(Key) /\ h \in Seq(Line) /\ m.key \in Key /\ m.line \in Line
      /\ seenOrder' = [seenOrder EXCEPT ![n] = w] /\ heard' = [heard EXCEPT ![n] = g]
      /\ seenOrder'[n] = w /\ heard'[n] = g
      /\ \A k \in Chatters \ {n} : seenOrder'[k] = seenOrder[k] /\ heard'[k] = heard[k]
  BY DEF Types, ChatTypeOK, Copy, Tells
<1>2. /\ Len(w) = IF Len(s) + 1 > Window THEN Len(s) ELSE Len(s) + 1
      /\ \A i \in 1..Len(w) : w[i] = IF i + (Len(s) + 1 - Len(w)) = Len(s) + 1
                                    THEN m.key ELSE s[i + (Len(s) + 1 - Len(w))]
  BY <1>1, RememberFacts
<1>3. /\ Len(g) = Len(h) + 1 /\ g[Len(h) + 1] = m.line /\ g \in Seq(Line)
      /\ \A i \in 1..Len(h) : g[i] = h[i]
  BY <1>1, HearFacts
<1>4. Len(s) \in Nat /\ Len(h) \in Nat /\ DOMAIN s = 1..Len(s) /\ DOMAIN g = 1..Len(h) + 1
      /\ DOMAIN h = 1..Len(h)
  BY <1>1, <1>3, LenProperties
<1>5. Len(s) = IF Len(h) < Window THEN Len(h) ELSE Window
  BY DEF Windows, WindowLength
<1>6. \A c \in chatNet : \A i \in 1..Len(s) : h[i + (Len(h) - Len(s))] = c.line => s[i] = c.key
  BY DEF Windows, LastSeen
<1>7. \A i \in 1..Len(s) : s[i] /= m.key
  BY <1>4 DEF Tells, IsDuplicate, Range64
<1>8. \A c \in chatNet : c.line = m.line => c.key = m.key
  BY DEF Windows, OneNumber
<1>9. \A i, j \in 1..Len(h) : i < j /\ h[i] = h[j] => j - i > Window
  BY <1>4 DEF Windows, ToldOnceInWindow
<1>w. Window \in Nat \ {0}
  BY LobbyChatAssumption
<1> HIDE DEF s, h, w, g
<1>10. Len(w) = IF Len(h) + 1 < Window THEN Len(h) + 1 ELSE Window
  BY <1>2, <1>4, <1>5, <1>w
<1>11. \A c \in chatNet : \A i \in 1..Len(w) :
         g[i + (Len(h) + 1 - Len(w))] = c.line => w[i] = c.key
  <2> SUFFICES ASSUME NEW c \in chatNet, NEW i \in 1..Len(w),
                      g[i + (Len(h) + 1 - Len(w))] = c.line
               PROVE  w[i] = c.key
    OBVIOUS
  <2>1. CASE i = Len(w)
    <3>1. i + (Len(h) + 1 - Len(w)) = Len(h) + 1 /\ i + (Len(s) + 1 - Len(w)) = Len(s) + 1
      BY <2>1, <1>4, <1>10
    <3> QED
      BY <3>1, <1>2, <1>3, <1>8
  <2>2. CASE i /= Len(w)
    <3>a. Len(w) \in Nat
      BY <1>10, <1>4, <1>w
    <3>b. i \in Int /\ 1 <= i /\ i < Len(w)
      BY <2>2, <3>a
    <3>c. Len(w) = Len(s) \/ Len(w) = Len(s) + 1
      BY <1>2
    <3> DEFINE j == i + (Len(s) + 1 - Len(w))
    <3>1. j \in Int /\ j = i + (Len(s) + 1 - Len(w))
      BY <3>a, <3>b, <1>4
    <3> HIDE DEF j
    <3>2. j \in 1..Len(s) /\ j /= Len(s) + 1
      BY <3>a, <3>b, <3>c, <3>1, <1>4
    <3>3. w[i] = s[j]
      BY <3>1, <3>2, <1>2
    <3>4. i + (Len(h) + 1 - Len(w)) = j + (Len(h) - Len(s))
      BY <3>1, <1>2, <1>4
    <3>5. j + (Len(h) - Len(s)) \in 1..Len(h)
      BY <3>2, <1>4, <1>5, <1>w
    <3>6. h[j + (Len(h) - Len(s))] = c.line
      BY <3>4, <3>5, <1>3
    <3> QED
      BY <3>2, <3>3, <3>6, <1>6
  <2> QED
    BY <2>1, <2>2
<1>12. \A i \in 1..Len(h) : h[i] = m.line => Len(h) + 1 - i > Window
  <2> SUFFICES ASSUME NEW i \in 1..Len(h), h[i] = m.line, Len(h) + 1 - i <= Window
               PROVE  FALSE
    BY <1>4, <1>w
  <2>1. PICK j \in Int : j = i - (Len(h) - Len(s))
    BY <1>4
  <2>2. j \in 1..Len(s) /\ j + (Len(h) - Len(s)) = i
    BY <2>1, <1>4, <1>5, <1>w
  <2>3. s[j] = m.key
    BY <2>2, <1>6
  <2> QED
    BY <2>2, <2>3, <1>7
<1>13. \A i, j \in 1..Len(h) + 1 : i < j /\ g[i] = g[j] => j - i > Window
  <2> SUFFICES ASSUME NEW i \in 1..Len(h) + 1, NEW j \in 1..Len(h) + 1,
                      i < j, g[i] = g[j]
               PROVE  j - i > Window
    OBVIOUS
  <2>1. i \in 1..Len(h) /\ g[i] = h[i]
    BY <1>3, <1>4
  <2>2. CASE j = Len(h) + 1
    <3>1. h[i] = m.line
      BY <2>1, <2>2, <1>3
    <3> QED
      BY <2>1, <2>2, <3>1, <1>12
  <2>3. CASE j /= Len(h) + 1
    <3>1. j \in 1..Len(h)
      BY <2>3, <1>4
    <3> QED
      BY <3>1, <2>1, <1>3, <1>9
  <2> QED
    BY <2>2, <2>3
<1>14. WindowLength'
  BY <1>1, <1>3, <1>10 DEF Windows, WindowLength
<1>15. LastSeen'
  <2> SUFFICES ASSUME NEW k \in Chatters, NEW c \in chatNet', NEW i \in 1..Len(seenOrder'[k]),
                      heard'[k][i + (Len(heard'[k]) - Len(seenOrder'[k]))] = c.line
               PROVE  seenOrder'[k][i] = c.key
    BY DEF LastSeen
  <2>1. PICK d \in chatNet : d.key = c.key /\ d.line = c.line
    OBVIOUS
  <2>2. CASE k = n
    <3>1. seenOrder'[k] = w /\ heard'[k] = g /\ Len(heard'[k]) = Len(h) + 1
      BY <2>2, <1>1, <1>3
    <3>2. i \in 1..Len(w) /\ g[i + (Len(h) + 1 - Len(w))] = d.line
      BY <2>1, <3>1
    <3> QED
      BY <2>1, <3>1, <3>2, <1>11
  <2>3. CASE k /= n
    <3>1. seenOrder'[k] = seenOrder[k] /\ heard'[k] = heard[k]
      BY <2>3, <1>1
    <3>2. /\ i \in 1..Len(seenOrder[k])
          /\ heard[k][i + (Len(heard[k]) - Len(seenOrder[k]))] = d.line
      BY <2>1, <3>1
    <3>3. seenOrder[k][i] = d.key
      BY <3>2 DEF Windows, LastSeen
    <3> QED
      BY <2>1, <3>1, <3>3
  <2> QED
    BY <2>2, <2>3
<1>16. ToldOnceInWindow'
  <2> SUFFICES ASSUME NEW k \in Chatters, NEW i \in DOMAIN heard'[k], NEW j \in DOMAIN heard'[k],
                      i < j, heard'[k][i] = heard'[k][j]
               PROVE  j - i > Window
    BY DEF ToldOnceInWindow
  <2>1. CASE k = n
    BY <2>1, <1>1, <1>4, <1>13
  <2>2. CASE k /= n
    BY <2>2, <1>1 DEF Windows, ToldOnceInWindow
  <2> QED
    BY <2>1, <2>2
<1> QED
  BY <1>14, <1>15, <1>16

(* One more line is sent: its number n + 1 is that of no copy on the way   *)
(* and of no line that was told.                                           *)
LEMMA SendKeepsWindows ==
  ASSUME Types, Windows, NEW n \in Chatters, SendLobbyChatMsg(n)
  PROVE  Windows'
<1> DEFINE key == <<n, <<epoch[n], chatCounter[n] + 1>>>>
<1>1. /\ linesSent \in Nat /\ linesSent' = linesSent + 1
      /\ UNCHANGED <<seenOrder, heard>>
  BY DEF SendLobbyChatMsg, Types, ChatTypeOK
<1>2. \A c \in chatNet' : c \in chatNet \/ (c.line = linesSent + 1 /\ c.key = key)
  BY DEF SendLobbyChatMsg
<1> HIDE DEF key
<1>3. /\ \A c \in chatNet : c \in Copy /\ c.line \in Nat /\ c.line <= linesSent
      /\ \A k \in Chatters : \A i \in 1..Len(heard[k]) :
           heard[k][i] \in Nat /\ heard[k][i] <= linesSent
  <2>1. \A c \in chatNet : c \in Copy /\ c.line \in Nat /\ c.line <= linesSent
    BY DEF Types, ChatTypeOK, Copy, Line, Windows, Sent
  <2>2. ASSUME NEW k \in Chatters, NEW i \in 1..Len(heard[k])
        PROVE  heard[k][i] \in Nat /\ heard[k][i] <= linesSent
    <3>1. heard[k] \in Seq(Line)
      BY DEF Types, ChatTypeOK
    <3>2. heard[k][i] \in Line
      BY <3>1, ElementOfSeq
    <3> QED
      BY <3>2 DEF Line, Windows, Sent
  <2> QED
    BY <2>1, <2>2
<1>4. Sent'
  BY <1>1, <1>2, <1>3 DEF Sent
<1>5. OneNumber'
  <2> SUFFICES ASSUME NEW c \in chatNet', NEW d \in chatNet', c.line = d.line
               PROVE  c.key = d.key
    BY DEF OneNumber
  <2>1. CASE c \in chatNet /\ d \in chatNet
    BY <2>1 DEF Windows, OneNumber
  <2>2. CASE c.key = key /\ d.key = key
    BY <2>2
  <2>3. \A e \in chatNet : e.line /= linesSent + 1
    BY <1>1, <1>3
  <2> QED
    BY <1>2, <2>1, <2>2, <2>3
<1>6. WindowLength' /\ ToldOnceInWindow'
  BY <1>1 DEF Windows, WindowLength, ToldOnceInWindow
<1>7. LastSeen'
  <2> SUFFICES ASSUME NEW k \in Chatters, NEW c \in chatNet', NEW i \in 1..Len(seenOrder[k]),
                      heard[k][i + (Len(heard[k]) - Len(seenOrder[k]))] = c.line
               PROVE  seenOrder[k][i] = c.key
    BY <1>1 DEF LastSeen
  <2>1. CASE c \in chatNet
    BY <2>1 DEF Windows, LastSeen
  <2>2. CASE c.line = linesSent + 1
    <3>1. /\ Len(heard[k]) \in Nat /\ Window \in Nat
          /\ Len(seenOrder[k]) = IF Len(heard[k]) < Window THEN Len(heard[k]) ELSE Window
      BY LenProperties, LobbyChatAssumption DEF Types, ChatTypeOK, Windows, WindowLength
    <3>2. /\ Len(heard[k]) \in Nat
          /\ Len(seenOrder[k]) \in Nat /\ Len(seenOrder[k]) <= Len(heard[k])
      BY <3>1
    <3> DEFINE a == Len(heard[k])
               b == Len(seenOrder[k])
               j == i + (a - b)
    <3>3. j \in 1..a
      <4>1. i \in 1..b /\ a \in Nat /\ b \in Nat /\ b <= a
        BY <3>2
      <4> HIDE DEF a, b
      <4> QED
        BY <4>1
    <3>4. c.line <= linesSent
      BY <3>3, <1>3
    <3> QED
      BY <3>4, <2>2, <1>1
  <2> QED
    BY <1>2, <2>1, <2>2
<1> QED
  BY <1>4, <1>5, <1>6, <1>7 DEF Windows

LEMMA HandleKeepsWindows ==
  ASSUME Types, Types', Windows, NEW n \in Chatters, HandleChatMsg(n)
  PROVE  Windows'
<1>1. \A c \in chatNet' : \E d \in chatNet : d.key = c.key /\ d.line = c.line
  BY NothingNew
<1>2. linesSent' = linesSent
  BY DEF HandleChatMsg
<1>3. OneNumber'
  BY <1>1 DEF Windows, OneNumber
<1>4. ASSUME UNCHANGED <<seenOrder, heard>>
      PROVE  Windows'
  <2>1. Sent' /\ WindowLength' /\ ToldOnceInWindow'
    BY <1>1, <1>2, <1>4 DEF Windows, Sent, WindowLength, ToldOnceInWindow
  <2>2. LastSeen'
    BY <1>1, <1>4 DEF Windows, LastSeen
  <2> QED
    BY <1>3, <2>1, <2>2 DEF Windows
<1>5. ASSUME NEW m \in chatNet, Tells(n, m)
      PROVE  Windows'
  <2>1. WindowLength' /\ LastSeen' /\ ToldOnceInWindow'
    BY <1>1, <1>5, TellKeepsWindows
  <2>2. ASSUME NEW k \in Chatters, NEW i \in 1..Len(heard'[k])
        PROVE  heard'[k][i] <= linesSent
    <3>1. /\ heard[n] \in Seq(Line) /\ m.line \in Line /\ m.line <= linesSent
          /\ heard'[n] = Append(heard[n], m.line)
          /\ k /= n => heard'[k] = heard[k]
      BY <1>5 DEF Types, ChatTypeOK, Copy, Tells, Windows, Sent
    <3>2. CASE k = n
      <4>1. /\ Len(heard[n]) \in Nat /\ i \in 1..Len(heard[n]) + 1
            /\ heard'[n][Len(heard[n]) + 1] = m.line
            /\ \A j \in 1..Len(heard[n]) : heard'[n][j] = heard[n][j]
        BY <3>1, <3>2, HearFacts, LenProperties
      <4>2. CASE i = Len(heard[n]) + 1
        BY <4>1, <4>2, <3>1, <3>2
      <4>3. CASE i /= Len(heard[n]) + 1
        <5>1. i \in 1..Len(heard[n])
          BY <4>1, <4>3
        <5>2. heard[n][i] <= linesSent
          BY <5>1 DEF Windows, Sent
        <5> QED
          BY <5>1, <5>2, <4>1, <3>2
      <4> QED
        BY <4>2, <4>3
    <3>3. CASE k /= n
      BY <3>1, <3>3 DEF Windows, Sent
    <3> QED
      BY <3>2, <3>3
  <2>3. Sent'
    BY <1>1, <1>2, <2>2 DEF Windows, Sent
  <2> QED
    BY <1>3, <2>1, <2>3 DEF Windows
<1> QED
  BY <1>4, <1>5, HandleCases

LEMMA RestartKeepsWindows ==
  ASSUME Types, Windows, NEW n \in Chatters, RestartBackend(n)
  PROVE  Windows'
<1>1. /\ chatNet' \subseteq chatNet /\ linesSent' = linesSent
      /\ seenOrder'[n] = << >> /\ heard'[n] = << >>
      /\ \A k \in Chatters \ {n} : seenOrder'[k] = seenOrder[k] /\ heard'[k] = heard[k]
  BY DEF RestartBackend, Types, ChatTypeOK
<1>2. Window \in Nat \ {0} /\ Len(<< >>) = 0 /\ DOMAIN << >> = 1..0
  BY LobbyChatAssumption, EmptySeq
<1>3. Sent' /\ OneNumber'
  BY <1>1, <1>2 DEF Windows, Sent, OneNumber
<1>4. WindowLength'
  BY <1>1, <1>2 DEF Windows, WindowLength
<1>5. LastSeen'
  <2> SUFFICES ASSUME NEW k \in Chatters, NEW c \in chatNet', NEW i \in 1..Len(seenOrder'[k]),
                      heard'[k][i + (Len(heard'[k]) - Len(seenOrder'[k]))] = c.line
               PROVE  seenOrder'[k][i] = c.key
    BY DEF LastSeen
  <2>1. k /= n
    BY <1>1, <1>2
  <2>2. seenOrder'[k] = seenOrder[k] /\ heard'[k] = heard[k] /\ c \in chatNet
    BY <2>1, <1>1
  <2>3. /\ i \in 1..Len(seenOrder[k])
        /\ heard[k][i + (Len(heard[k]) - Len(seenOrder[k]))] = c.line
    BY <2>2
  <2>4. seenOrder[k][i] = c.key
    BY <2>2, <2>3 DEF Windows, LastSeen
  <2> QED
    BY <2>2, <2>4
<1>6. ToldOnceInWindow'
  <2> SUFFICES ASSUME NEW k \in Chatters, NEW i \in DOMAIN heard'[k], NEW j \in DOMAIN heard'[k],
                      i < j, heard'[k][i] = heard'[k][j]
               PROVE  j - i > Window
    BY DEF ToldOnceInWindow
  <2>1. k /= n
    BY <1>1, <1>2
  <2> QED
    BY <2>1, <1>1 DEF Windows, ToldOnceInWindow
<1> QED
  BY <1>3, <1>4, <1>5, <1>6 DEF Windows

(* No member is told of a line again before more than Window others were   *)
(* told in between (ChatDuplicate, HandleChatMsg), whatever copies arrive  *)
(* and whoever starts again.                                               *)
THEOREM ToldOnce == ChatSpec => []ToldOnceInWindow
<1>1. ChatInit => Windows
  <2>1. Len(<< >>) = 0 /\ DOMAIN << >> = 1..0 /\ Window \in Nat \ {0}
    BY LobbyChatAssumption, EmptySeq
  <2> QED
    BY <2>1 DEF ChatInit, Windows, Sent, OneNumber, WindowLength, LastSeen, ToldOnceInWindow
<1>2. Types /\ Types' /\ Windows /\ [ChatNext]_chatVars => Windows'
  <2> SUFFICES ASSUME Types, Types', Windows, [ChatNext]_chatVars
               PROVE  Windows'
    OBVIOUS
  <2>1. ASSUME NEW n \in Chatters, SendLobbyChatMsg(n)
        PROVE  Windows'
    BY <2>1, SendKeepsWindows
  <2>2. ASSUME NEW n \in Chatters, HandleChatMsg(n)
        PROVE  Windows'
    BY <2>2, HandleKeepsWindows
  <2>3. ASSUME UNCHANGED <<chatNet, linesSent, seenOrder, heard>>
        PROVE  Windows'
    BY <2>3 DEF Windows, Sent, OneNumber, WindowLength, LastSeen, ToldOnceInWindow
  <2>4. ASSUME NEW n \in Chatters, RestartBackend(n)
        PROVE  Windows'
    BY <2>4, RestartKeepsWindows
  <2> QED
    BY <2>1, <2>2, <2>3, <2>4, LobbyChatAssumption DEF ChatNext, EnterOrLeave, chatVars
<1>3. Windows => ToldOnceInWindow
  BY DEF Windows
<1> QED
  BY <1>1, <1>2, <1>3, ChatTypes, PTL DEF ChatSpec

---------------------------------------------------------------------------
Numbers == NumbersUsed /\ OneLine /\ SeenTold /\ OnlyCopiesDropped

(* A number is used by the sender that is about to give out its next one   *)
(* only if it is an earlier one.                                           *)
LEMMA SendKeepsNumbers ==
  ASSUME Types, Numbers, NEW n \in Chatters, SendLobbyChatMsg(n)
  PROVE  Numbers'
<1> DEFINE key == <<n, <<epoch[n], chatCounter[n] + 1>>>>
<1>1. /\ UNCHANGED <<epoch, seenOrder, heard, dropped>>
      /\ chatCounter[n] \in Nat /\ chatCounter'[n] = chatCounter[n] + 1
      /\ \A k \in Chatters \ {n} : chatCounter'[k] = chatCounter[k]
      /\ epoch \in [Chatters -> Nat] /\ chatCounter \in [Chatters -> Nat]
  BY DEF SendLobbyChatMsg, Types, ChatTypeOK
<1>2. \A c \in chatNet' : \/ c \in chatNet
                          \/ c.key = key /\ c.line = linesSent + 1
  BY DEF SendLobbyChatMsg
<1>3. ~Used(key) /\ UsedIn(key, epoch', chatCounter')
  <2>1. key[1] = n /\ key[2][1] = epoch[n] /\ key[2][2] = chatCounter[n] + 1
    OBVIOUS
  <2>2. epoch[n] \in Nat /\ epoch' = epoch
    BY <1>1
  <2> HIDE DEF key
  <2> QED
    BY <1>1, <2>1, <2>2 DEF Used, UsedIn
<1>4. ASSUME NEW k \in Key, Used(k)
      PROVE  UsedIn(k, epoch', chatCounter')
  <2>1. k[1] \in Chatters /\ k[2][1] \in Nat /\ k[2][2] \in Nat
    BY DEF Key, Seq64
  <2> QED
    BY <2>1, <1>1, <1>4 DEF Used, UsedIn
<1>5. /\ \A c \in chatNet : c.key \in Key /\ Used(c.key)
      /\ \A m \in Chatters : \A k \in Range64(seenOrder[m]) : k \in Key /\ Used(k)
  <2>1. \A c \in chatNet : c.key \in Key
    BY DEF Types, ChatTypeOK, Copy
  <2>2. \A m \in Chatters : \A k \in Range64(seenOrder[m]) : k \in Key
    BY ElementOfSeq, LenProperties DEF Types, ChatTypeOK, Range64
  <2> QED
    BY <2>1, <2>2 DEF Numbers, NumbersUsed
<1> HIDE DEF key
<1>6. NumbersUsed'
  <2>1. ASSUME NEW c \in chatNet'
        PROVE  UsedIn(c.key, epoch', chatCounter')
    BY <1>2, <1>3, <1>4, <1>5
  <2>2. \A m \in Chatters : \A k \in Range64(seenOrder'[m]) : UsedIn(k, epoch', chatCounter')
    BY <1>1, <1>4, <1>5
  <2> QED
    BY <2>1, <2>2 DEF NumbersUsed, Used
<1>7. OneLine'
  <2> SUFFICES ASSUME NEW c \in chatNet', NEW d \in chatNet', c.key = d.key
               PROVE  c.line = d.line
    BY DEF OneLine
  <2> QED
    BY <1>2, <1>3, <1>5 DEF Numbers, OneLine
<1>8. SeenTold'
  BY <1>1, <1>2, <1>3, <1>5 DEF Numbers, SeenTold
<1>9. OnlyCopiesDropped'
  BY <1>1 DEF Numbers, OnlyCopiesDropped
<1> QED
  BY <1>6, <1>7, <1>8, <1>9 DEF Numbers

LEMMA HandleKeepsNumbers ==
  ASSUME Types, Numbers, NEW n \in Chatters, HandleChatMsg(n)
  PROVE  Numbers'
<1>1. \A c \in chatNet' : \E d \in chatNet : d.key = c.key /\ d.line = c.line
  BY NothingNew
<1>2. UNCHANGED <<epoch, chatCounter>>
  BY DEF HandleChatMsg
<1>3. OneLine'
  BY <1>1 DEF Numbers, OneLine
<1>4. ASSUME UNCHANGED <<seenOrder, heard>>
      PROVE  NumbersUsed' /\ SeenTold'
  BY <1>1, <1>2, <1>4 DEF Numbers, NumbersUsed, SeenTold, Used, UsedIn
<1>5. ASSUME UNCHANGED <<seenOrder, heard, dropped>>
      PROVE  Numbers'
  BY <1>3, <1>4, <1>5 DEF Numbers, OnlyCopiesDropped
<1>6. ASSUME NEW m \in chatNet, IsDuplicate(n, m.key),
             dropped' = [dropped EXCEPT ![n] = @ \cup {m.line}],
             UNCHANGED <<seenOrder, heard>>
      PROVE  Numbers'
  <2>1. m.line \in Range64(heard[n])
    BY <1>6 DEF Numbers, SeenTold, IsDuplicate
  <2>2. OnlyCopiesDropped'
    BY <1>6, <2>1 DEF Numbers, OnlyCopiesDropped, Types, ChatTypeOK
  <2> QED
    BY <1>3, <1>4, <1>6, <2>2 DEF Numbers
<1>7. ASSUME NEW m \in chatNet, Tells(n, m)
      PROVE  Numbers'
  <2>1. /\ seenOrder[n] \in Seq(Key) /\ m.key \in Key
        /\ heard[n] \in Seq(Line) /\ m.line \in Line
    BY DEF Types, ChatTypeOK, Copy
  <2>2. /\ seenOrder'[n] = Remember(seenOrder[n], m.key)
        /\ heard'[n] = Append(heard[n], m.line)
        /\ \A k \in Chatters \ {n} : seenOrder'[k] = seenOrder[k] /\ heard'[k] = heard[k]
        /\ dropped' = dropped
    BY <1>7 DEF Tells, Types, ChatTypeOK
  <2>3. /\ Range64(seenOrder'[n]) \subseteq Range64(seenOrder[n]) \cup {m.key}
        /\ Range64(heard[n]) \cup {m.line} \subseteq Range64(heard'[n])
    BY <2>1, <2>2, RememberFacts, HearFacts
  <2>4. NumbersUsed'
    <3>1. \A k : UsedIn(k, epoch', chatCounter') <=> Used(k)
      BY <1>2 DEF Used, UsedIn
    <3>2. \A k \in Chatters : \A x \in Range64(seenOrder'[k]) : Used(x)
      BY <2>2, <2>3 DEF Numbers, NumbersUsed
    <3> QED
      BY <1>1, <3>1, <3>2 DEF Numbers, NumbersUsed, Used
  <2>5. SeenTold'
    <3> SUFFICES ASSUME NEW k \in Chatters, NEW c \in chatNet', c.key \in Range64(seenOrder'[k])
                 PROVE  c.line \in Range64(heard'[k])
      BY DEF SeenTold
    <3>1. PICK d \in chatNet : d.key = c.key /\ d.line = c.line
      BY <1>1
    <3>2. CASE d.key \in Range64(seenOrder[k])
      <4>1. d.line \in Range64(heard[k])
        BY <3>2 DEF Numbers, SeenTold
      <4> QED
        BY <4>1, <3>1, <2>2, <2>3
    <3>3. CASE k = n /\ d.key = m.key
      <4>1. d.line = m.line
        BY <3>3 DEF Numbers, OneLine
      <4> QED
        BY <4>1, <3>1, <3>3, <2>3
    <3> QED
      BY <3>1, <3>2, <3>3, <2>2, <2>3
  <2>6. OnlyCopiesDropped'
    BY <2>2, <2>3 DEF Numbers, OnlyCopiesDropped
  <2> QED
    BY <1>3, <2>4, <2>5, <2>6 DEF Numbers
<1> QED
  BY <1>5, <1>6, <1>7, HandleCases

(* A new process has an epoch that no number given out so far has.         *)
LEMMA RestartKeepsNumbers ==
  ASSUME Types, Numbers, NEW n \in Relaunching, n \in Chatters, RestartBackend(n)
  PROVE  Numbers'
<1>1. /\ chatNet' \subseteq chatNet /\ epoch \in [Chatters -> Nat]
      /\ epoch'[n] = epoch[n] + 1 /\ chatCounter'[n] = 0
      /\ seenOrder'[n] = << >> /\ heard'[n] = << >> /\ dropped'[n] = {}
      /\ \A k \in Chatters \ {n} :
           /\ epoch'[k] = epoch[k] /\ chatCounter'[k] = chatCounter[k]
           /\ seenOrder'[k] = seenOrder[k] /\ heard'[k] = heard[k] /\ dropped'[k] = dropped[k]
  BY DEF RestartBackend, NewEpoch, Types, ChatTypeOK
<1>2. Range64(<< >>) = {}
  BY EmptySeq DEF Range64
<1>3. /\ \A c \in chatNet' : c.key \in Key /\ Used(c.key)
      /\ \A m \in Chatters : \A k \in Range64(seenOrder'[m]) : k \in Key /\ Used(k)
  <2>1. \A c \in chatNet : c.key \in Key /\ Used(c.key)
    BY DEF Types, ChatTypeOK, Copy, Numbers, NumbersUsed
  <2>2. \A m \in Chatters : \A k \in Range64(seenOrder[m]) : k \in Key /\ Used(k)
    BY ElementOfSeq, LenProperties
       DEF Types, ChatTypeOK, Range64, Numbers, NumbersUsed
  <2> QED
    BY <2>1, <2>2, <1>1, <1>2
<1>4. ASSUME NEW k \in Key, Used(k)
      PROVE  UsedIn(k, epoch', chatCounter')
  <2>1. k[1] \in Chatters /\ k[2][1] \in Nat /\ epoch[k[1]] \in Nat
    BY <1>1 DEF Key, Seq64
  <2>2. CASE k[1] = n
    <3>1. k[2][1] <= epoch[n]
      BY <2>2, <1>4 DEF Used, UsedIn
    <3>2. epoch'[k[1]] = epoch[n] + 1
      BY <2>2, <1>1
    <3> QED
      BY <2>1, <2>2, <3>1, <3>2 DEF Used, UsedIn
  <2>3. CASE k[1] /= n
    BY <2>1, <2>3, <1>1, <1>4 DEF Used, UsedIn
  <2> QED
    BY <2>2, <2>3
<1>5. NumbersUsed'
  BY <1>3, <1>4 DEF NumbersUsed, Used
<1>6. OneLine'
  BY <1>1 DEF Numbers, OneLine
<1>7. SeenTold' /\ OnlyCopiesDropped'
  BY <1>1, <1>2 DEF Numbers, SeenTold, OnlyCopiesDropped
<1> QED
  BY <1>5, <1>6, <1>7 DEF Numbers

(* If every node that starts again is a new process, with a new epoch      *)
(* (ProcessEpoch), then a receiver only drops copies of lines that it has  *)
(* told its game of: no line is taken for an old one.                      *)
THEOREM NothingSwallowed ==
  ASSUME Restarting \subseteq Relaunching
  PROVE  ChatSpec => []OnlyCopiesDropped
<1>1. ChatInit => Numbers
  <2>1. Range64(<< >>) = {}
    BY EmptySeq DEF Range64
  <2> QED
    BY <2>1 DEF ChatInit, Numbers, NumbersUsed, UsedIn, OneLine, SeenTold, OnlyCopiesDropped
<1>2. Types /\ Numbers /\ [ChatNext]_chatVars => Numbers'
  <2> SUFFICES ASSUME Types, Numbers, [ChatNext]_chatVars
               PROVE  Numbers'
    OBVIOUS
  <2>1. ASSUME NEW n \in Chatters, SendLobbyChatMsg(n)
        PROVE  Numbers'
    BY <2>1, SendKeepsNumbers
  <2>2. ASSUME NEW n \in Chatters, HandleChatMsg(n)
        PROVE  Numbers'
    BY <2>2, HandleKeepsNumbers
  <2>3. ASSUME UNCHANGED <<epoch, chatCounter, chatNet, seenOrder, heard, dropped>>
        PROVE  Numbers'
    BY <2>3 DEF Numbers, NumbersUsed, Used, UsedIn, OneLine, SeenTold, OnlyCopiesDropped
  <2>4. ASSUME NEW n \in Restarting, RestartBackend(n)
        PROVE  Numbers'
    BY <2>4, RestartKeepsNumbers, LobbyChatAssumption
  <2> QED
    BY <2>1, <2>2, <2>3, <2>4 DEF ChatNext, EnterOrLeave, chatVars
<1>3. Numbers => OnlyCopiesDropped
  BY DEF Numbers
<1> QED
  BY <1>1, <1>2, <1>3, ChatTypes, PTL DEF ChatSpec
=============================================================================
