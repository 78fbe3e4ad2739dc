--------------------------- MODULE ServiceProofs ---------------------------
(***************************************************************************)
(* Proofs about the parts that Services puts together.  The threads        *)
(* that the library keeps: the overlay's window thread and the pumps that  *)
(* report visibility (Overlay), and the pump of the LAN backend            *)
(* (NetLifecycle), for any number of starts, stops and requests.  Then     *)
(* what a cloud file holds when its writes have returned, and that an      *)
(* enumeration misses and repeats nothing (CloudFiles), for any names,     *)
(* threads, streams and lists; and the addresses of peers (Peers).  At the *)
(* end the same, with what LobbyChatProofs and RecordProofs prove, is      *)
(* stated of the specification the run of Services checks.                 *)
(***************************************************************************)
EXTENDS Services, LobbyChatProofs, RecordProofs, FiniteSetTheorems, TLAPS

-----------------------------------------------------------------------------
(* The overlay *)

(* The types of the overlay.                                               *)
THEOREM OverlayTypes == OverlaySpec => []OverlayTypeOK
<1> USE OverlayAssumption DEF OverlayTypeOK, At, Nobody, Asker
<1>1. OverlayInit => OverlayTypeOK
  <2> SUFFICES ASSUME OverlayInit
               PROVE  OverlayTypeOK
    OBVIOUS
  <2>1. Nobody \in At
    OBVIOUS
  <2>2. setting \in [Asker -> At] /\ pumpAt \in [OverlayPumps -> At]
    <3> HIDE DEF At, Nobody, Asker
    <3> QED
      BY <2>1 DEF OverlayInit
  <2>3. /\ {wantVisible, lastUserInitiated, lastReported, running, hookActive, overlapped,
            toldActive} \subseteq BOOLEAN
        /\ asking \subseteq Asker /\ askedBefore \subseteq Asker
        /\ thread \in {"none", "starting", "drawing", "ended"}
        /\ gameAt \in {"idle", "reap", "install", "spawn", "join"}
    BY DEF OverlayInit
  <2>4. asks \in 0..MaxAsks /\ starts \in 0..MaxStarts
    BY DEF OverlayInit
  <2> QED
    BY <2>2, <2>3, <2>4
<1>2. OverlayTypeOK /\ [OverlayNext]_overlayVars => OverlayTypeOK'
  <2> SUFFICES ASSUME OverlayTypeOK, [OverlayNext]_overlayVars
               PROVE  OverlayTypeOK'
    OBVIOUS
  <2> USE DEF visibility, backend, events, askedLately
  <2>1. CASE StartOverlay
    BY <2>1 DEF StartOverlay, StartFirst
  <2>2. CASE StopOverlay
    BY <2>2 DEF StopOverlay
  <2>3. CASE GameStep
    BY <2>3 DEF GameStep, Install, Spawn, Join
  <2>4. CASE WindowStep
    BY <2>4 DEF WindowStep, SetUp, WindUp
  <2>5. ASSUME NEW a \in Asker, NEW v \in BOOLEAN, Ask(a, v)
        PROVE  OverlayTypeOK'
    BY <2>5 DEF Ask
  <2>6. ASSUME NEW a \in Asker, StoreAsker(a)
        PROVE  OverlayTypeOK'
    BY <2>6 DEF StoreAsker, AskedByUser
  <2>7. ASSUME NEW a \in Asker, StoreVisible(a)
        PROVE  OverlayTypeOK'
    BY <2>7 DEF StoreVisible
  <2>8. ASSUME NEW p \in OverlayPumps, LoadWant(p)
        PROVE  OverlayTypeOK'
    BY <2>8 DEF LoadWant
  <2>9. ASSUME NEW p \in OverlayPumps, Compare(p) \/ SetReported(p)
        PROVE  OverlayTypeOK'
    <3>1. pumpAt[p] \in At
      OBVIOUS
    <3>2. /\ pumpAt[p].value \in BOOLEAN /\ [pumpAt[p] EXCEPT !.step = "changed"] \in At
          /\ [pumpAt[p] EXCEPT !.step = "taken"] \in At /\ Nobody \in At
      BY <3>1
    <3>3. lastReported' \in BOOLEAN
      BY <2>9, <3>2 DEF Compare, SetReported
    <3>4. pumpAt' \in [OverlayPumps -> At]
      <4> HIDE DEF At, Nobody
      <4>1. CASE Compare(p)
        BY <3>2, <4>1 DEF Compare
      <4>2. CASE SetReported(p)
        BY <3>2, <4>2 DEF SetReported
      <4> QED
        BY <2>9, <4>1, <4>2
    <3> QED
      BY <2>9, <3>3, <3>4 DEF Compare, SetReported
  <2>10. ASSUME NEW p \in OverlayPumps, Report(p)
         PROVE  OverlayTypeOK'
    BY <2>10 DEF Report
  <2>11. CASE UNCHANGED overlayVars
    BY <2>11 DEF overlayVars
  <2>12. wantVisible \in BOOLEAN
    OBVIOUS
  <2> QED
    BY <2>1, <2>2, <2>3, <2>4, <2>5, <2>6, <2>7, <2>8, <2>9, <2>10, <2>11, <2>12
       DEF OverlayNext, Toggle, Hide, SetVisible, Finish, Consume
<1> QED
  BY <1>1, <1>2, PTL DEF OverlaySpec

---------------------------------------------------------------------------
(* While the game's thread is about to install, Running is clear: it was   *)
(* when Start looked, and no other thread sets it.                         *)
NotYetRunning == gameAt \in {"reap", "install"} => ~running

(* No thread is assigned over one that was not joined, which would end the *)
(* process, and a live window backend has its thread (Start, ThreadMain).  *)
THEOREM ThreadsJoined == OverlaySpec => []OneWindowThread
<1> DEFINE Inv == OneWindowThread /\ NotYetRunning
<1> USE DEF OneWindowThread, NotYetRunning
<1>1. OverlayInit => Inv
  BY DEF OverlayInit
<1>2. Inv /\ [OverlayNext]_overlayVars => Inv'
  <2> SUFFICES ASSUME Inv, [OverlayNext]_overlayVars
               PROVE  Inv'
    OBVIOUS
  <2>1. CASE StartOverlay
    BY <2>1 DEF StartOverlay, StartFirst, backend
  <2>2. CASE StopOverlay
    BY <2>2 DEF StopOverlay
  <2>3. CASE Install
    BY <2>3 DEF Install
  <2>4. CASE Spawn
    BY <2>4 DEF Spawn
  <2>5. CASE Join
    BY <2>5 DEF Join
  <2>6. CASE SetUp
    BY <2>6 DEF SetUp
  <2>7. CASE WindUp
    BY <2>7 DEF WindUp
  <2>8. CASE UNCHANGED <<running, thread, gameAt>>
    BY <2>8
  <2>9. \/ StartOverlay \/ StopOverlay \/ GameStep \/ WindowStep
        \/ UNCHANGED <<running, thread, gameAt>>
    BY DEF OverlayNext, Toggle, Hide, SetVisible, Ask, Finish, StoreAsker, StoreVisible,
           Consume, LoadWant, Compare, SetReported, Report, backend, overlayVars
  <2> QED
    BY <2>1, <2>2, <2>3, <2>4, <2>5, <2>6, <2>7, <2>8, <2>9 DEF GameStep, WindowStep
<1>3. Inv => OneWindowThread
  OBVIOUS
<1> QED
  BY <1>1, <1>2, <1>3, PTL DEF OverlaySpec

---------------------------------------------------------------------------
(* Who has an ask under way is in asking, and is alone.  The store of who  *)
(* asks comes before the store of what, so while the pump has not seen a   *)
(* change, LastUserInitiated is from an ask of this look or of the one     *)
(* before it.                                                              *)
UnderWay == \A a \in Asker : setting[a] /= Nobody => a \in asking
OneAsks == \A a, b \in Asker : setting[a] /= Nobody /\ setting[b] /= Nobody => a = b
NameStored == \A a \in Asker : setting[a].step = "recorded" => Named = a
NamedWhenSeen(p) ==
  /\ pumpAt[p].step = "idle" /\ wantVisible /= lastReported => Named \in asking
  /\ pumpAt[p].step /= "idle" /\ wantVisible /= pumpAt[p].value => Named \in asking
  /\ \/ pumpAt[p].step \in {"changed", "taken"}
     \/ pumpAt[p].step = "loaded" /\ pumpAt[p].value /= lastReported
     => Named \in asking \cup askedBefore
  /\ pumpAt[p].step = "taken" => pumpAt[p].value = lastReported

(* With one pump an event names one whose ask was under way since the pump *)
(* looked before, as long as no two asks overlap (SetWantVisible,          *)
(* ConsumeVisibilityChange).                                               *)
THEOREM OnePumpNamesAsker ==
  ASSUME NEW p, OverlayPumps = {p}
  PROVE  OverlaySpec => EventNamesAsker
<1> DEFINE Alone == OneAsks /\ NameStored /\ NamedWhenSeen(p)
           Inv == UnderWay /\ (~overlapped => Alone)
<1>1. OverlayInit => Inv
  <2> SUFFICES ASSUME OverlayInit
               PROVE  Inv
    OBVIOUS
  <2>1. /\ pumpAt[p] = Nobody /\ wantVisible = lastReported
        /\ \A a \in Asker : setting[a] = Nobody
    BY DEF OverlayInit
  <2> QED
    BY <2>1 DEF UnderWay, OneAsks, NameStored, NamedWhenSeen, Nobody
<1>2. OverlayTypeOK /\ Inv /\ [OverlayNext]_overlayVars => Inv'
  <2> SUFFICES ASSUME OverlayTypeOK, Inv, [OverlayNext]_overlayVars
               PROVE  Inv'
    OBVIOUS
  <2>1. /\ pumpAt \in [{p} -> At] /\ setting \in [Asker -> At] /\ pumpAt[p] \in At
        /\ lastUserInitiated \in BOOLEAN
    BY DEF OverlayTypeOK
  <2>2. Nobody.step = "idle"
    BY DEF Nobody
  <2>3. ASSUME NEW a \in Asker, NEW v \in BOOLEAN, Ask(a, v)
        PROVE  Inv'
    <3>1. /\ setting[a] = Nobody /\ asking' = asking \cup {a}
          /\ setting'[a].step = "asked" /\ \A b \in Asker \ {a} : setting'[b] = setting[b]
          /\ ~overlapped' => ~overlapped /\ \A b \in Asker \ {a} : setting[b] = Nobody
          /\ UNCHANGED <<wantVisible, lastUserInitiated, lastReported, pumpAt, askedBefore>>
      BY <2>1, <2>3 DEF Ask, visibility
    <3>2. UnderWay'
      BY <3>1 DEF UnderWay
    <3>3. ~overlapped' => OneAsks' /\ NameStored'
      BY <3>1, <2>2 DEF OneAsks, NameStored, Named
    <3>4. ~overlapped' => NamedWhenSeen(p)'
      BY <3>1 DEF NamedWhenSeen, Named
    <3> QED
      BY <3>2, <3>3, <3>4
  <2>4. ASSUME NEW a \in Asker, StoreAsker(a)
        PROVE  Inv'
    <3>1. /\ setting[a].step = "asked" /\ Named' = a
          /\ setting'[a].step = "recorded" /\ \A b \in Asker \ {a} : setting'[b] = setting[b]
          /\ UNCHANGED <<wantVisible, lastReported, pumpAt, asking, askedBefore, overlapped>>
      BY <2>1, <2>4 DEF StoreAsker, AskedByUser, Named, Asker, At, events, askedLately
    <3>2. setting[a] /= Nobody /\ a \in asking
      BY <2>2, <3>1 DEF UnderWay
    <3>3. UnderWay'
      BY <3>1, <3>2 DEF UnderWay
    <3>4. ~overlapped' => OneAsks' /\ NameStored'
      BY <2>2, <3>1, <3>2 DEF OneAsks, NameStored
    <3>5. ~overlapped' => NamedWhenSeen(p)'
      BY <3>1, <3>2 DEF NamedWhenSeen
    <3> QED
      BY <3>3, <3>4, <3>5
  <2>5. ASSUME NEW a \in Asker, StoreVisible(a)
        PROVE  Inv'
    <3>1. /\ setting[a].step = "recorded" /\ setting'[a] = Nobody
          /\ \A b \in Asker \ {a} : setting'[b] = setting[b]
          /\ UNCHANGED <<lastUserInitiated, lastReported, pumpAt, asking, askedBefore, overlapped>>
      BY <2>1, <2>5 DEF StoreVisible, events, askedLately
    <3>2. a \in asking /\ (~overlapped => Named = a)
      BY <2>2, <3>1 DEF UnderWay, NameStored
    <3>3. UnderWay' /\ (~overlapped' => OneAsks' /\ NameStored')
      BY <2>2, <3>1 DEF UnderWay, OneAsks, NameStored, Named
    <3>4. ~overlapped' => NamedWhenSeen(p)'
      BY <3>1, <3>2 DEF NamedWhenSeen, Named
    <3> QED
      BY <3>3, <3>4
  <2>6. CASE LoadWant(p)
    <3>1. /\ pumpAt[p].step = "idle"
          /\ pumpAt'[p].step = "loaded" /\ pumpAt'[p].value = wantVisible
          /\ askedBefore' = asking /\ asking' = {a \in Asker : setting[a] /= Nobody}
          /\ UNCHANGED <<wantVisible, lastUserInitiated, lastReported, setting, overlapped>>
      BY <2>1, <2>6 DEF LoadWant, visibility
    <3> QED
      BY <3>1 DEF UnderWay, OneAsks, NameStored, NamedWhenSeen, Named
  <2>7. CASE Compare(p) \/ SetReported(p) \/ Report(p)
    <3>1. UNCHANGED <<wantVisible, lastUserInitiated, setting, asking, askedBefore, overlapped>>
      BY <2>7 DEF Compare, SetReported, Report, visibility, events, askedLately
    <3>2. UnderWay' /\ (~overlapped' => OneAsks' /\ NameStored')
      BY <3>1 DEF UnderWay, OneAsks, NameStored, Named
    <3>3. CASE Compare(p)
      <4>1. /\ pumpAt[p].step = "loaded" /\ UNCHANGED lastReported
            /\ \/ /\ pumpAt[p].value /= lastReported
                  /\ pumpAt'[p].step = "changed" /\ pumpAt'[p].value = pumpAt[p].value
               \/ pumpAt[p].value = lastReported /\ pumpAt'[p].step = "idle"
        BY <2>1, <2>2, <3>3 DEF Compare, Changed, At
      <4> QED
        BY <3>1, <3>2, <4>1 DEF NamedWhenSeen, Named
    <3>4. CASE SetReported(p)
      <4>1. /\ pumpAt[p].step = "changed" /\ lastReported' = pumpAt[p].value
            /\ pumpAt'[p].step = "taken" /\ pumpAt'[p].value = pumpAt[p].value
        BY <2>1, <3>4 DEF SetReported, At
      <4> QED
        BY <3>1, <3>2, <4>1 DEF NamedWhenSeen, Named
    <3>5. CASE Report(p)
      <4>1. pumpAt[p].step = "taken" /\ UNCHANGED lastReported /\ pumpAt'[p].step = "idle"
        BY <2>1, <2>2, <3>5 DEF Report
      <4> QED
        BY <3>1, <3>2, <4>1 DEF NamedWhenSeen, Named
    <3> QED
      BY <2>7, <3>3, <3>4, <3>5
  <2>8. CASE UNCHANGED <<wantVisible, lastUserInitiated, lastReported, setting, pumpAt,
                         asking, askedBefore, overlapped>>
    BY <2>8 DEF UnderWay, OneAsks, NameStored, NamedWhenSeen, Named
  <2>9. \/ \E a \in Asker : StoreAsker(a) \/ StoreVisible(a) \/ \E v \in BOOLEAN : Ask(a, v)
        \/ LoadWant(p) \/ Compare(p) \/ SetReported(p) \/ Report(p)
        \/ UNCHANGED <<wantVisible, lastUserInitiated, lastReported, setting, pumpAt,
                       asking, askedBefore, overlapped>>
    <3>1. wantVisible \in BOOLEAN
      BY DEF OverlayTypeOK
    <3> QED
      BY <3>1 DEF OverlayNext, StartOverlay, StopOverlay, GameStep, Install, Spawn, Join,
             WindowStep, SetUp, WindUp, Toggle, Hide, SetVisible, Finish, Asker,
             Consume, visibility, events, askedLately, overlayVars
  <2> QED
    BY <2>3, <2>4, <2>5, <2>6, <2>7, <2>8, <2>9
<1>3. Inv => [NamesAsker]_overlayVars
  BY DEF Report, NamedWhenSeen, NamesAsker
<1> QED
  BY <1>1, <1>2, <1>3, OverlayTypes, PTL DEF OverlaySpec, EventNamesAsker

---------------------------------------------------------------------------
(* A thread that has tested m_impl, or is inside, has a backend under it:  *)
(* nobody takes m_impl away meanwhile, and nobody replaces it.             *)
TestedHolds == \A t \in Callers : callerAt[t] = "tested" => mImpl /= NoImpl
InsideHolds == \A t \in Callers :
  callerAt[t] = "inside" => mImpl /= NoImpl /\ callerImpl[t] = mImpl

(* The types of the backend's life, whatever overlaps.                     *)
THEOREM LifeTypes == LifeSpec => []LifeTypeOK
<1> USE NetLifecycleAssumption DEF LifeTypeOK, Impl
<1>1. LifeInit => LifeTypeOK
  <2> SUFFICES ASSUME LifeInit
               PROVE  LifeTypeOK
    OBVIOUS
  <2>1. /\ callerAt \in [Callers -> {"out", "started", "tested", "inside", "waiting"}]
        /\ callerImpl \in [Callers -> Impl \cup {NoImpl}]
    BY DEF LifeInit
  <2>2. /\ mImpl \in Impl \cup {NoImpl} /\ implCount \in 0..MaxImpls
        /\ implRunning \subseteq 1..implCount /\ pumping \subseteq 1..implCount
        /\ stops \in 0..MaxStops
    BY DEF LifeInit
  <2>3. freedUsed \in BOOLEAN
    BY DEF LifeInit
  <2> QED
    BY <2>1, <2>2, <2>3
<1>2. LifeTypeOK /\ [LifeNext]_lifeVars => LifeTypeOK'
  <2> SUFFICES ASSUME LifeTypeOK, [LifeNext]_lifeVars
               PROVE  LifeTypeOK'
    OBVIOUS
  <2>1. ASSUME NEW t \in Callers, EnsureStarted(t)
        PROVE  LifeTypeOK'
    <3>1. CASE UNCHANGED <<mImpl, implRunning, pumping, implCount>>
      BY <2>1, <3>1 DEF EnsureStarted
    <3>2. CASE /\ implCount < MaxImpls
               /\ implCount' = implCount + 1 /\ mImpl' = implCount + 1
               /\ implRunning' = implRunning \cup {implCount + 1}
               /\ pumping' = pumping \cup {implCount + 1}
      <4>1. implCount + 1 \in 1..MaxImpls /\ implCount \in Nat
        BY <3>2
      <4>2. /\ implRunning' \subseteq 1..implCount + 1
            /\ pumping' \subseteq 1..implCount + 1
        BY <3>2, <4>1
      <4> QED
        BY <2>1, <3>2, <4>1, <4>2 DEF EnsureStarted
    <3> QED
      BY <2>1, <3>1, <3>2 DEF EnsureStarted
  <2>2. ASSUME NEW t \in Callers, Test(t)
        PROVE  LifeTypeOK'
    BY <2>2 DEF Test
  <2>3. ASSUME NEW t \in Callers, Enter(t)
        PROVE  LifeTypeOK'
    BY <2>3 DEF Enter
  <2>4. ASSUME NEW t \in Callers, Leave(t)
        PROVE  LifeTypeOK'
    BY <2>4 DEF Leave
  <2>5. ASSUME NEW t \in Callers, StopBackend(t)
        PROVE  LifeTypeOK'
    BY <2>5 DEF StopBackend, AskedToEnd
  <2>6. ASSUME NEW t \in Callers, StopReturns(t)
        PROVE  LifeTypeOK'
    BY <2>6 DEF StopReturns
  <2>7. ASSUME NEW i \in Impl, PumpImpl(i)
        PROVE  LifeTypeOK'
    BY <2>7 DEF PumpImpl
  <2>8. CASE UNCHANGED lifeVars
    BY <2>8 DEF lifeVars
  <2> QED
    BY <2>1, <2>2, <2>3, <2>4, <2>5, <2>6, <2>7, <2>8 DEF LifeNext, CallerStep
<1> QED
  BY <1>1, <1>2, PTL DEF LifeSpec

(* A game that does not call while it shuts down never makes a call or a   *)
(* pump use an Impl that is gone (EnsureStarted, Stop, PumpThread).        *)
THEOREM OutlivesUsers ==
  ASSUME CallsDuringStop = FALSE
  PROVE  LifeSpec => []BackendOutlivesUsers
<1> USE NetLifecycleAssumption
<1> DEFINE Inv == TestedHolds /\ InsideHolds /\ ~freedUsed
<1>1. LifeInit => Inv
  BY DEF LifeInit, TestedHolds, InsideHolds
<1>2. LifeTypeOK /\ LifeTypeOK' /\ Inv /\ [LifeNext]_lifeVars => Inv'
  <2> SUFFICES ASSUME LifeTypeOK, LifeTypeOK', Inv, [LifeNext]_lifeVars
               PROVE  Inv'
    OBVIOUS
  <2> USE DEF LifeTypeOK, TestedHolds, InsideHolds
  <2>1. ASSUME NEW t \in Callers, EnsureStarted(t)
        PROVE  Inv'
    <3>1. /\ callerAt' = [callerAt EXCEPT ![t] = "started"]
          /\ UNCHANGED <<callerImpl, freedUsed>>
      BY <2>1 DEF EnsureStarted
    <3>2. mImpl' = mImpl \/ mImpl = NoImpl
      BY <2>1 DEF EnsureStarted
    <3> QED
      BY <3>1, <3>2
  <2>2. ASSUME NEW t \in Callers, Test(t)
        PROVE  Inv'
    BY <2>2 DEF Test
  <2>3. ASSUME NEW t \in Callers, Enter(t)
        PROVE  Inv'
    BY <2>3 DEF Enter
  <2>4. ASSUME NEW t \in Callers, Leave(t)
        PROVE  Inv'
    <3>1. callerImpl[t] = mImpl /\ mImpl \in Impl
      BY <2>4 DEF Leave
    <3>2. Alive(mImpl)
      BY DEF Alive
    <3> QED
      BY <2>4, <3>1, <3>2 DEF Leave
  <2>5. ASSUME NEW t \in Callers, StopBackend(t)
        PROVE  Inv'
    BY <2>5 DEF StopBackend
  <2>6. ASSUME NEW t \in Callers, StopReturns(t)
        PROVE  Inv'
    BY <2>6 DEF StopReturns
  <2>7. ASSUME NEW i \in Impl, PumpImpl(i)
        PROVE  Inv'
    <3>1. Alive(i)
      BY <2>7 DEF PumpImpl, Alive, PumpOwns
    <3> QED
      BY <2>7, <3>1 DEF PumpImpl
  <2>8. CASE UNCHANGED lifeVars
    BY <2>8 DEF lifeVars
  <2> QED
    BY <2>1, <2>2, <2>3, <2>4, <2>5, <2>6, <2>7, <2>8 DEF LifeNext, CallerStep
<1>3. Inv => BackendOutlivesUsers
  BY DEF BackendOutlivesUsers
<1> QED
  BY <1>1, <1>2, <1>3, LifeTypes, PTL DEF LifeSpec

-----------------------------------------------------------------------------
(* Cloud files *)

Blocks == Seq(1..MaxChunks)
Content == Blocks \cup {Absent}
Writing == [by : Workers, path : Path, data : Blocks, meant : Content]
Stream == [name : CloudNames, data : Blocks, live : BOOLEAN]

(* The types of the files and the streams.                                 *)
FileTypes ==
  /\ disk \in [Path -> Content] /\ intended \in [Path -> Content]
  /\ open \subseteq Writing
  /\ streams \in Seq(Stream) /\ nextStream = Len(streams) + 1
  /\ mixed \subseteq Path /\ chunks \in 0..MaxChunks

(* A live stream is one that the game has not closed, so a write leaves    *)
(* what it means to; the only write to a file finds it empty.              *)
LiveStreams ==
  /\ alive \subseteq DOMAIN streams
  /\ \A h \in DOMAIN streams : streams[h].live => h \in alive
WritesMeant == \A w \in open : w.data = w.meant
OnlyWriter == \A w \in open : w.path \notin mixed =>
  /\ disk[w.path] = << >>
  /\ \A v \in open : v.path = w.path => v = w

Files == FileTypes /\ LiveStreams /\ WritesMeant /\ OnlyWriter /\ FileIsLastWrite

LEMMA PathsNormal ==
  ASSUME NEW n \in CloudNames
  PROVE  PathOf[n] \in Path
BY DEF Path

(* A write begins: the file is empty, and if it was busy before it is      *)
(* counted as mixed.                                                       *)
LEMMA WriteBegins ==
  ASSUME Files, NEW t \in Workers, NEW n \in CloudNames, NEW data \in Blocks,
         Write(t, n, data, data), intended' = intended
  PROVE  /\ disk' \in [Path -> Content] /\ open' \subseteq Writing /\ mixed' \subseteq Path
         /\ WritesMeant' /\ OnlyWriter' /\ FileIsLastWrite'
<1> DEFINE p == PathOf[n]
           new == [by |-> t, path |-> p, data |-> data, meant |-> data]
<1>1. p \in Path
  BY PathsNormal
<1>2. /\ disk' = [disk EXCEPT ![p] = << >>] /\ open' = open \cup {new}
      /\ mixed' = IF Busy(p) THEN mixed \cup {p} ELSE mixed
  BY DEF Write
<1>3. new \in Writing /\ new.path = p /\ new.data = new.meant
  BY <1>1 DEF Writing, Content
<1>4. /\ << >> \in Content /\ disk \in [Path -> Content] /\ open \subseteq Writing
      /\ mixed \subseteq Path
  BY DEF Content, Blocks, Files, FileTypes
<1> HIDE DEF p, new
<1>5. /\ disk' \in [Path -> Content] /\ disk'[p] = << >>
      /\ \A q \in Path \ {p} : disk'[q] = disk[q]
  BY <1>1, <1>2, <1>4
<1>6. open' \subseteq Writing /\ mixed' \subseteq Path
  BY <1>1, <1>2, <1>3, <1>4
<1>7. WritesMeant'
  BY <1>2, <1>3 DEF Files, WritesMeant
<1>8. OnlyWriter'
  <2> SUFFICES ASSUME NEW w \in open', w.path \notin mixed'
               PROVE  /\ disk'[w.path] = << >>
                      /\ \A v \in open' : v.path = w.path => v = w
    BY DEF OnlyWriter
  <2>1. CASE w = new
    <3>1. ~Busy(p)
      BY <1>2, <1>3, <2>1
    <3> QED
      BY <3>1, <1>2, <1>3, <1>5, <2>1 DEF Busy
  <2>2. CASE w /= new
    <3>1. w \in open /\ w.path \in Path /\ w.path \notin mixed
      BY <1>2, <1>4, <2>2 DEF Writing
    <3>2. w.path /= p
      BY <1>2, <3>1 DEF Busy
    <3> QED
      BY <3>1, <3>2, <1>2, <1>3, <1>5 DEF Files, OnlyWriter
  <2> QED
    BY <2>1, <2>2
<1>9. FileIsLastWrite'
  <2> SUFFICES ASSUME NEW q \in Path, ~Busy(q)', q \notin mixed'
               PROVE  disk'[q] = intended[q]
    BY DEF FileIsLastWrite
  <2>1. q /= p /\ ~Busy(q) /\ q \notin mixed
    BY <1>2, <1>3 DEF Busy
  <2> QED
    BY <2>1, <1>5 DEF Files, FileIsLastWrite
<1> QED
  BY <1>5, <1>6, <1>7, <1>8, <1>9

(* A part of some data is data.                                            *)
LEMMA PartOfData ==
  ASSUME NEW data \in Blocks, NEW i \in Nat \ {0}, NEW j \in Nat, j <= Len(data)
  PROVE  SubSeq(data, i, j) \in Blocks
<1> DEFINE T == 1..MaxChunks
<1>1. data \in Seq(T)
  BY DEF Blocks
<1> HIDE DEF T
<1>2. SubSeq(data, i, j) \in Seq(T)
  BY <1>1
<1> QED
  BY <1>2 DEF Blocks, T

(* What the only writer of a file has written is the whole of it.          *)
LEMMA WholeData ==
  ASSUME NEW data \in Blocks
  PROVE  data \o SubSeq(<< >>, Len(data) + 1, Len(<< >>)) = data
<1>1. Len(data) \in Nat /\ Len(<< >>) = 0
  BY DEF Blocks
<1>2. SubSeq(<< >>, Len(data) + 1, Len(<< >>)) = << >>
  BY <1>1
<1> QED
  BY <1>2 DEF Blocks

LEMMA FinishKeepsFiles ==
  ASSUME Files, NEW t \in Workers, FinishWrite(t)
  PROVE  Files'
<1>1. PICK w \in open :
        /\ open' = open \ {w}
        /\ disk' = [disk EXCEPT ![w.path] =
                      IF @ = Absent THEN @
                      ELSE w.data \o SubSeq(@, Len(w.data) + 1, Len(@))]
        /\ intended' = [intended EXCEPT ![w.path] = w.meant]
        /\ UNCHANGED <<streams, nextStream, alive, mixed, chunks>>
  BY DEF FinishWrite
<1> DEFINE p == w.path
           after == IF disk[p] = Absent THEN disk[p]
                    ELSE w.data \o SubSeq(disk[p], Len(w.data) + 1, Len(disk[p]))
<1>2. /\ p \in Path /\ w.data \in Blocks /\ w.meant \in Content /\ w.data = w.meant
      /\ disk \in [Path -> Content] /\ intended \in [Path -> Content]
      /\ disk' = [disk EXCEPT ![p] = after]
  BY <1>1 DEF Files, FileTypes, Writing, WritesMeant
<1>3. after \in Content
  <2>1. CASE disk[p] = Absent
    BY <2>1 DEF Content
  <2>2. CASE disk[p] /= Absent
    <3>1. disk[p] \in Blocks
      BY <1>2, <2>2 DEF Content
    <3>2. SubSeq(disk[p], Len(w.data) + 1, Len(disk[p])) \in Blocks
      <4>1. Len(w.data) + 1 \in Nat \ {0} /\ Len(disk[p]) \in Nat /\ Len(disk[p]) <= Len(disk[p])
        BY <1>2, <3>1 DEF Blocks
      <4> HIDE DEF p
      <4> QED
        BY <3>1, <4>1, PartOfData
    <3>3. after = w.data \o SubSeq(disk[p], Len(w.data) + 1, Len(disk[p]))
      BY <2>2
    <3> HIDE DEF after, p
    <3>4. after \in Seq(1..MaxChunks)
      BY <1>2, <3>2, <3>3 DEF Blocks
    <3> QED
      BY <3>4 DEF Blocks, Content
  <2> QED
    BY <2>1, <2>2
<1>4. p \notin mixed => after = w.data
  <2> SUFFICES ASSUME p \notin mixed
               PROVE  after = w.data
    OBVIOUS
  <2>1. disk[p] = << >>
    BY DEF Files, OnlyWriter
  <2> QED
    BY <2>1, <1>2, WholeData, CloudFilesAssumption
<1> HIDE DEF p, after
<1>5. /\ disk' \in [Path -> Content] /\ disk'[p] = after
      /\ intended' \in [Path -> Content] /\ intended'[p] = w.data
      /\ \A q \in Path \ {p} : disk'[q] = disk[q] /\ intended'[q] = intended[q]
  BY <1>1, <1>2, <1>3 DEF p
<1>6. FileTypes' /\ LiveStreams' /\ WritesMeant'
  BY <1>1, <1>5 DEF Files, FileTypes, LiveStreams, WritesMeant
<1>7. OnlyWriter'
  <2> SUFFICES ASSUME NEW v \in open', v.path \notin mixed
               PROVE  /\ disk'[v.path] = << >>
                      /\ \A x \in open' : x.path = v.path => x = v
    BY <1>1 DEF OnlyWriter
  <2>1. v \in open /\ v /= w /\ v.path \in Path
    BY <1>1 DEF Files, FileTypes, Writing
  <2>2. v.path /= p
    BY <2>1 DEF Files, OnlyWriter, p
  <2> QED
    BY <2>1, <2>2, <1>1, <1>5 DEF Files, OnlyWriter
<1>8. FileIsLastWrite'
  <2> SUFFICES ASSUME NEW q \in Path, ~Busy(q)', q \notin mixed
               PROVE  disk'[q] = intended'[q]
    BY <1>1 DEF FileIsLastWrite
  <2>1. CASE q = p
    BY <2>1, <1>4, <1>5
  <2>2. CASE q /= p
    <3>1. ~Busy(q)
      BY <2>2, <1>1 DEF Busy, p
    <3> QED
      BY <2>2, <3>1, <1>5 DEF Files, FileIsLastWrite
  <2> QED
    BY <2>1, <2>2
<1> QED
  BY <1>6, <1>7, <1>8 DEF Files

LEMMA DeleteKeepsFiles ==
  ASSUME Files, NEW t \in Workers, NEW n \in CloudNames, FileDelete(t, n)
  PROVE  Files'
<1> DEFINE p == PathOf[n]
<1>1. /\ disk' = [disk EXCEPT ![p] = Absent] /\ intended' = [intended EXCEPT ![p] = Absent]
      /\ mixed' = IF Busy(p) THEN mixed \cup {p} ELSE mixed
      /\ UNCHANGED <<open, streams, nextStream, alive, chunks>>
  BY DEF FileDelete
<1>2. p \in Path /\ Absent \in Content
  BY PathsNormal DEF Content
<1> HIDE DEF p
<1>3. /\ disk' \in [Path -> Content] /\ intended' \in [Path -> Content]
      /\ disk'[p] = Absent /\ intended'[p] = Absent
      /\ \A q \in Path \ {p} : disk'[q] = disk[q] /\ intended'[q] = intended[q]
  BY <1>1, <1>2 DEF Files, FileTypes
<1>4. FileTypes' /\ LiveStreams' /\ WritesMeant'
  BY <1>1, <1>2, <1>3 DEF Files, FileTypes, LiveStreams, WritesMeant
<1>5. OnlyWriter'
  <2> SUFFICES ASSUME NEW w \in open, w.path \notin mixed'
               PROVE  /\ disk'[w.path] = << >>
                      /\ \A v \in open : v.path = w.path => v = w
    BY <1>1 DEF OnlyWriter
  <2>1. w.path /= p /\ w.path \in Path /\ w.path \notin mixed
    BY <1>1 DEF Busy, Files, FileTypes, Writing
  <2> QED
    BY <2>1, <1>3 DEF Files, OnlyWriter
<1>6. FileIsLastWrite'
  <2> SUFFICES ASSUME NEW q \in Path, ~Busy(q), q \notin mixed'
               PROVE  disk'[q] = intended'[q]
    BY <1>1 DEF FileIsLastWrite, Busy
  <2> QED
    BY <1>1, <1>3 DEF Files, FileIsLastWrite
<1> QED
  BY <1>4, <1>5, <1>6 DEF Files

LEMMA StreamsKeepFiles ==
  ASSUME Files, NEW t \in Workers,
         \/ \E n \in CloudNames : StreamOpen(t, n)
         \/ \E h \in DOMAIN streams : StreamWrite(t, h) \/ StreamCancel(t, h)
  PROVE  Files'
<1> DEFINE s == streams
<1>1. UNCHANGED <<disk, open, intended, mixed>>
  BY DEF StreamOpen, StreamWrite, StreamCancel
<1>2. s \in Seq(Stream) /\ Len(s) \in Nat /\ DOMAIN s = 1..Len(s) /\ chunks \in 0..MaxChunks
      /\ nextStream = Len(s) + 1
  BY DEF Files, FileTypes
<1> DEFINE Kept == /\ streams' \in Seq(Stream) /\ nextStream' = Len(streams') + 1
                   /\ chunks' \in 0..MaxChunks /\ LiveStreams'
<1>3. Kept
  <2>1. ASSUME NEW n \in CloudNames, StreamOpen(t, n)
        PROVE  Kept
    <3> DEFINE new == [name |-> n, data |-> << >>, live |-> TRUE]
    <3>1. /\ streams' = Append(s, new) /\ nextStream' = nextStream + 1
          /\ alive' = alive \cup {nextStream} /\ chunks' = chunks
      BY <2>1 DEF StreamOpen
    <3>2. new \in Stream
      BY DEF Stream, Blocks
    <3> HIDE DEF new, s
    <3>3. /\ streams' \in Seq(Stream) /\ Len(streams') = Len(s) + 1
          /\ DOMAIN streams' = 1..Len(s) + 1
          /\ \A h \in 1..Len(s) : streams'[h] = s[h]
      BY <1>2, <3>1, <3>2
    <3>4. \A h \in DOMAIN streams' : h = nextStream \/ h \in DOMAIN s
      BY <1>2, <3>3
    <3>5. LiveStreams'
      BY <1>2, <3>1, <3>3, <3>4 DEF Files, LiveStreams, s
    <3> QED
      BY <1>2, <3>1, <3>3, <3>5
  <2>2. ASSUME NEW h \in DOMAIN s, StreamWrite(t, h)
        PROVE  Kept
    <3> DEFINE grown == [s[h] EXCEPT !.data = Append(@, chunks + 1)]
    <3>1. /\ streams' = [s EXCEPT ![h] = grown]
          /\ UNCHANGED <<nextStream, alive>> /\ chunks < MaxChunks /\ chunks' = chunks + 1
      BY <2>2 DEF StreamWrite
    <3>5. chunks + 1 \in 1..MaxChunks /\ chunks' \in 0..MaxChunks
      BY <1>2, <3>1, CloudFilesAssumption
    <3>2. s[h] \in Stream
      BY <1>2
    <3>3. grown \in Stream /\ grown.live = s[h].live
      <4>1. s[h].data \in Seq(1..MaxChunks)
        BY <3>2 DEF Stream, Blocks
      <4>2. Append(s[h].data, chunks + 1) \in Seq(1..MaxChunks)
        BY <3>5, <4>1
      <4> HIDE DEF s
      <4> QED
        BY <3>2, <4>2 DEF Stream, Blocks
    <3> HIDE DEF grown, s
    <3>4. /\ streams' \in Seq(Stream) /\ Len(streams') = Len(s) /\ DOMAIN streams' = DOMAIN s
          /\ \A i \in DOMAIN s : streams'[i].live = s[i].live
      BY <1>2, <3>1, <3>3
    <3> QED
      BY <1>2, <3>1, <3>4, <3>5 DEF Files, LiveStreams, s
  <2>3. ASSUME NEW h \in DOMAIN s, StreamCancel(t, h)
        PROVE  Kept
    <3> DEFINE gone == [s[h] EXCEPT !.live = FALSE]
    <3>1. /\ streams' = [s EXCEPT ![h] = gone]
          /\ UNCHANGED <<nextStream, chunks>> /\ alive' = alive \ {h}
      BY <2>3 DEF StreamCancel
    <3>2. s[h] \in Stream
      BY <1>2
    <3>3. gone \in Stream /\ ~gone.live
      BY <3>2 DEF Stream
    <3> HIDE DEF gone, s
    <3>4. /\ streams' \in Seq(Stream) /\ Len(streams') = Len(s) /\ DOMAIN streams' = DOMAIN s
          /\ ~streams'[h].live /\ \A i \in DOMAIN s \ {h} : streams'[i] = s[i]
      BY <1>2, <3>1, <3>3
    <3> QED
      BY <1>2, <3>1, <3>4 DEF Files, LiveStreams, s
  <2> QED
    BY <2>1, <2>2, <2>3
<1>4. FileTypes' /\ WritesMeant' /\ OnlyWriter' /\ FileIsLastWrite'
  BY <1>1, <1>3 DEF Files, FileTypes, WritesMeant, OnlyWriter, FileIsLastWrite, Busy
<1> QED
  BY <1>3, <1>4 DEF Files

LEMMA CloseKeepsFiles ==
  ASSUME Files, NEW t \in Workers, NEW h \in DOMAIN streams, StreamClose(t, h)
  PROVE  Files'
<1> DEFINE s == streams[h]
           gone == [s EXCEPT !.live = FALSE]
<1>1. streams \in Seq(Stream) /\ Len(streams) \in Nat /\ DOMAIN streams = 1..Len(streams)
  BY DEF Files, FileTypes
<1>2. s \in Stream
  BY <1>1
<1>3. /\ s.name \in CloudNames /\ s.data \in Blocks /\ gone \in Stream /\ ~gone.live
  BY <1>2 DEF Stream
<1>4. h \in alive
  BY DEF StreamClose, Files, LiveStreams
<1>5. /\ streams' = [streams EXCEPT ![h] = gone] /\ alive' = alive \ {h}
      /\ Write(t, s.name, s.data, s.data)
      /\ UNCHANGED <<nextStream, chunks, intended>>
  BY <1>4 DEF StreamClose, EraseStream
<1> HIDE DEF s, gone
<1>6. /\ streams' \in Seq(Stream) /\ Len(streams') = Len(streams)
      /\ DOMAIN streams' = DOMAIN streams /\ ~streams'[h].live
      /\ \A i \in DOMAIN streams \ {h} : streams'[i] = streams[i]
  BY <1>1, <1>3, <1>5
<1>7. LiveStreams'
  BY <1>5, <1>6 DEF Files, LiveStreams
<1>8. /\ disk' \in [Path -> Content] /\ open' \subseteq Writing /\ mixed' \subseteq Path
      /\ WritesMeant' /\ OnlyWriter' /\ FileIsLastWrite'
  BY <1>3, <1>5, WriteBegins
<1> QED
  BY <1>5, <1>6, <1>7, <1>8 DEF Files, FileTypes

LEMMA DeathKeepsFiles ==
  ASSUME Files, DieWriting
  PROVE  Files'
<1>1. PICK cut \in [open -> 0..MaxChunks] :
        /\ \A w \in open : cut[w] <= Len(w.data)
        /\ disk' = [p \in Path |->
             IF Busy(p) /\ disk[p] /= Absent
             THEN LET w == CHOOSE w \in open : w.path = p IN SubSeq(w.data, 1, cut[w])
             ELSE disk[p]]
  BY DEF DieWriting
<1>2. /\ open' = {} /\ mixed' = mixed \cup {w.path : w \in open}
      /\ streams' = << >> /\ nextStream' = 1 /\ alive' = {} /\ UNCHANGED <<chunks, intended>>
  BY DEF DieWriting
<1>3. ASSUME NEW p \in Path
      PROVE  disk'[p] \in Content /\ (~Busy(p) => disk'[p] = disk[p])
  <2>1. CASE Busy(p) /\ disk[p] /= Absent
    <3> DEFINE w == CHOOSE w \in open : w.path = p
    <3>1. w \in open
      BY <2>1 DEF Busy
    <3>2. w.data \in Blocks /\ cut[w] \in Nat /\ cut[w] <= Len(w.data)
      BY <1>1, <3>1 DEF Files, FileTypes, Writing
    <3>3. disk'[p] = SubSeq(w.data, 1, cut[w])
      BY <1>1, <2>1
    <3> HIDE DEF w
    <3>4. SubSeq(w.data, 1, cut[w]) \in Blocks
      BY <3>2, PartOfData
    <3> QED
      BY <2>1, <3>3, <3>4 DEF Content
  <2>2. CASE ~(Busy(p) /\ disk[p] /= Absent)
    BY <1>1, <2>2 DEF Files, FileTypes
  <2> QED
    BY <2>1, <2>2
<1>4. disk' \in [Path -> Content]
  BY <1>1, <1>3
<1>5. FileTypes'
  BY <1>2, <1>4 DEF Files, FileTypes, Writing
<1>6. LiveStreams' /\ WritesMeant' /\ OnlyWriter'
  BY <1>2 DEF LiveStreams, WritesMeant, OnlyWriter
<1>7. FileIsLastWrite'
  <2> SUFFICES ASSUME NEW p \in Path, p \notin mixed'
               PROVE  disk'[p] = intended[p]
    BY <1>2 DEF FileIsLastWrite
  <2>1. ~Busy(p) /\ p \notin mixed
    BY <1>2 DEF Busy
  <2> QED
    BY <2>1, <1>3 DEF Files, FileIsLastWrite
<1> QED
  BY <1>5, <1>6, <1>7 DEF Files

LEMMA FilesKept == CloudSpec => []Files
<1>1. CloudInit => Files
  <2> SUFFICES ASSUME CloudInit
               PROVE  Files
    OBVIOUS
  <2>1. FileTypes
    BY CloudFilesAssumption DEF CloudInit, FileTypes, Content
  <2>2. LiveStreams /\ WritesMeant /\ OnlyWriter /\ FileIsLastWrite
    BY DEF CloudInit, LiveStreams, WritesMeant, OnlyWriter, FileIsLastWrite
  <2> QED
    BY <2>1, <2>2 DEF Files
<1>2. Files /\ [CloudNext]_cloudVars => Files'
  <2> SUFFICES ASSUME Files, [CloudNext]_cloudVars
               PROVE  Files'
    OBVIOUS
  <2>1. CASE DieWriting
    BY <2>1, DeathKeepsFiles
  <2>2. ASSUME NEW t \in Workers, FinishWrite(t)
        PROVE  Files'
    BY <2>2, FinishKeepsFiles
  <2>3. ASSUME NEW t \in Workers, NEW n \in CloudNames, FileWrite(t, n)
        PROVE  Files'
    <3>2. /\ Write(t, n, <<chunks + 1>>, <<chunks + 1>>)
          /\ chunks < MaxChunks /\ chunks' = chunks + 1
          /\ UNCHANGED <<streams, nextStream, alive, intended>>
      BY <2>3 DEF FileWrite
    <3>1. chunks + 1 \in 1..MaxChunks /\ chunks' \in 0..MaxChunks /\ <<chunks + 1>> \in Blocks
      <4>1. chunks + 1 \in 1..MaxChunks /\ chunks' \in 0..MaxChunks
        BY <3>2, CloudFilesAssumption DEF Files, FileTypes
      <4> QED
        BY <4>1 DEF Blocks
    <3>3. /\ disk' \in [Path -> Content] /\ open' \subseteq Writing /\ mixed' \subseteq Path
          /\ WritesMeant' /\ OnlyWriter' /\ FileIsLastWrite'
      BY <3>1, <3>2, WriteBegins
    <3> QED
      BY <3>1, <3>2, <3>3 DEF Files, FileTypes, LiveStreams
  <2>4. ASSUME NEW t \in Workers, NEW n \in CloudNames, FileDelete(t, n)
        PROVE  Files'
    BY <2>4, DeleteKeepsFiles
  <2>5. ASSUME NEW t \in Workers, NEW n \in CloudNames, StreamOpen(t, n)
        PROVE  Files'
    BY <2>5, StreamsKeepFiles
  <2>6. ASSUME NEW t \in Workers, NEW h \in DOMAIN streams,
               StreamWrite(t, h) \/ StreamCancel(t, h)
        PROVE  Files'
    BY <2>6, StreamsKeepFiles
  <2>7. ASSUME NEW t \in Workers, NEW h \in DOMAIN streams, StreamClose(t, h)
        PROVE  Files'
    BY <2>7, CloseKeepsFiles
  <2>8. CASE UNCHANGED <<disk, open, streams, nextStream, chunks, alive, intended, mixed>>
    BY <2>8 DEF Files, FileTypes, LiveStreams, WritesMeant, OnlyWriter, FileIsLastWrite, Busy
  <2> QED
    BY <2>1, <2>2, <2>3, <2>4, <2>5, <2>6, <2>7, <2>8
       DEF CloudNext, GetFileCount, GetFileNameAndSize, cloudVars
<1> QED
  BY <1>1, <1>2, PTL DEF CloudSpec

(* Whatever files, streams and threads, a file that no two calls changed   *)
(* at once and no process died writing holds what the last call to return  *)
(* has written, whole (Write, StreamClose).                                *)
THEOREM LastWriteStays == CloudSpec => []FileIsLastWrite
<1>1. Files => FileIsLastWrite
  BY DEF Files
<1> QED
  BY <1>1, FilesKept, PTL

---------------------------------------------------------------------------
(* The list names each path once; what was named are its first entries.    *)
ListOnce ==
  /\ fileList \in Seq(Path) /\ cursor \in 0..Len(fileList) + 1
  /\ \A i, j \in DOMAIN fileList : fileList[i] = fileList[j] => i = j
NamedSoFar ==
  /\ named \in Seq(Path) /\ Len(named) = IF cursor = 0 THEN 0 ELSE cursor - 1
  /\ \A i \in 1..Len(named) : named[i] = fileList[i]
StillListed == \A p \in untouched : \E i \in DOMAIN fileList : fileList[i] = p

Enumeration == ListOnce /\ NamedSoFar /\ StillListed /\ counts \in 0..MaxCounts

(* A directory's entries, each once, are all that is listed.               *)
LEMMA DirectoryComplete ==
  ASSUME NEW s \in Directories
  PROVE  /\ s \in Seq(Path) /\ \A i, j \in DOMAIN s : s[i] = s[j] => i = j
         /\ \A p \in Listed : \E i \in DOMAIN s : s[i] = p
<1> DEFINE n == Cardinality(Listed)
<1>1. Listed \in SUBSET CloudNames /\ Listed \in SUBSET Path
  BY CloudFilesAssumption DEF Listed
<1>2. IsFiniteSet(Listed) /\ n \in Nat
  BY <1>1, FS_Subset, FS_CardinalityType, CloudFilesAssumption
<1>3. s \in [1..n -> Listed] /\ IsInjective(s)
  BY DEF Directories
<1> HIDE DEF n
<1>4. s \in Seq(Listed)
  BY <1>2, <1>3
<1>5. s \in Seq(Path)
  BY <1>1, <1>2, <1>3
<1>6. IsFiniteSet(1..n) /\ Cardinality(1..n) = n
  BY <1>2, FS_Interval
<1>7. s \in Injection(1..n, Listed)
  BY <1>3 DEF Injection
<1>8. s \in Surjection(1..n, Listed)
  BY <1>2, <1>6, <1>7, FS_Injection DEF n
<1> QED
  BY <1>3, <1>5, <1>8 DEF IsInjective, Surjection

LEMMA EnumerationKept == CloudSpec => []Enumeration
<1>1. CloudInit => Enumeration
  BY CloudFilesAssumption DEF CloudInit, Enumeration, ListOnce, NamedSoFar, StillListed
<1>2. Enumeration /\ [CloudNext]_cloudVars => Enumeration'
  <2> SUFFICES ASSUME Enumeration, [CloudNext]_cloudVars
               PROVE  Enumeration'
    OBVIOUS
  <2>1. CASE GetFileCount
    <3>1. /\ fileList' \in Directories /\ cursor' = 1 /\ named' = << >>
          /\ untouched' = Listed /\ counts < MaxCounts /\ counts' = counts + 1
      BY <2>1 DEF GetFileCount
    <3>2. /\ fileList' \in Seq(Path) /\ StillListed'
          /\ \A i, j \in DOMAIN fileList' : fileList'[i] = fileList'[j] => i = j
      BY <3>1, DirectoryComplete DEF StillListed
    <3>3. Len(fileList') \in Nat
      BY <3>2
    <3>4. counts' \in 0..MaxCounts
      BY <3>1, CloudFilesAssumption DEF Enumeration
    <3> QED
      BY <3>1, <3>2, <3>3, <3>4 DEF Enumeration, ListOnce, NamedSoFar
  <2>2. CASE GetFileNameAndSize
    <3>1. /\ fileList \in Seq(Path) /\ cursor \in 1..Len(fileList)
          /\ Len(fileList) \in Nat /\ DOMAIN fileList = 1..Len(fileList)
          /\ named \in Seq(Path) /\ Len(named) = cursor - 1
      BY <2>2 DEF GetFileNameAndSize, Enumeration, ListOnce, NamedSoFar
    <3>2. fileList /= << >>
      BY <3>1
    <3>3. /\ fileList' = fileList /\ cursor' = cursor + 1 /\ untouched' = untouched
          /\ counts' = counts
      BY <2>2, <3>2 DEF GetFileNameAndSize, ListToRead
    <3>4. named' = Append(named, fileList[cursor])
      BY <2>2, <3>1, <3>3 DEF GetFileNameAndSize
    <3>5. fileList[cursor] \in Path
      BY <3>1
    <3>6. /\ named' \in Seq(Path) /\ Len(named') = cursor /\ named'[cursor] = fileList[cursor]
          /\ \A i \in 1..cursor - 1 : named'[i] = named[i]
      BY <3>1, <3>4, <3>5
    <3>7. \A i \in 1..cursor : named'[i] = fileList[i]
      <4> TAKE i \in 1..cursor
      <4>1. CASE i = cursor
        BY <4>1, <3>6
      <4>2. CASE i /= cursor
        <5>1. i \in 1..cursor - 1 /\ i \in 1..Len(named)
          BY <4>2, <3>1
        <5> QED
          BY <5>1, <3>6 DEF Enumeration, NamedSoFar
      <4> QED
        BY <4>1, <4>2
    <3> QED
      BY <3>1, <3>3, <3>6, <3>7 DEF Enumeration, ListOnce, NamedSoFar, StillListed
  <2>3. CASE DieWriting
    <3>1. fileList' = << >> /\ cursor' = 0 /\ named' = << >> /\ untouched' = {}
          /\ counts' = counts
      BY <2>3 DEF DieWriting
    <3> QED
      BY <3>1 DEF Enumeration, ListOnce, NamedSoFar, StillListed
  <2>4. CASE untouched' \subseteq untouched /\ UNCHANGED <<fileList, cursor, named, counts>>
    BY <2>4 DEF Enumeration, ListOnce, NamedSoFar, StillListed
  <2>5. \/ GetFileCount \/ GetFileNameAndSize \/ DieWriting
        \/ untouched' \subseteq untouched /\ UNCHANGED <<fileList, cursor, named, counts>>
    BY DEF CloudNext, FinishWrite, FileWrite, FileDelete, StreamOpen, StreamWrite,
           StreamClose, StreamCancel, Write, listing, cloudVars
  <2> QED
    BY <2>1, <2>2, <2>3, <2>4, <2>5
<1> QED
  BY <1>1, <1>2, PTL DEF CloudSpec

(* A game that asks for the count and then for every index gets every file *)
(* that no call has changed meanwhile exactly once, in whatever order the  *)
(* directory gives them (RefreshFileList, FileNameByIndex).                *)
THEOREM EachFileOnce == CloudSpec => []EnumeratedOnce
<1>1. Enumeration => EnumeratedOnce
  <2> SUFFICES ASSUME Enumeration, cursor = Len(fileList) + 1, NEW p \in untouched
               PROVE  Cardinality({i \in DOMAIN named : named[i] = p}) = 1
    BY DEF EnumeratedOnce
  <2>1. /\ fileList \in Seq(Path) /\ named \in Seq(Path) /\ Len(fileList) \in Nat
        /\ Len(named) = Len(fileList)
    BY DEF Enumeration, ListOnce, NamedSoFar
  <2>2. /\ DOMAIN named = DOMAIN fileList
        /\ \A i \in DOMAIN named : named[i] = fileList[i]
    BY <2>1 DEF Enumeration, NamedSoFar
  <2>3. PICK k \in DOMAIN fileList : fileList[k] = p
    BY DEF Enumeration, StillListed
  <2>4. {i \in DOMAIN named : named[i] = p} = {k}
    BY <2>2, <2>3 DEF Enumeration, ListOnce
  <2> QED
    BY <2>4, FS_Singleton
<1> QED
  BY <1>1, EnumerationKept, PTL

(* The types of the files, the streams, the writes and the list.           *)
THEOREM CloudTypes == CloudSpec => []CloudTypeOK
<1>1. Files /\ Enumeration => CloudTypeOK
  <2> SUFFICES ASSUME Files, Enumeration
               PROVE  CloudTypeOK
    OBVIOUS
  <2>1. \A p \in Path : disk[p] = Absent \/ disk[p] \in Blocks
    BY DEF Files, FileTypes, Content
  <2>2. \A w \in open : w.by \in Workers /\ w.path \in Path
    BY DEF Files, FileTypes, Writing
  <2>3. Len(streams) = nextStream - 1
    BY DEF Files, FileTypes
  <2> QED
    BY <2>1, <2>2, <2>3
       DEF Files, FileTypes, LiveStreams, Enumeration, ListOnce, CloudTypeOK, Blocks
<1> QED
  BY <1>1, FilesKept, EnumerationKept, PTL

-----------------------------------------------------------------------------
(* Peers *)

(* What a node knows of another one are addresses it has had.              *)
THEOREM PeersTypes == PeersSpec => []PeersTypeOK
<1>1. PeersInit => PeersTypeOK
  BY PeersAssumption DEF PeersInit, PeersTypeOK
<1>2. PeersTypeOK /\ [PeersNext]_peerVars => PeersTypeOK'
  <2> SUFFICES ASSUME PeersTypeOK, [PeersNext]_peerVars
               PROVE  PeersTypeOK'
    OBVIOUS
  <2>1. /\ peers \in [Identity -> PeerEntry \cup {Unheard}]
        /\ peerLife \in 1..MaxLives /\ packets \in 0..MaxDatagrams
        /\ \A m \in peerNet : m.id \in Identity /\ m.addr \in 1..MaxLives
    BY DEF PeersTypeOK
  <2>2. CASE SendBeacon
    <3>1. Beacon.id \in Identity /\ Beacon.addr \in 1..MaxLives
      BY <2>1 DEF Beacon, Identity
    <3> QED
      BY <2>1, <2>2, <3>1 DEF SendBeacon, PeersTypeOK
  <2>3. ASSUME NEW i \in Identity, SendPacket(i)
        PROVE  PeersTypeOK'
    <3> DEFINE m == [kind |-> "data", id |-> i, addr |-> peerLife]
    <3>1. m.id \in Identity /\ m.addr \in 1..MaxLives
      BY <2>1
    <3>2. peerNet' = peerNet \cup {m} /\ UNCHANGED <<peers, peerLife>>
      BY <2>3 DEF SendPacket
    <3>3. packets' \in 0..MaxDatagrams
      BY <2>1, <2>3, PeersAssumption DEF SendPacket
    <3> HIDE DEF m
    <3> QED
      BY <2>1, <3>1, <3>2, <3>3 DEF PeersTypeOK
  <2>4. ASSUME NEW m \in peerNet, HandleDatagram(m)
        PROVE  PeersTypeOK'
    <3> DEFINE e == [addr |-> m.addr, silent |-> FALSE]
    <3>1. e \in PeerEntry /\ m.id \in Identity
      BY <2>1 DEF PeerEntry
    <3>2. peers' = [peers EXCEPT ![m.id] = e] /\ peerNet' = peerNet \ {m}
          /\ UNCHANGED <<peerLife, packets>>
      BY <2>4 DEF HandleDatagram, Heard
    <3> HIDE DEF e
    <3> QED
      BY <2>1, <3>1, <3>2 DEF PeersTypeOK
  <2>5. ASSUME NEW i \in Identity, Silence(i) \/ ExpirePeer(i)
        PROVE  PeersTypeOK'
    <3> DEFINE e == [peers[i] EXCEPT !.silent = TRUE]
    <3>1. peers[i] /= Unheard => e \in PeerEntry
      BY <2>1 DEF PeerEntry
    <3>2. /\ peers[i] /= Unheard
          /\ peers' = [peers EXCEPT ![i] = e] \/ peers' = [peers EXCEPT ![i] = Unheard]
          /\ UNCHANGED <<peerLife, peerNet, packets>>
      BY <2>5 DEF Silence, ExpirePeer, Expired
    <3> HIDE DEF e
    <3> QED
      BY <2>1, <3>1, <3>2 DEF PeersTypeOK
  <2>6. CASE RestartPeer
    <3>1. peerLife' \in 1..MaxLives /\ UNCHANGED <<peers, peerNet, packets>>
      BY <2>1, <2>6, PeersAssumption DEF RestartPeer
    <3> QED
      BY <2>1, <3>1 DEF PeersTypeOK
  <2>7. ASSUME NEW m \in peerNet, Lose(m)
        PROVE  PeersTypeOK'
    BY <2>1, <2>7 DEF Lose, PeersTypeOK
  <2>8. CASE UNCHANGED peerVars
    BY <2>1, <2>8 DEF peerVars, PeersTypeOK
  <2> QED
    BY <2>2, <2>3, <2>4, <2>5, <2>6, <2>7, <2>8 DEF PeersNext
<1> QED
  BY <1>1, <1>2, PTL DEF PeersSpec

-----------------------------------------------------------------------------
(* The specification of the run *)

(* A behaviour of Services is one of each service, which steps only if it  *)
(* is the subject: what is proved of a service's own specification holds   *)
(* of the one the run checks.  This is how Services is put together and    *)
(* says nothing about the code.                                            *)
LEMMA EachByItself ==
  Spec => /\ ChatSpec /\ PeersSpec /\ P2PSpec /\ LifeSpec /\ OverlaySpec
          /\ CloudSpec /\ StatsSpec /\ BoardSpec
<1>1. Init => /\ ChatInit /\ PeersInit /\ P2PInit /\ LifeInit /\ OverlayInit
              /\ CloudInit /\ StatsInit /\ BoardInit
  BY DEF Init
<1>2. [Next]_vars => /\ [ChatNext]_chatVars /\ [PeersNext]_peerVars /\ [P2PNext]_p2pVars
                     /\ [LifeNext]_lifeVars /\ [OverlayNext]_overlayVars
                     /\ [CloudNext]_cloudVars /\ [StatsNext]_statVars /\ [BoardNext]_boardVars
  BY DEF Next, vars, behind, records
<1> QED
  BY <1>1, <1>2, PTL DEF Spec, ChatSpec, PeersSpec, P2PSpec, LifeSpec, OverlaySpec,
                         CloudSpec, StatsSpec, BoardSpec

(* The types of all the services.                                          *)
THEOREM ServiceTypes == Spec => []TypeOK
<1>1. Init => subject \in Subject
  BY DEF Init
<1>2. subject \in Subject /\ [Next]_vars => (subject \in Subject)'
  BY DEF Next, vars
<1>3. Types => ChatTypeOK
  BY DEF Types
<1>4. /\ subject \in Subject
      /\ ChatTypeOK /\ PeersTypeOK /\ P2PTypeOK /\ LifeTypeOK /\ OverlayTypeOK
      /\ CloudTypeOK /\ StatsTypeOK /\ BoardTypeOK
      => TypeOK
  BY DEF TypeOK
<1>5. Spec => [](subject \in Subject)
  BY <1>1, <1>2, PTL DEF Spec
<1> QED
  BY <1>3, <1>4, <1>5, EachByItself, ChatTypes, PeersTypes, P2PTypes, LifeTypes, OverlayTypes,
     CloudTypes, StatsTyped, BoardsTyped, PTL

(* The properties of the run of Services, of the specification it checks,  *)
(* if who starts again has a new epoch, the files of the boards are read   *)
(* and apart, one pump reports the overlay, and the game does not call     *)
(* while it shuts down.                                                    *)
THEOREM ServicesSafe ==
  ASSUME Restarting \subseteq Relaunching, FilesApart,
         NEW p, OverlayPumps = {p}, CallsDuringStop = FALSE
  PROVE  Spec => /\ []( /\ ToldOnceInWindow /\ OnlyCopiesDropped /\ SessionsAnnounced
                        /\ OneWindowThread /\ BackendOutlivesUsers
                        /\ FileIsLastWrite /\ EnumeratedOnce
                        /\ StatsKept /\ ScoresPersist /\ RankTrue )
                 /\ EventNamesAsker
<1>1. ChatSpec => []OnlyCopiesDropped
  BY NothingSwallowed
<1>2. OverlaySpec => EventNamesAsker
  BY OnePumpNamesAsker
<1>3. LifeSpec => []BackendOutlivesUsers
  BY OutlivesUsers
<1>4. BoardSpec => []ScoresPersist
  BY ScoresStay
<1>5. BoardSpec => []RankTrue
  BY RanksAreTrue
<1> QED
  BY <1>1, <1>2, <1>3, <1>4, <1>5, EachByItself, ToldOnce, SessionsAreAnnounced,
     ThreadsJoined, LastWriteStays, EachFileOnce, StatsStay, PTL
=============================================================================
