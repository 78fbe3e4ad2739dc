------------------------ MODULE ManualDispatchProofs ------------------------
(***************************************************************************)
(* Proofs about ManualDispatch, for any ids, delays and bounds: the types, *)
(* where every call handle is, what a pump may rely on while it reads the  *)
(* shared buffer, what a poll answers, that manual dispatch implements     *)
(* AsyncCalls, and that callbacks are given in the order they were queued. *)
(***************************************************************************)
EXTENDS ManualDispatch, DispatchQueueProofs, FiniteSetTheorems

-----------------------------------------------------------------------------
(* Removing a message from the middle of a queue *)

(* Naturals are well founded: the sets of members up to one of them are    *)
(* finite, and a smallest of these sets belongs to the smallest member.    *)
LEMMA MinOfNats ==
  ASSUME NEW I \in SUBSET Nat, I # {}
  PROVE  Min(I) \in I /\ \A y \in I : Min(I) <= y
<1>1. PICK n \in I : TRUE
  OBVIOUS
<1>. DEFINE Below(m) == {k \in I : k <= m}
            All == {Below(m) : m \in {k \in I : k <= n}}
<1>2. IsFiniteSet(0..n) /\ FiniteSubsetsOf(0..n) = SUBSET (0..n)
  <2>1. IsFiniteSet(0..n)
    <3>1. 0 \in Int /\ n \in Int
      OBVIOUS
    <3>. QED  BY <3>1, FS_Interval
  <2>. QED  BY <2>1, FS_FiniteSubsetsOfFinite
<1>3. All \subseteq SUBSET (0..n) /\ All # {}
  <2>1. Below(n) \in All
    OBVIOUS
  <2>2. ASSUME NEW m \in I, m <= n, NEW k \in I, k <= m
        PROVE  k \in 0..n
    <3>1. k \in Nat /\ m \in Nat /\ n \in Nat
      OBVIOUS
    <3>. QED  BY <2>2, <3>1
  <2>. QED  BY <2>1, <2>2
<1>4. PICK U \in All : \A V \in All : ~ (<<V, U>> \in StrictSubsetOrdering(0..n))
  <2>1. IsWellFoundedOn(StrictSubsetOrdering(0..n), SUBSET (0..n))
    BY <1>2, FS_StrictSubsetOrderingWellFounded
  <2>. HIDE DEF All
  <2>. QED  BY <2>1, <1>3, WFMin, Zenon
<1>5. PICK x \in I : x <= n /\ U = Below(x)
  OBVIOUS
<1>6. ASSUME NEW y \in I, y < x
      PROVE  FALSE
  <2>1. y <= n /\ x \notin Below(y) /\ x \in Below(x) /\ Below(y) \subseteq Below(x)
    <3>1. x \in Nat /\ y \in Nat /\ n \in Nat /\ I \subseteq Nat
      OBVIOUS
    <3>2. y <= n /\ ~ (x <= y) /\ x <= x
      BY <1>5, <1>6, <3>1
    <3>3. \A k \in I : k <= y => k <= x
      BY <1>6, <3>1
    <3>. QED  BY <3>2, <3>3
  <2>2. Below(y) \in All
    BY <2>1
  <2>3. <<Below(y), U>> \in StrictSubsetOrdering(0..n)
    BY <1>3, <1>5, <2>1, <2>2 DEF StrictSubsetOrdering
  <2>. QED  BY <1>4, <2>2, <2>3
<1>7. \A y \in I : x <= y
  BY <1>6
<1>. QED  BY <1>7 DEF Min

LEMMA FirstDueInQueue ==
  ASSUME NEW q \in Seq(Message), NEW p \in Pipes
  PROVE  /\ FirstDue(q, p) # 0 => FirstDue(q, p) \in DOMAIN q
         /\ \A i \in DOMAIN q : q[i].gameServer = p /\ q[i].readyAt <= now =>
              FirstDue(q, p) # 0 /\ FirstDue(q, p) <= i
<1>. DEFINE I == {i \in 1..Len(q) : q[i].gameServer = p /\ q[i].readyAt <= now}
<1>1. FirstDue(q, p) = IF I # {} THEN Min(I) ELSE 0
  BY DEF FirstDue, SelectInSeq
<1>2. DOMAIN q = 1..Len(q) /\ I \in SUBSET Nat /\ 0 \notin I
  BY LenProperties
<1>3. I # {} => Min(I) \in I /\ \A i \in I : Min(I) <= i
  <2>. HIDE DEF I
  <2>. QED  BY <1>2, MinOfNats
<1>. QED  BY <1>1, <1>2, <1>3

LEMMA RemoveAtProperties ==
  ASSUME NEW q \in Seq(Message), NEW k \in DOMAIN q
  PROVE  /\ RemoveAt(q, k) \in Seq(Message)
         /\ DOMAIN RemoveAt(q, k) = 1..(Len(q) - 1)
         /\ \A i \in 1..(Len(q) - 1) :
              RemoveAt(q, k)[i] = IF i < k THEN q[i] ELSE q[i + 1]
<1>. DEFINE s == SubSeq(q, 1, k - 1)
            t == SubSeq(q, k + 1, Len(q))
<1>1. Len(q) \in Nat /\ DOMAIN q = 1..Len(q) /\ k \in 1..Len(q)
  BY LenProperties
<1>2. \A i \in 1..Len(q) : q[i] \in Message
  BY ElementOfSeq
<1>3. /\ s \in Seq(Message)
      /\ Len(s) = k - 1
      /\ \A i \in 1..(k - 1) : s[i] = q[i]
  <2>1. 1 \in Int /\ k - 1 \in Int /\ \A i \in 1..(k - 1) : q[i] \in Message
    BY <1>1, <1>2
  <2>2. /\ s \in Seq(Message)
        /\ Len(s) = IF 1 <= k - 1 THEN (k - 1) - 1 + 1 ELSE 0
        /\ \A i \in 1..((k - 1) - 1 + 1) : s[i] = q[1 + i - 1]
    BY <2>1, SubSeqProperties
  <2>. HIDE DEF s
  <2>3. Len(s) = k - 1 /\ (k - 1) - 1 + 1 = k - 1
    BY <1>1, <2>2
  <2>4. ASSUME NEW i \in 1..(k - 1)
        PROVE  s[i] = q[i]
    <3>1. 1 + i - 1 = i
      OBVIOUS
    <3>. QED  BY <2>2, <2>3, <3>1
  <2>. QED  BY <2>2, <2>3, <2>4
<1>4. /\ t \in Seq(Message)
      /\ Len(t) = Len(q) - k
      /\ \A i \in 1..(Len(q) - k) : t[i] = q[k + i]
  <2>1. k + 1 \in Int /\ Len(q) \in Int /\ \A i \in (k + 1)..Len(q) : q[i] \in Message
    BY <1>1, <1>2
  <2>2. /\ t \in Seq(Message)
        /\ Len(t) = IF k + 1 <= Len(q) THEN Len(q) - (k + 1) + 1 ELSE 0
        /\ \A i \in 1..(Len(q) - (k + 1) + 1) : t[i] = q[(k + 1) + i - 1]
    BY <2>1, SubSeqProperties
  <2>. HIDE DEF t
  <2>. QED  BY <1>1, <2>2
<1>5. RemoveAt(q, k) = s \o t
  BY DEF RemoveAt
<1>6. /\ s \o t \in Seq(Message)
      /\ Len(s \o t) = Len(s) + Len(t)
      /\ \A i \in 1..(Len(s) + Len(t)) :
           (s \o t)[i] = IF i <= Len(s) THEN s[i] ELSE t[i - Len(s)]
  <2>. HIDE DEF s, t
  <2>. QED  BY <1>3, <1>4, ConcatProperties
<1>7. DOMAIN (s \o t) = 1..Len(s \o t)
  <2>. HIDE DEF s, t
  <2>. QED  BY <1>6, LenProperties
<1>. HIDE DEF s, t
<1>8. ASSUME NEW i \in 1..(Len(q) - 1)
      PROVE  (s \o t)[i] = IF i < k THEN q[i] ELSE q[i + 1]
  <2>1. CASE i < k
    BY <1>1, <1>3, <1>4, <1>6, <2>1
  <2>2. CASE ~ (i < k)
    <3>1. i - Len(s) \in 1..(Len(q) - k) /\ k + (i - Len(s)) = i + 1
      BY <1>1, <1>3, <2>2
    <3>2. t[i - Len(s)] = q[i + 1]
      BY <1>4, <3>1
    <3>3. i \in 1..(Len(s) + Len(t)) /\ ~ (i <= Len(s))
      BY <1>1, <1>3, <1>4, <2>2
    <3>. QED  BY <1>6, <2>2, <3>2, <3>3
  <2>. QED  BY <2>1, <2>2
<1>9. Len(s) + Len(t) = Len(q) - 1
  BY <1>1, <1>3, <1>4
<1>. QED  BY <1>5, <1>6, <1>7, <1>8, <1>9

(* The handle of the message removed is gone, the others are still there.  *)
LEMMA CallsOfRemoveAt ==
  ASSUME NEW q \in Seq(Message), NEW k \in DOMAIN q, Distinct(q), q[k].hCall # NoCall
  PROVE  /\ CallsOf(RemoveAt(q, k)) = CallsOf(q) \ {q[k].hCall}
         /\ q[k].hCall \in CallsOf(q)
         /\ Distinct(RemoveAt(q, k))
<1>. DEFINE r == RemoveAt(q, k)
<1>1. Len(q) \in Nat /\ DOMAIN q = 1..Len(q) /\ k \in 1..Len(q)
  BY LenProperties
<1>2. /\ DOMAIN r = 1..(Len(q) - 1)
      /\ \A i \in 1..(Len(q) - 1) : r[i] = IF i < k THEN q[i] ELSE q[i + 1]
  BY RemoveAtProperties
<1>. HIDE DEF r
<1>3. ASSUME NEW i \in DOMAIN r
      PROVE  \E j \in DOMAIN q \ {k} : r[i] = q[j] /\ j = IF i < k THEN i ELSE i + 1
  BY <1>1, <1>2
<1>4. ASSUME NEW j \in DOMAIN q \ {k}
      PROVE  \E i \in DOMAIN r : r[i] = q[j]
  <2>1. CASE j < k
    BY <1>1, <1>2, <2>1
  <2>2. CASE j > k
    <3>1. j - 1 \in DOMAIN r /\ ~ (j - 1 < k) /\ (j - 1) + 1 = j
      BY <1>1, <1>2, <2>2
    <3>. QED  BY <1>2, <3>1
  <2>. QED  BY <1>1, <2>1, <2>2
<1>5. CallsOf(r) \subseteq CallsOf(q) \ {q[k].hCall}
  BY <1>3 DEF CallsOf, Distinct
<1>6. CallsOf(q) \ {q[k].hCall} \subseteq CallsOf(r)
  BY <1>4 DEF CallsOf
<1>7. Distinct(r)
  <2>1. SUFFICES ASSUME NEW i \in DOMAIN r, NEW j \in DOMAIN r,
                        r[i].hCall = r[j].hCall, r[i].hCall # NoCall
                 PROVE  i = j
    BY DEF Distinct
  <2>2. PICK a \in DOMAIN q : r[i] = q[a] /\ a = IF i < k THEN i ELSE i + 1
    BY <1>3
  <2>3. PICK b \in DOMAIN q : r[j] = q[b] /\ b = IF j < k THEN j ELSE j + 1
    BY <1>3
  <2>4. a = b
    BY <2>1, <2>2, <2>3 DEF Distinct
  <2>. QED  BY <1>1, <1>2, <2>2, <2>3, <2>4
<1>. QED  BY <1>5, <1>6, <1>7 DEF r, CallsOf

-----------------------------------------------------------------------------
(* The steps that move a call *)

(* Every queued result carries a handle: completing it completes a call.   *)
ResultsNamed == \A i \in DOMAIN g_pendingResults : g_pendingResults[i].hCall # NoCall

IInv ==
  /\ TypeOK
  /\ ResultsNamed
  /\ EveryCallOnce
  /\ BufferStable
  /\ CompletionFetchable

(* A result queued under handle h. *)
LEMMA ResultQueued ==
  ASSUME IInv, NEW h \in Nat \ {NoCall}, NEW id \in Ids, NEW gs \in BOOLEAN,
         NEW delay \in Delays,
         g_pendingResults' = Append(g_pendingResults, Stamp(h, id, gs, delay)),
         h \notin CallsOf(g_pendingResults)
  PROVE  /\ g_pendingResults' \in Seq(Message)
         /\ CallsOf(g_pendingResults)' = CallsOf(g_pendingResults) \cup {h}
         /\ Distinct(g_pendingResults)'
         /\ ResultsNamed'
<1>. DEFINE m == Stamp(h, id, gs, delay)
<1>1. m \in Message /\ m.hCall = h
  BY StampType, DispatchAssumption DEF IInv, TypeOK, Stamp
<1>2. g_pendingResults \in Seq(Message) /\ Distinct(g_pendingResults)
  BY DEF IInv, TypeOK, QueueTypeOK, EveryCallOnce
<1>. HIDE DEF m
<1>3. /\ Append(g_pendingResults, m) \in Seq(Message)
      /\ \A i \in DOMAIN Append(g_pendingResults, m) :
           Append(g_pendingResults, m)[i].hCall # NoCall
  BY <1>1, <1>2, AppendProperties, LenProperties DEF IInv, ResultsNamed
<1>4. g_pendingResults' = Append(g_pendingResults, m)
  BY DEF m
<1>. QED  BY <1>1, <1>2, <1>3, <1>4, CallsOfAppend DEF ResultsNamed

(* The message a pump takes from a queue leaves it a queue of messages. *)
LEMMA Taken ==
  ASSUME TypeOK, NEW q \in Seq(Message), NEW p \in Pipes, FirstDue(q, p) # 0
  PROVE  /\ q[FirstDue(q, p)] \in Message
         /\ FirstDue(q, p) \in DOMAIN q
         /\ RemoveAt(q, FirstDue(q, p)) \in Seq(Message)
<1>1. FirstDue(q, p) \in DOMAIN q
  BY FirstDueInQueue
<1>2. q[FirstDue(q, p)] \in Message
  BY <1>1, ElementOfSeq, LenProperties
<1>3. RemoveAt(q, FirstDue(q, p)) \in Seq(Message)
  BY <1>1, RemoveAtProperties
<1>. QED  BY <1>1, <1>2, <1>3

(* A pump that gets a completion moves the call of the result it takes from *)
(* the queue to the completed ones.                                         *)
LEMMA CompletionMoves ==
  ASSUME IInv, NEW p \in Pipes, GetCompletion(p)
  PROVE  \E r \in Message :
           /\ r.hCall \in CallsOf(g_pendingResults)
           /\ CallsOf(g_pendingResults)' = CallsOf(g_pendingResults) \ {r.hCall}
           /\ Distinct(g_pendingResults)'
           /\ g_pendingResults' \in Seq(Message)
           /\ ResultsNamed'
           /\ g_pendingCallbacks' = <<Shadow(r)>> \o g_pendingCallbacks
           /\ g_completed' = Append(g_completed, r)
           /\ HandOut(p, [hCall |-> r.hCall, id |-> r.id, seq |-> r.seq])
<1>. DEFINE k == FirstDueResult(p)
            r == g_pendingResults[k]
<1>1. g_pendingResults \in Seq(Message) /\ Distinct(g_pendingResults)
  BY DEF IInv, TypeOK, QueueTypeOK, EveryCallOnce
<1>2. /\ k \in DOMAIN g_pendingResults
      /\ r \in Message
      /\ RemoveAt(g_pendingResults, k) \in Seq(Message)
      /\ r.hCall # NoCall
  BY <1>1, Taken DEF IInv, GetCompletion, FirstDueResult, ResultsNamed
<1>3. /\ g_pendingResults' = RemoveAt(g_pendingResults, k)
      /\ g_pendingCallbacks' = <<Shadow(r)>> \o g_pendingCallbacks
      /\ g_completed' = Append(g_completed, r)
      /\ HandOut(p, [hCall |-> r.hCall, id |-> r.id, seq |-> r.seq])
  BY DEF GetCompletion, TakeResult, PostShadow, Complete
<1>. HIDE DEF k
<1>4. /\ CallsOf(g_pendingResults)' = CallsOf(g_pendingResults) \ {r.hCall}
      /\ r.hCall \in CallsOf(g_pendingResults)
      /\ Distinct(g_pendingResults)'
  BY <1>1, <1>2, <1>3, CallsOfRemoveAt
<1>5. ResultsNamed'
  <2>1. /\ DOMAIN RemoveAt(g_pendingResults, k) = 1..(Len(g_pendingResults) - 1)
        /\ \A i \in 1..(Len(g_pendingResults) - 1) :
             RemoveAt(g_pendingResults, k)[i]
               = IF i < k THEN g_pendingResults[i] ELSE g_pendingResults[i + 1]
    BY <1>1, <1>2, RemoveAtProperties
  <2>2. DOMAIN g_pendingResults = 1..Len(g_pendingResults) /\ Len(g_pendingResults) \in Nat
    BY <1>1, LenProperties
  <2>. QED  BY <1>3, <2>1, <2>2 DEF IInv, ResultsNamed
<1>. QED  BY <1>2, <1>3, <1>4, <1>5

-----------------------------------------------------------------------------
(* The inductive invariant *)

LEMMA InitIInv == Init => IInv
<1>. SUFFICES ASSUME Init PROVE IInv
  OBVIOUS
<1>1. TypeOK
  <2>1. << >> \in Seq(Message) /\ << >> \in Seq(Handed)
    OBVIOUS
  <2>2. QueueTypeOK
    BY <2>1 DEF Init, QueueInit, QueueTypeOK, NoCall
  <2>. QED  BY <2>1, <2>2 DEF Init, TypeOK
<1>2. EveryCallOnce
  BY CallsOfEmpty DEF Init, QueueInit, EveryCallOnce, Allocated
<1>3. ResultsNamed
  BY DEF Init, QueueInit, ResultsNamed
<1>4. BufferStable /\ CompletionFetchable
  BY DEF Init, BufferStable, CompletionFetchable
<1>. QED  BY <1>1, <1>2, <1>3, <1>4 DEF IInv

(* Emulator, game and clock: the five steps that are not a pump's. *)
Emulator ==
  \/ \E id \in Ids, gameServer \in BOOLEAN, delay \in Delays :
       Post(id, gameServer, delay) \/ CallApi(id, gameServer, delay)
  \/ FileReadAsync
  \/ \E h \in reserved, id \in Ids, delay \in Delays : FileReadAsyncDone(h, id, delay)
  \/ Tick

LEMMA NextSplit ==
  Next <=> Emulator \/ \E p \in Pipes : GetNextCallback(p) \/ FreeLastCallback(p)
BY DEF Next, Emulator

(* No handle is the next one, or k_uAPICallInvalid, while it is in use. *)
LEMMA HandlesInUse ==
  ASSUME IInv
  PROVE  /\ g_nextCall \in Nat \ {NoCall}
         /\ NoCall \notin reserved
         /\ g_nextCall \notin reserved \cup CallsOf(g_pendingResults) \cup CallsOf(g_completed)
         /\ reserved \cap CallsOf(g_pendingResults) = {}
         /\ reserved \subseteq Nat
BY DEF IInv, TypeOK, QueueTypeOK, EveryCallOnce, Allocated, NoCall

(* A producer puts a new or a promised handle into one place. *)
LEMMA EmulatorQueues ==
  ASSUME IInv, Emulator
  PROVE  QueueTypeOK' /\ ResultsNamed' /\ EveryCallOnce'
<1>. USE DEF IInv
<1>1. Delays \subseteq Nat /\ NoCall = 0
  BY DispatchAssumption DEF NoCall
<1>2. ASSUME NEW id \in Ids, NEW gs \in BOOLEAN, NEW delay \in Delays, Post(id, gs, delay)
      PROVE  QueueTypeOK' /\ ResultsNamed' /\ EveryCallOnce'
  <2>1. Stamp(NoCall, id, gs, delay) \in Message
    BY <1>1, StampType DEF TypeOK
  <2>2. g_pendingCallbacks' \in Seq(Message)
    BY <1>2, <2>1, AppendProperties DEF Post, QueueCallback, TypeOK, QueueTypeOK
  <2>3. g_seq' \in Nat
    BY <1>2 DEF Post, QueueCallback, TypeOK, QueueTypeOK
  <2>4. UNCHANGED <<g_nextCall, g_pendingResults, g_completed, reserved, now>>
    BY <1>2 DEF Post, QueueCallback
  <2>. QED
    BY <2>2, <2>3, <2>4 DEF TypeOK, QueueTypeOK, ResultsNamed, EveryCallOnce, Allocated
<1>3. ASSUME NEW id \in Ids, NEW gs \in BOOLEAN, NEW delay \in Delays, CallApi(id, gs, delay)
      PROVE  QueueTypeOK' /\ ResultsNamed' /\ EveryCallOnce'
  <2>1. /\ g_pendingResults' = Append(g_pendingResults, Stamp(g_nextCall, id, gs, delay))
        /\ g_nextCall' = g_nextCall + 1
        /\ g_seq' = g_seq + 1
        /\ UNCHANGED <<g_pendingCallbacks, g_completed, reserved, now>>
    BY <1>3 DEF CallApi, QueueCallResult
  <2>2. /\ g_pendingResults' \in Seq(Message)
        /\ CallsOf(g_pendingResults)' = CallsOf(g_pendingResults) \cup {g_nextCall}
        /\ Distinct(g_pendingResults)'
        /\ ResultsNamed'
    BY <2>1, HandlesInUse, ResultQueued
  <2>3. Allocated' = Allocated \cup {g_nextCall}
    BY <1>1, <2>1, HandlesInUse DEF Allocated
  <2>4. EveryCallOnce'
    BY <2>1, <2>2, <2>3, HandlesInUse DEF EveryCallOnce
  <2>. QED  BY <1>1, <2>1, <2>2, <2>4 DEF TypeOK, QueueTypeOK
<1>4. CASE FileReadAsync
  <2>1. /\ reserved' = reserved \cup {g_nextCall}
        /\ g_nextCall' = g_nextCall + 1
        /\ UNCHANGED <<g_seq, g_pendingCallbacks, g_pendingResults, g_completed, now>>
    BY <1>4 DEF FileReadAsync, AllocCall
  <2>2. Allocated' = Allocated \cup {g_nextCall}
    BY <1>1, <2>1, HandlesInUse DEF Allocated
  <2>3. EveryCallOnce' /\ ResultsNamed'
    BY <2>1, <2>2, HandlesInUse DEF EveryCallOnce, ResultsNamed
  <2>. QED  BY <1>1, <2>1, <2>3 DEF TypeOK, QueueTypeOK
<1>5. ASSUME NEW h \in reserved, NEW id \in Ids, NEW delay \in Delays,
             FileReadAsyncDone(h, id, delay)
      PROVE  QueueTypeOK' /\ ResultsNamed' /\ EveryCallOnce'
  <2>1. /\ g_pendingResults' = Append(g_pendingResults, Stamp(h, id, FALSE, delay))
        /\ reserved' = reserved \ {h}
        /\ g_seq' = g_seq + 1
        /\ UNCHANGED <<g_nextCall, g_pendingCallbacks, g_completed, now>>
    BY <1>5 DEF FileReadAsyncDone, QueueCallResultOn
  <2>2. h \in Nat \ {NoCall} /\ h \notin CallsOf(g_pendingResults)
    BY HandlesInUse
  <2>3. /\ g_pendingResults' \in Seq(Message)
        /\ CallsOf(g_pendingResults)' = CallsOf(g_pendingResults) \cup {h}
        /\ Distinct(g_pendingResults)'
        /\ ResultsNamed'
    BY <2>1, <2>2, ResultQueued
  <2>4. EveryCallOnce'
    BY <2>1, <2>3 DEF EveryCallOnce, Allocated
  <2>5. g_nextCall' \in Nat \ {NoCall} /\ g_seq' \in Nat /\ reserved' \subseteq Nat
    BY <2>1, HandlesInUse DEF TypeOK, QueueTypeOK
  <2>. QED  BY <2>1, <2>3, <2>4, <2>5 DEF TypeOK, QueueTypeOK
<1>6. CASE Tick
  BY <1>6 DEF Tick, TypeOK, QueueTypeOK, ResultsNamed, EveryCallOnce, Allocated
<1>. QED  BY <1>2, <1>3, <1>4, <1>5, <1>6 DEF Emulator

(* ... and touches nothing a pump holds. *)
LEMMA EmulatorKeepsIInv ==
  ASSUME IInv, Emulator
  PROVE  IInv'
<1>1. UNCHANGED <<manualVars, g_completed>>
  BY DEF Emulator, Post, CallApi, FileReadAsync, FileReadAsyncDone, Tick, manualVars,
         QueueCallback, QueueCallResult, AllocCall, QueueCallResultOn
<1>2. TypeOK'
  BY <1>1, EmulatorQueues DEF IInv, TypeOK, manualVars
<1>3. BufferStable' /\ CompletionFetchable'
  BY <1>1 DEF IInv, BufferStable, CompletionFetchable, GetAPICallResult, manualVars
<1>. QED  BY <1>2, <1>3, EmulatorQueues DEF IInv

(* A pump that may get a message finds the buffer free and the other pipe  *)
(* reading nothing; what it is handed is then all that is read.            *)
LEMMA HandedAlone ==
  ASSUME IInv, NEW p \in Pipes, MayGet(p), NEW m \in Handed, HandOut(p, m)
  PROVE  /\ g_manualHeld' \in BOOLEAN
         /\ g_manualCurrent' \in Seq(Handed)
         /\ reading' \in [Pipes -> Seq(Handed)]
         /\ reading' = [q \in Pipes |-> IF q = p THEN <<m>> ELSE << >>]
         /\ BufferStable'
<1>1. reading \in [Pipes -> Seq(Handed)] /\ <<m>> \in Seq(Handed)
  BY DEF IInv, TypeOK
<1>2. \A q \in Pipes : reading[q] = << >>
  BY DEF IInv, BufferStable, MayGet
<1>3. reading' = [q \in Pipes |-> IF q = p THEN <<m>> ELSE << >>]
  BY <1>1, <1>2 DEF HandOut
<1>4. g_manualHeld' = TRUE /\ g_manualCurrent' = <<m>>
  BY DEF HandOut
<1>5. BufferStable'
  BY <1>3, <1>4 DEF BufferStable, Pipes
<1>. QED  BY <1>1, <1>3, <1>4, <1>5 DEF HandOut

LEMMA GetKeepsIInv ==
  ASSUME IInv, NEW p \in Pipes, GetNextCallback(p)
  PROVE  IInv'
<1>1. CASE GetCallback(p)
  <2>. DEFINE q == g_pendingCallbacks[FirstDueCallback(p)]
              m == [hCall |-> NoCall, id |-> q.id, seq |-> q.seq]
  <2>1. /\ MayGet(p) /\ HandOut(p, m)
        /\ g_pendingCallbacks' = RemoveAt(g_pendingCallbacks, FirstDueCallback(p))
        /\ UNCHANGED <<g_seq, g_nextCall, g_pendingResults, g_completed, reserved, now>>
    BY <1>1 DEF GetCallback
  <2>2. q \in Message /\ g_pendingCallbacks' \in Seq(Message)
    BY <1>1, <2>1, Taken DEF GetCallback, UseCallback, FirstDueCallback, IInv, TypeOK,
                             QueueTypeOK
  <2>3. m \in Handed
    BY <2>2 DEF Handed, Message, NoCall
  <2>4. /\ g_manualHeld' \in BOOLEAN
        /\ g_manualCurrent' \in Seq(Handed)
        /\ reading' \in [Pipes -> Seq(Handed)]
        /\ reading' = [o \in Pipes |-> IF o = p THEN <<m>> ELSE << >>]
        /\ BufferStable'
    <3>. HIDE DEF m
    <3>. QED  BY <2>1, <2>3, HandedAlone
  <2>5. TypeOK'
    BY <2>1, <2>2, <2>4 DEF IInv, TypeOK, QueueTypeOK
  <2>6. EveryCallOnce' /\ ResultsNamed'
    BY <2>1 DEF IInv, EveryCallOnce, ResultsNamed, Allocated
  <2>7. CompletionFetchable'
    BY <2>4 DEF CompletionFetchable
  <2>. QED  BY <2>4, <2>5, <2>6, <2>7 DEF IInv
<1>2. CASE GetCompletion(p)
  <2>1. PICK r \in Message :
          /\ r.hCall \in CallsOf(g_pendingResults)
          /\ CallsOf(g_pendingResults)' = CallsOf(g_pendingResults) \ {r.hCall}
          /\ Distinct(g_pendingResults)'
          /\ g_pendingResults' \in Seq(Message)
          /\ ResultsNamed'
          /\ g_pendingCallbacks' = <<Shadow(r)>> \o g_pendingCallbacks
          /\ g_completed' = Append(g_completed, r)
          /\ HandOut(p, [hCall |-> r.hCall, id |-> r.id, seq |-> r.seq])
    BY <1>2, CompletionMoves
  <2>. DEFINE m == [hCall |-> r.hCall, id |-> r.id, seq |-> r.seq]
  <2>2. MayGet(p) /\ UNCHANGED <<g_seq, g_nextCall, reserved, now>>
    BY <1>2 DEF GetCompletion
  <2>3. m \in Handed
    BY DEF Handed, Message
  <2>4. /\ g_manualHeld' \in BOOLEAN
        /\ g_manualCurrent' \in Seq(Handed)
        /\ reading' \in [Pipes -> Seq(Handed)]
        /\ reading' = [o \in Pipes |-> IF o = p THEN <<m>> ELSE << >>]
        /\ BufferStable'
    <3>1. HandOut(p, m)
      BY <2>1
    <3>. HIDE DEF m
    <3>. QED  BY <2>2, <2>3, <3>1, HandedAlone
  <2>5. g_completed \in Seq(Message) /\ g_pendingCallbacks \in Seq(Message)
    BY DEF IInv, TypeOK, QueueTypeOK
  <2>6. g_pendingCallbacks' \in Seq(Message)
    <3>1. Shadow(r) \in Message
      BY DEF Shadow, Message, NoCall
    <3>2. <<Shadow(r)>> \in Seq(Message)
      BY <3>1
    <3>. QED  BY <2>1, <2>5, <3>2, ConcatProperties
  <2>7. /\ g_completed' \in Seq(Message)
        /\ CallsOf(g_completed)' = CallsOf(g_completed) \cup {r.hCall}
        /\ Distinct(g_completed)'
    <3>1. r.hCall \notin CallsOf(g_completed) /\ r.hCall # NoCall
      BY <2>1 DEF IInv, EveryCallOnce, CallsOf
    <3>. QED  BY <2>1, <2>5, <3>1, CallsOfAppend, AppendProperties DEF IInv, EveryCallOnce
  <2>8. TypeOK'
    BY <2>1, <2>2, <2>4, <2>6, <2>7 DEF IInv, TypeOK, QueueTypeOK
  <2>9. EveryCallOnce'
    BY <2>1, <2>2, <2>7 DEF IInv, EveryCallOnce, Allocated
  <2>10. CompletionFetchable'
    <3>1. /\ DOMAIN g_completed = 1..Len(g_completed)
          /\ Len(g_completed) \in Nat
          /\ DOMAIN g_completed' = 1..(Len(g_completed) + 1)
          /\ g_completed'[Len(g_completed) + 1] = r
          /\ \A i \in 1..Len(g_completed) : g_completed'[i] = g_completed[i]
      BY <2>1, <2>5, AppendProperties, LenProperties
    <3>2. \A j \in 1..Len(g_completed) : g_completed'[j].hCall # r.hCall
      BY <2>1, <3>1 DEF IInv, EveryCallOnce, CallsOf
    <3>3. GetAPICallResult(r.hCall, r.id)'
      BY <3>1, <3>2 DEF GetAPICallResult
    <3>4. reading'[p] = <<m>> /\ \A o \in Pipes : o # p => reading'[o] = << >>
      BY <2>4
    <3>. QED  BY <3>3, <3>4 DEF CompletionFetchable
  <2>. QED  BY <2>1, <2>4, <2>8, <2>9, <2>10 DEF IInv
<1>. QED  BY <1>1, <1>2 DEF GetNextCallback

LEMMA FreeKeepsIInv ==
  ASSUME IInv, NEW p \in Pipes, FreeLastCallback(p)
  PROVE  IInv'
<1>1. /\ g_manualHeld' = FALSE /\ g_manualCurrent' = << >>
      /\ reading' = [reading EXCEPT ![p] = << >>]
      /\ UNCHANGED queueVars
  BY DEF FreeLastCallback
<1>2. reading' = [q \in Pipes |-> << >>]
  BY <1>1 DEF IInv, TypeOK, BufferStable, FreeLastCallback, Pipes
<1>3. TypeOK' /\ EveryCallOnce' /\ ResultsNamed'
  <2>1. << >> \in Seq(Handed)
    OBVIOUS
  <2>2. TypeOK'
    BY <1>1, <1>2, <2>1 DEF IInv, TypeOK, QueueTypeOK, queueVars
  <2>. QED
    BY <1>1, <2>2 DEF IInv, EveryCallOnce, ResultsNamed, queueVars, Allocated
<1>4. BufferStable' /\ CompletionFetchable'
  BY <1>2 DEF BufferStable, CompletionFetchable
<1>. QED  BY <1>3, <1>4 DEF IInv

LEMMA NextIInv == IInv /\ [Next]_vars => IInv'
<1>. SUFFICES ASSUME IInv, [Next]_vars PROVE IInv'
  OBVIOUS
<1>1. CASE UNCHANGED vars
  BY <1>1 DEF IInv, vars, queueVars, TypeOK, QueueTypeOK, ResultsNamed, EveryCallOnce,
              Allocated, BufferStable, CompletionFetchable, GetAPICallResult
<1>. QED  BY <1>1, NextSplit, EmulatorKeepsIInv, GetKeepsIInv, FreeKeepsIInv

(* Whatever the emulator queues and the two pipes get and free, queued     *)
(* results carry a handle, each handle is in one place, and the buffer and *)
(* the completed results are what the reading pump was told.               *)
THEOREM InductiveInvariant == Spec => []IInv
<1>. QED  BY InitIInv, NextIInv, PTL DEF Spec

-----------------------------------------------------------------------------
(* What follows *)

(* Manual dispatch keeps its queues, buffer and pumps well typed: every    *)
(* position it removes is one of the queue, every message handed out is    *)
(* one.                                                                    *)
THEOREM TypeCorrect == Spec => []TypeOK
<1>1. IInv => TypeOK
  BY DEF IInv
<1>. QED  BY <1>1, InductiveInvariant, PTL

(* Every handle is promised, queued or completed, and in one place only,   *)
(* although a result may be taken out of the middle of the queue.          *)
THEOREM CallsDeliveredOnce == Spec => []EveryCallOnce
<1>1. IInv => EveryCallOnce
  BY DEF IInv
<1>. QED  BY <1>1, InductiveInvariant, PTL

(* The two pipes share one buffer and one flag, and FreeLastCallback looks *)
(* at neither its pipe nor its owner: still no pump loses what it reads.   *)
THEOREM BufferIsReaders == Spec => []BufferStable
<1>1. IInv => BufferStable
  BY DEF IInv
<1>. QED  BY <1>1, InductiveInvariant, PTL

(* GetAPICallResult answers for the completion a pump is reading.          *)
THEOREM CompletionCanBeFetched == Spec => []CompletionFetchable
<1>1. IInv => CompletionFetchable
  BY DEF IInv
<1>. QED  BY <1>1, InductiveInvariant, PTL

-----------------------------------------------------------------------------
(* Refinement *)

(* Every step is a step of AsyncCalls or leaves its variables alone:       *)
(* CallApi issues, FileReadAsync promises, FileReadAsyncDone produces,     *)
(* GetCompletion completes.                                                *)
LEMMA StepsImplement ==
  ASSUME IInv, [Next]_vars
  PROVE  [Calls!Next]_Calls!vars
<1>. DEFINE P == CallsOf(g_pendingResults)
<1>. USE DEF IInv
<1>1. ASSUME NEW h \in Nat \ {NoCall}, NEW id \in Ids, NEW gs \in BOOLEAN, NEW delay \in Delays,
             g_pendingResults' = Append(g_pendingResults, Stamp(h, id, gs, delay)),
             h \notin P
      PROVE  P' = P \cup {h}
  BY <1>1, ResultQueued
<1>2. ASSUME NEW id \in Ids, NEW gs \in BOOLEAN, NEW delay \in Delays, CallApi(id, gs, delay)
      PROVE  Calls!Issue
  <2>1. P' = P \cup {g_nextCall}
    BY <1>1, <1>2, HandlesInUse DEF CallApi, QueueCallResult
  <2>2. g_nextCall' = g_nextCall + 1 /\ UNCHANGED <<reserved, g_completed>>
    BY <1>2 DEF CallApi, QueueCallResult
  <2>. QED  BY <2>1, <2>2 DEF Calls!Issue
<1>3. FileReadAsync => Calls!Promise
  BY DEF FileReadAsync, AllocCall, Calls!Promise
<1>4. ASSUME NEW h \in reserved, NEW id \in Ids, NEW delay \in Delays,
             FileReadAsyncDone(h, id, delay)
      PROVE  Calls!Produce(h)
  <2>1. h \in Nat \ {NoCall} /\ h \notin P
    BY HandlesInUse
  <2>2. P' = P \cup {h}
    BY <1>1, <1>4, <2>1 DEF FileReadAsyncDone, QueueCallResultOn
  <2>3. reserved' = reserved \ {h} /\ UNCHANGED <<g_nextCall, g_completed>>
    BY <1>4 DEF FileReadAsyncDone, QueueCallResultOn
  <2>. QED  BY <2>2, <2>3 DEF Calls!Produce
<1>5. ASSUME NEW p \in Pipes, GetCompletion(p)
      PROVE  \E h \in P : Calls!Complete(h)
  <2>1. PICK r \in Message : /\ r.hCall \in P
                             /\ P' = P \ {r.hCall}
                             /\ g_completed' = Append(g_completed, r)
    BY <1>5, CompletionMoves
  <2>2. Done' = Append(Done, r.hCall)
    BY <2>1, DoneAppend DEF TypeOK
  <2>3. UNCHANGED <<g_nextCall, reserved>>
    BY <1>5 DEF GetCompletion
  <2>4. Calls!Complete(r.hCall)
    BY <2>1, <2>2, <2>3 DEF Calls!Complete, Done
  <2>. QED  BY <2>1, <2>4
<1>6. ASSUME UNCHANGED <<g_nextCall, reserved, g_pendingResults, g_completed>>
      PROVE  UNCHANGED Calls!vars
  BY <1>6 DEF Calls!vars
<1>7. ASSUME NEW p \in Pipes, GetCallback(p) \/ FreeLastCallback(p)
      PROVE  UNCHANGED Calls!vars
  BY <1>6, <1>7 DEF GetCallback, FreeLastCallback, queueVars
<1>8. ASSUME NEW id \in Ids, NEW gs \in BOOLEAN, NEW delay \in Delays, Post(id, gs, delay)
      PROVE  UNCHANGED Calls!vars
  BY <1>6, <1>8 DEF Post, QueueCallback
<1>9. Tick \/ UNCHANGED vars => UNCHANGED Calls!vars
  BY <1>6 DEF Tick, vars, queueVars
<1>10. CASE Emulator
  BY <1>2, <1>3, <1>4, <1>8, <1>9, <1>10 DEF Emulator, Calls!Next
<1>11. ASSUME NEW p \in Pipes, GetNextCallback(p) \/ FreeLastCallback(p)
       PROVE  [Calls!Next]_Calls!vars
  BY <1>5, <1>7, <1>11 DEF GetNextCallback, Calls!Next
<1>. QED  BY <1>9, <1>10, <1>11, NextSplit

(* Manual dispatch implements AsyncCalls: handles in order and never       *)
(* twice, one result per handle, completed once and kept.                  *)
THEOREM Implementation == Spec => ImplementsAsyncCalls
<1>1. Init => Calls!Init
  BY CallsOfEmpty DEF Init, QueueInit, Calls!Init
<1>2. IInv /\ [Next]_vars => [Calls!Next]_Calls!vars
  BY StepsImplement
<1>. QED  BY <1>1, <1>2, InductiveInvariant, PTL DEF Spec, ImplementsAsyncCalls, Calls!Spec

-----------------------------------------------------------------------------
(* A step of AsyncCalls keeps what is ready or done so, and moves nothing  *)
(* back from done.                                                         *)
LEMMA NothingForgotten ==
  ASSUME IInv, [Next]_vars
  PROVE  /\ CallsOf(g_completed) \subseteq CallsOf(g_completed)'
         /\ CallsOf(g_pendingResults) \subseteq
              CallsOf(g_pendingResults)' \cup CallsOf(g_completed)'
<1>. USE DEF IInv
<1>1. ASSUME NEW id \in Ids, NEW gs \in BOOLEAN, NEW delay \in Delays, CallApi(id, gs, delay)
      PROVE  /\ UNCHANGED g_completed
             /\ CallsOf(g_pendingResults) \subseteq CallsOf(g_pendingResults)'
  BY <1>1, HandlesInUse, ResultQueued DEF CallApi, QueueCallResult
<1>2. ASSUME NEW h \in reserved, NEW id \in Ids, NEW delay \in Delays,
             FileReadAsyncDone(h, id, delay)
      PROVE  /\ UNCHANGED g_completed
             /\ CallsOf(g_pendingResults) \subseteq CallsOf(g_pendingResults)'
  <2>1. h \in Nat \ {NoCall} /\ h \notin CallsOf(g_pendingResults)
    BY HandlesInUse
  <2>. QED  BY <1>2, <2>1, ResultQueued DEF FileReadAsyncDone, QueueCallResultOn
<1>3. ASSUME NEW p \in Pipes, GetCompletion(p)
      PROVE  /\ CallsOf(g_completed) \subseteq CallsOf(g_completed)'
             /\ CallsOf(g_pendingResults) \subseteq
                  CallsOf(g_pendingResults)' \cup CallsOf(g_completed)'
  <2>1. PICK r \in Message :
          /\ CallsOf(g_pendingResults)' = CallsOf(g_pendingResults) \ {r.hCall}
          /\ g_completed' = Append(g_completed, r)
    BY <1>3, CompletionMoves
  <2>2. CallsOf(g_completed)' = CallsOf(g_completed) \cup ({r.hCall} \ {NoCall})
    BY <2>1, CallsOfAppend DEF TypeOK, QueueTypeOK
  <2>3. NoCall \notin CallsOf(g_pendingResults)
    BY DEF CallsOf
  <2>. QED  BY <2>1, <2>2, <2>3
<1>4. ASSUME UNCHANGED <<g_pendingResults, g_completed>>
      PROVE  /\ CallsOf(g_completed) \subseteq CallsOf(g_completed)'
             /\ CallsOf(g_pendingResults) \subseteq
                  CallsOf(g_pendingResults)' \cup CallsOf(g_completed)'
  BY <1>4
<1>5. \/ \E id \in Ids, gs \in BOOLEAN, delay \in Delays : CallApi(id, gs, delay)
      \/ \E h \in reserved, id \in Ids, delay \in Delays : FileReadAsyncDone(h, id, delay)
      \/ \E p \in Pipes : GetCompletion(p)
      \/ UNCHANGED <<g_pendingResults, g_completed>>
  BY DEF Next, vars, queueVars, Post, QueueCallback, FileReadAsync, AllocCall, Tick,
         GetNextCallback, GetCallback, FreeLastCallback
<1>. QED  BY <1>1, <1>2, <1>3, <1>4, <1>5

(* A poll of a call whose result was queued never answers "failed" and     *)
(* never goes back to "pending": manual dispatch puts a result among the   *)
(* completed ones in the critical section that takes it from the queue.    *)
THEOREM PollsConsistent == Spec => PollNeverFails
<1>. DEFINE Poll == \A h \in CallsOf(g_pendingResults) \cup CallsOf(g_completed) :
                      /\ ~IsCallCompleted(h).failed'
                      /\ IsCallCompleted(h).completed => IsCallCompleted(h).completed'
<1>1. ASSUME IInv, [Next]_vars
      PROVE  Poll
  <2>1. SUFFICES ASSUME NEW h \in CallsOf(g_pendingResults) \cup CallsOf(g_completed)
                 PROVE  /\ ~IsCallCompleted(h).failed'
                        /\ IsCallCompleted(h).completed => IsCallCompleted(h).completed'
    OBVIOUS
  <2>2. h \in CallsOf(g_pendingResults)' \cup CallsOf(g_completed)'
    BY <1>1, NothingForgotten
  <2>3. ~IsCallCompleted(h).failed'
    BY <2>2 DEF IsCallCompleted
  <2>4. ASSUME IsCallCompleted(h).completed
        PROVE  IsCallCompleted(h).completed'
    <3>1. h \in CallsOf(g_completed)
      BY <2>4 DEF IsCallCompleted
    <3>2. h \in CallsOf(g_completed)'
      BY <1>1, <3>1, NothingForgotten
    <3>. QED  BY <3>2 DEF IsCallCompleted
  <2>. QED  BY <2>3, <2>4
<1>2. IInv /\ [Next]_vars => [Poll]_vars
  BY <1>1
<1>. QED  BY <1>2, InductiveInvariant, PTL DEF Spec, PollNeverFails

-----------------------------------------------------------------------------
(* The order of delivery *)

(* Both queues are in the order of their stamps, but for the shadows of    *)
(* completed results, which are put at the front of the callbacks.         *)
QueuesOrdered ==
  /\ StampsBelow(g_pendingCallbacks, g_seq) /\ StampsBelow(g_pendingResults, g_seq)
  /\ Ascending(g_pendingResults)
  /\ \A i, j \in DOMAIN g_pendingCallbacks :
       i < j /\ g_pendingCallbacks[i].seq \notin SeqsOf(g_completed) =>
         g_pendingCallbacks[i].seq < g_pendingCallbacks[j].seq

(* What is left of a queue without one of its messages is in order. *)
LEMMA RemoveAtKeepsOrder ==
  ASSUME NEW q \in Seq(Message), NEW k \in DOMAIN q
  PROVE  \A i, j \in DOMAIN RemoveAt(q, k) : \E a, b \in DOMAIN q \ {k} :
           /\ RemoveAt(q, k)[i] = q[a] /\ RemoveAt(q, k)[j] = q[b]
           /\ i < j => a < b
<1>. DEFINE Old(i) == IF i < k THEN i ELSE i + 1
<1>1. Len(q) \in Nat /\ DOMAIN q = 1..Len(q) /\ k \in 1..Len(q)
  BY LenProperties
<1>2. /\ DOMAIN RemoveAt(q, k) = 1..(Len(q) - 1)
      /\ \A i \in 1..(Len(q) - 1) : RemoveAt(q, k)[i] = q[Old(i)]
  BY RemoveAtProperties
<1>3. \A i, j \in 1..(Len(q) - 1) :
        Old(i) \in DOMAIN q \ {k} /\ (i < j => Old(i) < Old(j))
  BY <1>1
<1>. HIDE DEF Old
<1>. QED  BY <1>2, <1>3

(* A message queued with the next stamp is the last of its queue. *)
LEMMA StampedLast ==
  ASSUME QueueTypeOK, NEW q \in Seq(Message), StampsBelow(q, g_seq),
         NEW h \in Nat, NEW id \in Ids, NEW gs \in BOOLEAN, NEW delay \in Delays
  PROVE  LET r == Append(q, Stamp(h, id, gs, delay))
         IN  /\ StampsBelow(r, g_seq + 1)
             /\ Ascending(q) => Ascending(r)
             /\ DOMAIN q \subseteq DOMAIN r
             /\ \A i \in DOMAIN q : r[i] = q[i]
             /\ \A i, j \in DOMAIN r : i < j =>
                  i \in DOMAIN q /\ (j \in DOMAIN q \/ r[j].seq = g_seq)
<1>. DEFINE m == Stamp(h, id, gs, delay)
<1>1. m \in Message /\ m.seq = g_seq
  BY StampType, DispatchAssumption DEF Stamp
<1>. HIDE DEF m
<1>2. StampsBelow(Append(q, m), g_seq + 1) /\ (Ascending(q) => Ascending(Append(q, m)))
  BY <1>1, AppendStamped
<1>3. /\ DOMAIN Append(q, m) = 1..(Len(q) + 1)
      /\ DOMAIN q = 1..Len(q)
      /\ Len(q) \in Nat
      /\ Append(q, m)[Len(q) + 1] = m
      /\ \A i \in 1..Len(q) : Append(q, m)[i] = q[i]
  BY LenProperties, AppendProperties
<1>4. \A i, j \in DOMAIN Append(q, m) : i < j =>
        i \in DOMAIN q /\ (j \in DOMAIN q \/ Append(q, m)[j].seq = g_seq)
  BY <1>1, <1>3
<1>. QED  BY <1>2, <1>3, <1>4 DEF m

LEMMA NextQueuesOrdered == IInv /\ QueuesOrdered /\ [Next]_vars => QueuesOrdered'
<1>. SUFFICES ASSUME IInv, QueuesOrdered, [Next]_vars PROVE QueuesOrdered'
  OBVIOUS
<1>1. /\ QueueTypeOK /\ g_seq \in Nat
      /\ g_pendingCallbacks \in Seq(Message) /\ g_pendingResults \in Seq(Message)
      /\ g_completed \in Seq(Message)
  BY DEF IInv, TypeOK, QueueTypeOK
<1>. USE DEF QueuesOrdered
<1>2. ASSUME NEW id \in Ids, NEW gs \in BOOLEAN, NEW delay \in Delays, Post(id, gs, delay)
      PROVE  QueuesOrdered'
  <2>1. /\ g_pendingCallbacks' = Append(g_pendingCallbacks, Stamp(NoCall, id, gs, delay))
        /\ g_seq' = g_seq + 1 /\ UNCHANGED <<g_pendingResults, g_completed>>
    BY <1>2 DEF Post, QueueCallback
  <2>2. StampsBelow(g_pendingResults, g_seq + 1)
    BY <1>1, BelowMore
  <2>3. /\ StampsBelow(g_pendingCallbacks', g_seq + 1)
        /\ \A i \in DOMAIN g_pendingCallbacks : g_pendingCallbacks'[i] = g_pendingCallbacks[i]
        /\ \A i, j \in DOMAIN g_pendingCallbacks' : i < j =>
             /\ i \in DOMAIN g_pendingCallbacks
             /\ j \in DOMAIN g_pendingCallbacks \/ g_pendingCallbacks'[j].seq = g_seq
    <3>1. NoCall \in Nat
      BY DEF NoCall
    <3>. QED  BY <1>1, <2>1, <3>1, StampedLast
  <2>4. \A i, j \in DOMAIN g_pendingCallbacks' :
          i < j /\ g_pendingCallbacks'[i].seq \notin SeqsOf(g_completed) =>
            g_pendingCallbacks'[i].seq < g_pendingCallbacks'[j].seq
    BY <2>3 DEF StampsBelow
  <2>. QED  BY <2>1, <2>2, <2>3, <2>4
<1>3. ASSUME NEW h \in Nat, NEW id \in Ids, NEW gs \in BOOLEAN, NEW delay \in Delays,
             g_pendingResults' = Append(g_pendingResults, Stamp(h, id, gs, delay)),
             g_seq' = g_seq + 1, UNCHANGED <<g_pendingCallbacks, g_completed>>
      PROVE  QueuesOrdered'
  <2>1. StampsBelow(g_pendingCallbacks, g_seq + 1)
    BY <1>1, BelowMore
  <2>2. StampsBelow(g_pendingResults', g_seq + 1) /\ Ascending(g_pendingResults')
    BY <1>1, <1>3, StampedLast
  <2>. QED  BY <1>3, <2>1, <2>2
<1>4. ASSUME NEW id \in Ids, NEW gs \in BOOLEAN, NEW delay \in Delays, CallApi(id, gs, delay)
      PROVE  QueuesOrdered'
  BY <1>3, <1>4, HandlesInUse DEF CallApi, QueueCallResult
<1>5. ASSUME NEW h \in reserved, NEW id \in Ids, NEW delay \in Delays,
             FileReadAsyncDone(h, id, delay)
      PROVE  QueuesOrdered'
  BY <1>3, <1>5, HandlesInUse DEF FileReadAsyncDone, QueueCallResultOn
<1>6. CASE UNCHANGED <<g_pendingCallbacks, g_pendingResults, g_completed, g_seq>>
  BY <1>6
<1>7. ASSUME NEW p \in Pipes, GetCallback(p)
      PROVE  QueuesOrdered'
  <2>. DEFINE k == FirstDueCallback(p)
  <2>1. /\ g_pendingCallbacks' = RemoveAt(g_pendingCallbacks, k)
        /\ UNCHANGED <<g_seq, g_pendingResults, g_completed>>
    BY <1>7 DEF GetCallback
  <2>2. k \in DOMAIN g_pendingCallbacks
    BY <1>1, <1>7, Taken DEF IInv, GetCallback, UseCallback, FirstDueCallback
  <2>. HIDE DEF k
  <2>3. \A i, j \in DOMAIN g_pendingCallbacks' : \E a, b \in DOMAIN g_pendingCallbacks :
           /\ g_pendingCallbacks'[i] = g_pendingCallbacks[a]
           /\ g_pendingCallbacks'[j] = g_pendingCallbacks[b]
           /\ i < j => a < b
    BY <1>1, <2>1, <2>2, RemoveAtKeepsOrder
  <2>. QED  BY <2>1, <2>3 DEF StampsBelow
<1>8. ASSUME NEW p \in Pipes, GetCompletion(p)
      PROVE  QueuesOrdered'
  <2>. DEFINE k == FirstDueResult(p)
              r == g_pendingResults[k]
              s == Shadow(r)
  <2>1. /\ g_pendingResults' = RemoveAt(g_pendingResults, k)
        /\ g_pendingCallbacks' = <<s>> \o g_pendingCallbacks
        /\ g_completed' = Append(g_completed, r)
        /\ UNCHANGED g_seq
    BY <1>8 DEF GetCompletion, TakeResult, PostShadow, Complete
  <2>2. k \in DOMAIN g_pendingResults /\ r \in Message
    BY <1>1, <1>8, Taken DEF IInv, GetCompletion, FirstDueResult
  <2>3. s \in Message /\ s.seq = r.seq /\ r.seq < g_seq
    BY <2>2 DEF Shadow, Message, NoCall, StampsBelow
  <2>. HIDE DEF k, s
  <2>4. \A i, j \in DOMAIN g_pendingResults' : \E a, b \in DOMAIN g_pendingResults :
           /\ g_pendingResults'[i] = g_pendingResults[a]
           /\ g_pendingResults'[j] = g_pendingResults[b]
           /\ i < j => a < b
    BY <1>1, <2>1, <2>2, RemoveAtKeepsOrder
  <2>5. StampsBelow(g_pendingResults', g_seq) /\ Ascending(g_pendingResults')
    BY <2>4 DEF StampsBelow, Ascending
  <2>6. r.seq \in SeqsOf(g_completed') /\ SeqsOf(g_completed) \subseteq SeqsOf(g_completed')
    <3>1. /\ DOMAIN g_completed = 1..Len(g_completed)
          /\ Len(g_completed) \in Nat
          /\ DOMAIN g_completed' = 1..(Len(g_completed) + 1)
          /\ g_completed'[Len(g_completed) + 1] = r
          /\ \A i \in 1..Len(g_completed) : g_completed'[i] = g_completed[i]
      <4>. HIDE DEF r
      <4>. QED  BY <1>1, <2>1, <2>2, AppendProperties, LenProperties
    <3>. QED  BY <3>1 DEF SeqsOf
  <2>7. /\ DOMAIN g_pendingCallbacks' = 1..(Len(g_pendingCallbacks) + 1)
        /\ DOMAIN g_pendingCallbacks = 1..Len(g_pendingCallbacks)
        /\ Len(g_pendingCallbacks) \in Nat
        /\ g_pendingCallbacks'[1] = s
        /\ \A i \in 2..(Len(g_pendingCallbacks) + 1) :
             g_pendingCallbacks'[i] = g_pendingCallbacks[i - 1]
    <3>1. <<s>> \in Seq(Message) /\ Len(<<s>>) = 1 /\ <<s>>[1] = s
      BY <2>3
    <3>. QED  BY <1>1, <2>1, <3>1, ConcatProperties, LenProperties
  <2>8. StampsBelow(g_pendingCallbacks', g_seq)
    BY <2>3, <2>7 DEF StampsBelow
  <2>9. \A i, j \in DOMAIN g_pendingCallbacks' :
          i < j /\ g_pendingCallbacks'[i].seq \notin SeqsOf(g_completed') =>
            g_pendingCallbacks'[i].seq < g_pendingCallbacks'[j].seq
    <3>1. SUFFICES ASSUME NEW i \in DOMAIN g_pendingCallbacks',
                          NEW j \in DOMAIN g_pendingCallbacks', i < j,
                          g_pendingCallbacks'[i].seq \notin SeqsOf(g_completed')
                   PROVE  g_pendingCallbacks'[i].seq < g_pendingCallbacks'[j].seq
      OBVIOUS
    <3>2. i # 1
      BY <2>3, <2>6, <2>7, <3>1
    <3>3. /\ i - 1 \in DOMAIN g_pendingCallbacks /\ j - 1 \in DOMAIN g_pendingCallbacks
          /\ i - 1 < j - 1
          /\ g_pendingCallbacks'[i] = g_pendingCallbacks[i - 1]
          /\ g_pendingCallbacks'[j] = g_pendingCallbacks[j - 1]
      BY <2>7, <3>1, <3>2
    <3>. QED  BY <2>6, <3>1, <3>3
  <2>. QED  BY <2>1, <2>5, <2>8, <2>9
<1>9. ASSUME NEW p \in Pipes, FreeLastCallback(p)
      PROVE  QueuesOrdered'
  BY <1>6, <1>9 DEF FreeLastCallback, queueVars
<1>10. CASE FileReadAsync \/ Tick \/ UNCHANGED vars
  BY <1>6, <1>10 DEF FileReadAsync, AllocCall, Tick, vars, queueVars
<1>. QED
  BY <1>2, <1>4, <1>5, <1>7, <1>8, <1>9, <1>10, NextSplit DEF Emulator, GetNextCallback

(* A plain callback never overtakes a result, a shadow or a callback that  *)
(* was queued before it for the same pipe and is due, for any latencies    *)
(* and both pipes, although shadows are put at the front of the queue.     *)
THEOREM CallbacksKeepOrder == Spec => CallbacksInOrder
<1>. DEFINE Order ==
       \A p \in Pipes :
         HandsOut(p) /\ Given(p).hCall = NoCall /\ Given(p).seq \notin SeqsOf(g_completed)
           => \A m \in Due(g_pendingResults', p) \cup Due(g_pendingCallbacks', p) :
                m.seq > Given(p).seq
<1>1. Init => QueuesOrdered
  BY DEF Init, QueueInit, QueuesOrdered, StampsBelow, Ascending
<1>2. ASSUME IInv, QueuesOrdered, [Next]_vars
      PROVE  Order
  <2>1. SUFFICES ASSUME NEW p \in Pipes, HandsOut(p), Given(p).hCall = NoCall,
                        Given(p).seq \notin SeqsOf(g_completed),
                        NEW m \in Due(g_pendingResults', p) \cup Due(g_pendingCallbacks', p)
                 PROVE  m.seq > Given(p).seq
    OBVIOUS
  <2>2. /\ g_pendingCallbacks \in Seq(Message) /\ g_pendingResults \in Seq(Message)
        /\ reading \in [Pipes -> Seq(Handed)]
    BY <1>2 DEF IInv, TypeOK, QueueTypeOK
  <2>3. GetCallback(p)
    <3>1. ASSUME NEW o \in Pipes, GetNextCallback(o) \/ FreeLastCallback(o), o # p
          PROVE  FALSE
      BY <2>1, <2>2, <3>1 DEF GetNextCallback, GetCallback, GetCompletion, FreeLastCallback,
                              HandOut, HandsOut
    <3>2. ~ FreeLastCallback(p)
      BY <2>1 DEF FreeLastCallback, HandsOut
    <3>3. ~ GetCompletion(p)
      <4>1. SUFFICES ASSUME GetCompletion(p) PROVE FALSE
        OBVIOUS
      <4>2. PICK r \in Message : /\ r.hCall \in CallsOf(g_pendingResults)
                                 /\ HandOut(p, [hCall |-> r.hCall, id |-> r.id, seq |-> r.seq])
        BY <1>2, <4>1, CompletionMoves
      <4>3. Given(p).hCall = r.hCall
        BY <2>2, <4>2 DEF HandOut, Given
      <4>. QED  BY <2>1, <4>2, <4>3 DEF CallsOf
    <3>4. ~ Emulator /\ ~ UNCHANGED vars
      BY <2>1 DEF HandsOut, Emulator, Post, CallApi, FileReadAsync, FileReadAsyncDone, Tick,
                  manualVars, vars
    <3>. QED  BY <1>2, <3>1, <3>2, <3>3, <3>4, NextSplit DEF GetNextCallback
  <2>. DEFINE k == FirstDueCallback(p)
              q == g_pendingCallbacks[k]
  <2>4. /\ g_pendingCallbacks' = RemoveAt(g_pendingCallbacks, k)
        /\ UNCHANGED g_pendingResults
        /\ Given(p).seq = q.seq
        /\ k # 0
    BY <2>2, <2>3 DEF GetCallback, HandOut, Given, UseCallback
  <2>5. k \in DOMAIN g_pendingCallbacks
    BY <2>2, <2>4, FirstDueInQueue DEF FirstDueCallback
  <2>6. CASE m \in Due(g_pendingResults', p)
    <3>. DEFINE d == FirstDueResult(p)
    <3>1. PICK j \in DOMAIN g_pendingResults :
            m = g_pendingResults[j] /\ m.gameServer = p /\ m.readyAt <= now
      BY <2>4, <2>6 DEF Due, ToSet
    <3>2. d # 0 /\ d <= j /\ d \in DOMAIN g_pendingResults
      BY <2>2, <3>1, FirstDueInQueue DEF FirstDueResult
    <3>3. q.seq < g_pendingResults[d].seq
      BY <2>3, <3>2 DEF GetCallback, UseCallback
    <3>. HIDE DEF d, k
    <3>4. g_pendingResults[d].seq <= m.seq
      <4>1. d \in Int /\ j \in Int
        BY <2>2, <3>2, LenProperties
      <4>2. CASE d = j
        BY <2>2, <3>1, <3>2, <4>2, StampsOf
      <4>3. CASE d < j
        BY <1>2, <2>2, <3>1, <3>2, <4>3, StampsOf DEF QueuesOrdered, Ascending
      <4>. QED  BY <3>2, <4>1, <4>2, <4>3
    <3>. QED  BY <2>2, <2>4, <2>5, <3>1, <3>2, <3>3, <3>4, StampsOf
  <2>7. CASE m \in Due(g_pendingCallbacks', p)
    <3>1. PICK i \in DOMAIN g_pendingCallbacks' :
            m = g_pendingCallbacks'[i] /\ m.gameServer = p /\ m.readyAt <= now
      BY <2>7 DEF Due, ToSet
    <3>2. PICK j \in DOMAIN g_pendingCallbacks \ {k} : m = g_pendingCallbacks[j]
      <4>. HIDE DEF k
      <4>. QED  BY <2>2, <2>4, <2>5, <3>1, RemoveAtKeepsOrder
    <3>3. k <= j
      BY <2>2, <3>1, <3>2, FirstDueInQueue DEF FirstDueCallback
    <3>. HIDE DEF k
    <3>4. k < j
      BY <2>2, <2>5, <3>2, <3>3, LenProperties
    <3>. QED  BY <1>2, <2>1, <2>2, <2>4, <2>5, <3>2, <3>4, StampsOf DEF QueuesOrdered
  <2>. QED  BY <2>1, <2>6, <2>7
<1>3. IInv /\ QueuesOrdered /\ [Next]_vars => [Order]_vars
  BY <1>2
<1>. QED
  BY <1>1, <1>3, NextQueuesOrdered, InductiveInvariant, PTL DEF Spec, CallbacksInOrder
=============================================================================
