----------------------- MODULE StandardDispatchProofs -----------------------
(***************************************************************************)
(* Proofs about StandardDispatch, for any set of threads, pumps, listeners *)
(* and waiters and any bounds: the types, that every call handle is in     *)
(* exactly one place, and that standard dispatch implements AsyncCalls;    *)
(* that no object is run after it was destroyed, if the game destroys none *)
(* in a pump; with one pump, the order of delivery; and with one thread,   *)
(* that no waiter waits for a result that was delivered already.           *)
(***************************************************************************)
EXTENDS StandardDispatch, DispatchQueueProofs

-----------------------------------------------------------------------------
(* What the inductive invariant adds to the types and to EveryCallOnce:    *)
(* plain callbacks carry no handle, so taking one moves no call; a pump    *)
(* that is not in RunCallbacks holds nothing, so Drain overwrites nothing; *)
(* and there are objects to run only while there is a message for them.    *)
Orderly(p) ==
  /\ CallsOf(drainedCallbacks[p]) = {}
  /\ Len(current[p]) <= 1
  /\ current[p] = << >> => AllRun(p)
  /\ pc[p] = "idle" => drainedResults[p] = << >> /\ current[p] = << >>

PumpState ==
  /\ CallsOf(g_pendingCallbacks) = {}
  /\ \A p \in Pumps : Orderly(p)

IInv == TypeOK /\ PumpState /\ EveryCallOnce

-----------------------------------------------------------------------------
(* Types *)

(* The four producers keep the queues well typed. *)
LEMMA ProducersTyped ==
  ASSUME QueueTypeOK, NEW id \in Ids, NEW gs \in BOOLEAN
  PROVE  /\ QueueCallback(id, gs, 0) => QueueTypeOK'
         /\ QueueCallResult(id, gs, 0) => QueueTypeOK'
         /\ AllocCall => QueueTypeOK'
         /\ \A h \in Nat : QueueCallResultOn(h, id, gs, 0) => QueueTypeOK'
<1>1. ASSUME NEW h \in Nat
      PROVE  Stamp(h, id, gs, 0) \in Message
  BY StampType
<1>2. ASSUME NEW q \in Seq(Message), NEW h \in Nat
      PROVE  Append(q, Stamp(h, id, gs, 0)) \in Seq(Message)
  BY <1>1, AppendProperties
<1>3. NoCall \in Nat /\ g_nextCall \in Nat
  BY DEF QueueTypeOK, NoCall
<1>4. QueueCallback(id, gs, 0) => QueueTypeOK'
  BY <1>2, <1>3 DEF QueueCallback, QueueTypeOK, NoCall
<1>5. QueueCallResult(id, gs, 0) => QueueTypeOK'
  BY <1>2, <1>3 DEF QueueCallResult, QueueTypeOK, NoCall
<1>6. AllocCall => QueueTypeOK'
  BY <1>3 DEF AllocCall, QueueTypeOK, NoCall
<1>7. ASSUME NEW h \in Nat, QueueCallResultOn(h, id, gs, 0)
      PROVE  QueueTypeOK'
  BY <1>2, <1>7 DEF QueueCallResultOn, QueueTypeOK, NoCall
<1>. QED  BY <1>4, <1>5, <1>6, <1>7

(* What the emulator and the game do keeps the types. *)
LEMMA GameTyped ==
  ASSUME TypeOK, Game
  PROVE  TypeOK'
<1>. USE DEF TypeOK
<1>1. ASSUME NEW id \in Ids, NEW gs \in BOOLEAN, Post(id, gs)
      PROVE  TypeOK'
  BY <1>1, ProducersTyped DEF Post, objectVars, threadVars, pumpVars
<1>2. ASSUME NEW t \in Threads, NEW id \in Ids, NEW gs \in BOOLEAN, CallApi(t, id, gs)
      PROVE  TypeOK'
  BY <1>2, ProducersTyped DEF CallApi, objectVars, pumpVars, QueueTypeOK
<1>3. ASSUME NEW t \in Threads, FileReadAsync(t)
      PROVE  TypeOK'
  <2>1. QueueTypeOK'
    BY <1>3 DEF FileReadAsync, AllocCall, QueueTypeOK, NoCall
  <2>. QED  BY <1>3, <2>1 DEF FileReadAsync, objectVars, pumpVars, QueueTypeOK
<1>4. ASSUME NEW t \in Threads, NEW id \in Ids, FileReadAsyncDone(t, id)
      PROVE  TypeOK'
  BY <1>4, ProducersTyped DEF FileReadAsyncDone, objectVars, pumpVars, NoCall
<1>5. ASSUME NEW t \in Threads, CreateBrowser(t)
      PROVE  TypeOK'
  <2>1. QueueTypeOK'
    BY <1>5 DEF CreateBrowser, AllocCall, QueueTypeOK, NoCall
  <2>. QED  BY <1>5, <2>1 DEF CreateBrowser, objectVars, pumpVars, QueueTypeOK
<1>6. ASSUME NEW t \in Threads, Discard(t)
      PROVE  TypeOK'
  BY <1>6 DEF Discard, objectVars, pumpVars, queueVars, QueueTypeOK, NoCall
<1>7. ASSUME NEW t \in Threads, NEW l \in Listeners,
             Listen(t, l) \/ StopListening(t, l) \/ DestroyListener(t, l)
      PROVE  TypeOK'
  <2>1. <<l, ListensTo[l]>> \in Listeners \X Ids
    BY StandardDispatchAssumption
  <2>2. g_callbacks' \subseteq Listeners \X Ids /\ g_results' = g_results
    BY <1>7, <2>1 DEF Listen, StopListening, DestroyListener, RegisterCallback,
                      UnregisterCallback
  <2>3. flagged' \subseteq Objects /\ alive' \subseteq Objects
    BY <1>7 DEF Listen, StopListening, DestroyListener, RegisterCallback,
                UnregisterCallback, Objects
  <2>4. UNCHANGED <<queueVars, awaiting, threadVars, pumpVars, lastSeen>>
    BY <1>7 DEF Listen, StopListening, DestroyListener
  <2>. QED
    BY <2>2, <2>3, <2>4 DEF pumpVars, threadVars, queueVars, QueueTypeOK
<1>8. ASSUME NEW t \in Threads, NEW w \in Waiters,
             Park(t, w) \/ Cancel(t, w) \/ DestroyWaiter(t, w)
      PROVE  TypeOK'
  <2>1. NoCall \in Nat /\ returned[t] \in Nat /\ <<w, returned[t]>> \in Waiters \X Nat
    BY DEF NoCall
  <2>2. g_results' \subseteq Waiters \X Nat
    BY <1>8, <2>1 DEF Park, Cancel, DestroyWaiter, UnregisterCallResult
  <2>3. flagged' \subseteq Objects /\ alive' \subseteq Objects
    BY <1>8 DEF Park, Cancel, DestroyWaiter, UnregisterCallResult, Objects
  <2>4. awaiting' \in [Waiters -> Nat] /\ returned' \in [Threads -> Nat]
    BY <1>8, <2>1 DEF Park, Cancel, DestroyWaiter, threadVars
  <2>5. UNCHANGED <<queueVars, g_callbacks, reading, pumpVars, lastSeen>>
    BY <1>8 DEF Park, Cancel, DestroyWaiter, UnregisterCallResult, threadVars
  <2>. QED
    BY <2>2, <2>3, <2>4, <2>5 DEF pumpVars, queueVars, QueueTypeOK
<1>. QED  BY <1>1, <1>2, <1>3, <1>4, <1>5, <1>6, <1>7, <1>8 DEF Game

(* A pump keeps the types; a listener is only run while there is a message *)
(* to run it with.                                                         *)
LEMMA PumpTyped ==
  ASSUME TypeOK, PumpState, NEW p \in Pumps, Drain(p) \/ Deliver(p)
  PROVE  TypeOK'
<1>. USE DEF TypeOK, QueueTypeOK, queueVars, objectVars, threadVars
<1>1. << >> \in Seq(Message)
  OBVIOUS
<1>2. CASE Drain(p)
  BY <1>1, <1>2 DEF Drain, Snapshot
<1>3. CASE TakeCallback(p)
  <2>1. drainedCallbacks[p] # << >> /\ drainedCallbacks[p] \in Seq(Message)
    BY <1>3 DEF TakeCallback, UseCallback
  <2>2. /\ Head(drainedCallbacks[p]) \in Message
        /\ Tail(drainedCallbacks[p]) \in Seq(Message)
    BY <2>1, HeadTailProperties
  <2>3. /\ drainedCallbacks' \in [Pumps -> Seq(Message)]
        /\ current' \in [Pumps -> Seq(Message)]
        /\ listenersToRun' \in [Pumps -> SUBSET Listeners]
    BY <1>3, <2>2 DEF TakeCallback, ListenersFor
  <2>. QED  BY <1>3, <2>3 DEF TakeCallback
<1>4. CASE TakeResult(p)
  <2>1. drainedResults[p] # << >> /\ drainedResults[p] \in Seq(Message)
    BY <1>4 DEF TakeResult
  <2>2. /\ Head(drainedResults[p]) \in Message
        /\ Tail(drainedResults[p]) \in Seq(Message)
    BY <2>1, HeadTailProperties
  <2>3. /\ drainedResults' \in [Pumps -> Seq(Message)]
        /\ current' \in [Pumps -> Seq(Message)]
        /\ waitersToRun' \in [Pumps -> SUBSET Waiters]
        /\ listenersToRun' \in [Pumps -> SUBSET Listeners]
    BY <1>4, <2>2 DEF TakeResult, ListenersFor
  <2>. QED  BY <1>4, <2>3 DEF TakeResult
<1>5. ASSUME NEW w \in Waiters, RunWaiter(p, w)
      PROVE  TypeOK'
  BY <1>5 DEF RunWaiter, NoCall
<1>6. ASSUME NEW l \in Listeners, RunListener(p, l)
      PROVE  TypeOK'
  <2>1. current[p] # << >>
    BY <1>6 DEF RunListener, PumpState, Orderly, AllRun
  <2>2. Head(current[p]) \in Message
    BY <2>1, HeadTailProperties
  <2>3. Head(current[p]).seq \in Nat
    BY <2>2 DEF Message
  <2>. QED  BY <1>6, <2>3 DEF RunListener
<1>7. CASE Return(p)
  BY <1>7 DEF Return
<1>8. CASE Retain(p)
  <2>1. current[p] # << >> /\ current[p] \in Seq(Message)
    BY <1>8, CallsOfEmpty DEF Retain, Complete
  <2>2. Append(g_completed, Head(current[p])) \in Seq(Message)
    BY <2>1, HeadTailProperties, AppendProperties
  <2>. QED  BY <1>1, <1>8, <2>2 DEF Retain, Complete
<1>9. CASE EndRun(p)
  BY <1>1, <1>9 DEF EndRun
<1>. QED  BY <1>2, <1>3, <1>4, <1>5, <1>6, <1>7, <1>8, <1>9 DEF Deliver

-----------------------------------------------------------------------------
(* The inductive invariant *)

LEMMA InitIInv == Init => IInv
<1>. SUFFICES ASSUME Init PROVE IInv
  OBVIOUS
<1>1. TypeOK
  BY DEF Init, QueueInit, TypeOK, QueueTypeOK, NoCall
<1>2. PumpState
  BY CallsOfEmpty DEF Init, QueueInit, PumpState, Orderly, AllRun
<1>3. EveryCallOnce
  BY CallsOfEmpty DEF Init, QueueInit, EveryCallOnce, NoneLost, NoneInvented,
                      NoneTwice, InFlight, Allocated
<1>. QED  BY <1>1, <1>2, <1>3 DEF IInv

(* Emulator and game do not touch a running pump, beyond its thread's own  *)
(* handler; plain callbacks are queued without a handle.                   *)
LEMMA GamePumpState ==
  ASSUME IInv, Game
  PROVE  PumpState'
<1>. USE DEF IInv
<1>1. UNCHANGED pumpVars
  BY DEF Game, Post, CallApi, FileReadAsync, FileReadAsyncDone, CreateBrowser,
         Discard, Listen, StopListening, DestroyListener, Park, Cancel, DestroyWaiter
<1>2. CallsOf(g_pendingCallbacks') = {}
  <2>1. ASSUME NEW id \in Ids, NEW gs \in BOOLEAN, Post(id, gs)
        PROVE  CallsOf(g_pendingCallbacks') = {}
    <3>1. Stamp(NoCall, id, gs, 0) \in Message
      BY StampType DEF TypeOK, NoCall
    <3>. QED  BY <2>1, <3>1, CallsOfAppend
              DEF Post, QueueCallback, PumpState, TypeOK, QueueTypeOK, Stamp
  <2>2. CASE UNCHANGED g_pendingCallbacks
    BY <2>2 DEF PumpState
  <2>3. \/ \E id \in Ids, gs \in BOOLEAN : Post(id, gs)
        \/ UNCHANGED g_pendingCallbacks
    BY DEF Game, CallApi, FileReadAsync, FileReadAsyncDone, CreateBrowser,
           Discard, Listen, StopListening, DestroyListener, Park, Cancel,
           DestroyWaiter, QueueCallResult, AllocCall, QueueCallResultOn, queueVars
  <2>. QED  BY <2>1, <2>2, <2>3
<1>. QED  BY <1>1, <1>2 DEF PumpState, Orderly, pumpVars, AllRun

(* A new handle goes to one place; nothing else moves. *)
LEMMA GameEveryCallOnce ==
  ASSUME IInv, Game
  PROVE  EveryCallOnce'
<1>. USE DEF IInv
<1>1. \A p \in Pumps : InFlight(p)' = InFlight(p) /\ UNCHANGED drainedResults
                         /\ UNCHANGED current
  BY DEF Game, Post, CallApi, FileReadAsync, FileReadAsyncDone, CreateBrowser,
         Discard, Listen, StopListening, DestroyListener, Park, Cancel,
         DestroyWaiter, pumpVars, InFlight
<1>2. g_nextCall \in Nat \ {NoCall} /\ NoCall = 0
  BY DEF TypeOK, QueueTypeOK, NoCall
<1>3. ASSUME NEW id \in Ids, NEW gs \in BOOLEAN, NEW h \in Nat, h # NoCall
      PROVE  LET q == Append(g_pendingResults, Stamp(h, id, gs, 0))
             IN  /\ CallsOf(q) = CallsOf(g_pendingResults) \cup {h}
                 /\ h \notin CallsOf(g_pendingResults) => Distinct(q)
  <2>1. Stamp(h, id, gs, 0) \in Message /\ Stamp(h, id, gs, 0).hCall = h
    BY StampType DEF TypeOK, Stamp
  <2>2. g_pendingResults \in Seq(Message)
    BY DEF TypeOK, QueueTypeOK
  <2>. QED  BY <1>3, <2>1, <2>2, CallsOfAppend DEF EveryCallOnce, NoneTwice
<1>4. ASSUME NEW id \in Ids, NEW gs \in BOOLEAN, QueueCallResult(id, gs, 0)
      PROVE  EveryCallOnce'
  <2>1. g_nextCall \notin Allocated /\ Allocated' = Allocated \cup {g_nextCall}
    BY <1>2, <1>4 DEF QueueCallResult, Allocated
  <2>2. /\ CallsOf(g_pendingResults)' = CallsOf(g_pendingResults) \cup {g_nextCall}
        /\ g_nextCall \notin CallsOf(g_pendingResults) => Distinct(g_pendingResults)'
    BY <1>2, <1>3, <1>4 DEF QueueCallResult
  <2>3. UNCHANGED <<g_completed, reserved>>
    BY <1>4 DEF QueueCallResult
  <2>. QED
    BY <1>1, <2>1, <2>2, <2>3 DEF EveryCallOnce, NoneLost, NoneInvented, NoneTwice
<1>5. ASSUME AllocCall
      PROVE  EveryCallOnce'
  <2>1. g_nextCall \notin Allocated /\ Allocated' = Allocated \cup {g_nextCall}
    BY <1>2, <1>5 DEF AllocCall, Allocated
  <2>2. reserved' = reserved \cup {g_nextCall} /\ UNCHANGED <<g_completed, g_pendingResults>>
    BY <1>5 DEF AllocCall
  <2>. QED
    BY <1>1, <2>1, <2>2 DEF EveryCallOnce, NoneLost, NoneInvented, NoneTwice
<1>6. ASSUME NEW id \in Ids, NEW h \in Nat, h # NoCall, QueueCallResultOn(h, id, FALSE, 0)
      PROVE  EveryCallOnce'
  <2>1. /\ h \in reserved /\ reserved' = reserved \ {h}
        /\ Allocated' = Allocated
        /\ UNCHANGED g_completed
    BY <1>6 DEF QueueCallResultOn, Allocated
  <2>2. /\ CallsOf(g_pendingResults)' = CallsOf(g_pendingResults) \cup {h}
        /\ h \notin CallsOf(g_pendingResults) => Distinct(g_pendingResults)'
    BY <1>3, <1>6 DEF QueueCallResultOn
  <2>. QED
    BY <1>1, <2>1, <2>2 DEF EveryCallOnce, NoneLost, NoneInvented, NoneTwice
<1>7. ASSUME UNCHANGED <<g_nextCall, g_pendingResults, g_completed, reserved>>
      PROVE  EveryCallOnce'
  BY <1>1, <1>7 DEF EveryCallOnce, NoneLost, NoneInvented, NoneTwice, Allocated
<1>8. \/ \E id \in Ids, gs \in BOOLEAN : QueueCallResult(id, gs, 0)
      \/ AllocCall
      \/ \E id \in Ids, h \in Nat : h # NoCall /\ QueueCallResultOn(h, id, FALSE, 0)
      \/ UNCHANGED <<g_nextCall, g_pendingResults, g_completed, reserved>>
  BY DEF Game, Post, CallApi, FileReadAsync, FileReadAsyncDone, CreateBrowser,
         Discard, Listen, StopListening, DestroyListener, Park, Cancel,
         DestroyWaiter, QueueCallback, queueVars, TypeOK
<1>. QED  BY <1>4, <1>5, <1>6, <1>7, <1>8

(* A pump's own order is all that its locals tell. *)
Untouched(q) ==
  UNCHANGED <<pc[q], drainedCallbacks[q], drainedResults[q], current[q],
              waitersToRun[q], listenersToRun[q]>>

LEMMA PumpStateFromStep ==
  ASSUME PumpState, NEW p \in Pumps,
         CallsOf(g_pendingCallbacks') = {},
         Orderly(p)',
         \A q \in Pumps \ {p} : Untouched(q)
  PROVE  PumpState'
<1>1. ASSUME NEW q \in Pumps \ {p} PROVE Orderly(q)'
  BY <1>1 DEF PumpState, Orderly, Untouched, AllRun
<1>. QED  BY <1>1 DEF PumpState

(* Every call is in the same place when the queues and what each pump      *)
(* holds are the same.                                                     *)
LEMMA NoCallMoves ==
  ASSUME EveryCallOnce,
         UNCHANGED <<g_nextCall, g_pendingResults, g_completed, reserved, drainedResults>>,
         \A q \in Pumps : CallsOf(current'[q]) = CallsOf(current[q])
  PROVE  EveryCallOnce'
<1>1. \A q \in Pumps : InFlight(q)' = InFlight(q)
  BY DEF InFlight
<1>. QED
  BY <1>1 DEF EveryCallOnce, NoneLost, NoneInvented, NoneTwice, Allocated

(* A step of a pump moves results between the places of EveryCallOnce, or  *)
(* leaves every call where it is.                                          *)
LEMMA PumpKeepsIInv ==
  ASSUME IInv, NEW p \in Pumps, Drain(p) \/ Deliver(p)
  PROVE  PumpState' /\ EveryCallOnce'
<1>. USE DEF IInv
<1>1. /\ drainedCallbacks \in [Pumps -> Seq(Message)]
      /\ drainedResults \in [Pumps -> Seq(Message)]
      /\ current \in [Pumps -> Seq(Message)]
      /\ pc \in [Pumps -> {"idle", "draining", "handler"}]
      /\ waitersToRun \in [Pumps -> SUBSET Waiters]
      /\ listenersToRun \in [Pumps -> SUBSET Listeners]
  BY DEF TypeOK
<1>2. Orderly(p) /\ CallsOf(g_pendingCallbacks) = {}
  BY DEF PumpState
<1>3. CASE Drain(p)
  <2>1. /\ InFlight(p) = {}
        /\ InFlight(p)' = CallsOf(g_pendingResults)
        /\ CallsOf(drainedResults[p])' = CallsOf(g_pendingResults)
        /\ CallsOf(current[p])' = {}
        /\ Distinct(drainedResults[p])'
    BY <1>1, <1>2, <1>3, CallsOfEmpty
       DEF Drain, Snapshot, Orderly, InFlight, EveryCallOnce, NoneTwice
  <2>2. \A q \in Pumps \ {p} : InFlight(q)' = InFlight(q) /\ Untouched(q)
    BY <1>1, <1>3 DEF Drain, Snapshot, InFlight, Untouched
  <2>3. /\ CallsOf(g_pendingResults)' = {}
        /\ CallsOf(g_pendingCallbacks)' = {}
        /\ Distinct(g_pendingResults)'
        /\ CallsOf(drainedCallbacks[p])' = {}
        /\ pc'[p] = "draining"
        /\ UNCHANGED <<g_nextCall, g_completed, reserved, current, waitersToRun,
                       listenersToRun>>
    BY <1>1, <1>2, <1>3, CallsOfEmpty DEF Drain, Snapshot
  <2>4. Orderly(p)'
    BY <1>2, <2>3 DEF Orderly, AllRun
  <2>5. PumpState'
    BY <2>2, <2>3, <2>4, PumpStateFromStep
  <2>6. EveryCallOnce'
    BY <2>1, <2>2, <2>3
       DEF EveryCallOnce, NoneLost, NoneInvented, NoneTwice, Allocated, Untouched
  <2>. QED  BY <2>5, <2>6
<1>4. CASE TakeCallback(p)
  <2>. DEFINE m == Head(drainedCallbacks[p])
  <2>1. drainedCallbacks[p] # << >> /\ drainedCallbacks[p] \in Seq(Message)
    BY <1>1, <1>4 DEF TakeCallback, UseCallback
  <2>2. /\ m \in Message
        /\ CallsOf(Tail(drainedCallbacks[p])) = {}
        /\ {m.hCall} \ {NoCall} = {}
    BY <1>2, <2>1, CallsOfHeadTail DEF Orderly
  <2>3. current'[p] = <<m>> /\ CallsOf(current[p]) = {}
    BY <1>1, <1>4 DEF TakeCallback, AtLoopTop
  <2>4. CallsOf(current'[p]) = {} /\ Len(current'[p]) = 1
    BY <2>2, <2>3, CallsOfOne
  <2>5. UNCHANGED <<g_nextCall, g_pendingCallbacks, g_pendingResults, g_completed,
                    reserved, drainedResults>>
    BY <1>4 DEF TakeCallback, queueVars
  <2>6. /\ current'[p] # << >>
        /\ pc'[p] # "idle"
        /\ drainedCallbacks'[p] = Tail(drainedCallbacks[p])
    BY <1>1, <1>4 DEF TakeCallback, AtLoopTop
  <2>7. Orderly(p)'
    BY <2>2, <2>4, <2>6 DEF Orderly
  <2>8. \A q \in Pumps \ {p} : Untouched(q)
    BY <1>1, <1>4 DEF TakeCallback, Untouched
  <2>9. PumpState'
    BY <1>2, <2>5, <2>7, <2>8, PumpStateFromStep
  <2>10. \A q \in Pumps : CallsOf(current'[q]) = CallsOf(current[q])
    BY <2>3, <2>4, <2>8 DEF Untouched
  <2>. QED  BY <2>5, <2>9, <2>10, NoCallMoves
<1>5. CASE TakeResult(p)
  <2>. DEFINE m == Head(drainedResults[p])
  <2>1. drainedResults[p] # << >> /\ drainedResults[p] \in Seq(Message)
    BY <1>1, <1>5 DEF TakeResult
  <2>2. /\ m \in Message
        /\ CallsOf(drainedResults[p]) = CallsOf(Tail(drainedResults[p])) \cup ({m.hCall} \ {NoCall})
        /\ Distinct(Tail(drainedResults[p]))
        /\ m.hCall \notin CallsOf(Tail(drainedResults[p]))
    BY <2>1, CallsOfHeadTail DEF EveryCallOnce, NoneTwice
  <2>3. current'[p] = <<m>> /\ CallsOf(current[p]) = {}
    BY <1>1, <1>5 DEF TakeResult, AtLoopTop
  <2>4. CallsOf(current'[p]) = {m.hCall} \ {NoCall} /\ Len(current'[p]) = 1
    BY <2>2, <2>3, CallsOfOne
  <2>5. UNCHANGED <<g_nextCall, g_pendingCallbacks, g_pendingResults, g_completed,
                    reserved, drainedCallbacks>>
    BY <1>5 DEF TakeResult, queueVars
  <2>6. /\ current'[p] # << >>
        /\ pc'[p] # "idle"
        /\ drainedResults'[p] = Tail(drainedResults[p])
    BY <1>1, <1>5 DEF TakeResult, AtLoopTop
  <2>7. Orderly(p)'
    BY <1>2, <2>4, <2>5, <2>6 DEF Orderly
  <2>8. \A q \in Pumps \ {p} : Untouched(q)
    BY <1>1, <1>5 DEF TakeResult, Untouched
  <2>9. PumpState'
    BY <1>2, <2>5, <2>7, <2>8, PumpStateFromStep
  <2>10. InFlight(p)' = InFlight(p)
    BY <2>2, <2>3, <2>4, <2>6 DEF InFlight
  <2>11. \A q \in Pumps \ {p} :
           InFlight(q)' = InFlight(q) /\ UNCHANGED <<drainedResults[q], current[q]>>
    BY <2>8 DEF InFlight, Untouched
  <2>12. CallsOf(drainedResults'[p]) \cap CallsOf(current'[p]) = {}
    BY <2>2, <2>4, <2>6
  <2>13. \A q \in Pumps : InFlight(q)' = InFlight(q)
    BY <2>10, <2>11
  <2>14. NoneLost' /\ NoneInvented'
    BY <2>5, <2>13 DEF EveryCallOnce, NoneLost, NoneInvented, Allocated
  <2>15. NoneTwice'
    BY <2>2, <2>5, <2>6, <2>11, <2>12, <2>13 DEF EveryCallOnce, NoneTwice
  <2>. QED  BY <2>9, <2>14, <2>15 DEF EveryCallOnce
<1>6. ASSUME NEW w \in Waiters, RunWaiter(p, w)
      PROVE  PumpState' /\ EveryCallOnce'
  <2>1. current[p] # << >>
    BY <1>2, <1>6 DEF RunWaiter, Orderly, AllRun
  <2>2. /\ \A q \in Pumps \ {p} : Untouched(q)
        /\ pc'[p] = "handler"
    BY <1>1, <1>6 DEF RunWaiter, Untouched
  <2>3. UNCHANGED <<queueVars, drainedCallbacks, drainedResults, current>>
    BY <1>6 DEF RunWaiter
  <2>4. PumpState'
    BY <1>2, <2>1, <2>2, <2>3, PumpStateFromStep DEF Orderly, queueVars
  <2>. QED  BY <2>3, <2>4, NoCallMoves DEF queueVars
<1>7. ASSUME NEW l \in Listeners, RunListener(p, l)
      PROVE  PumpState' /\ EveryCallOnce'
  <2>1. current[p] # << >>
    BY <1>2, <1>7 DEF RunListener, Orderly, AllRun
  <2>2. /\ \A q \in Pumps \ {p} : Untouched(q)
        /\ pc'[p] = "handler"
    BY <1>1, <1>7 DEF RunListener, Untouched
  <2>3. UNCHANGED <<queueVars, drainedCallbacks, drainedResults, current>>
    BY <1>7 DEF RunListener
  <2>4. PumpState'
    BY <1>2, <2>1, <2>2, <2>3, PumpStateFromStep DEF Orderly, queueVars
  <2>. QED  BY <2>3, <2>4, NoCallMoves DEF queueVars
<1>8. CASE Return(p)
  <2>1. /\ \A q \in Pumps \ {p} : Untouched(q)
        /\ pc'[p] = "draining"
    BY <1>1, <1>8 DEF Return, Untouched
  <2>2. UNCHANGED <<queueVars, drainedCallbacks, drainedResults, current,
                    waitersToRun, listenersToRun>>
    BY <1>8 DEF Return
  <2>3. PumpState'
    BY <1>2, <2>1, <2>2, PumpStateFromStep DEF Orderly, AllRun, queueVars
  <2>. QED  BY <2>2, <2>3, NoCallMoves DEF queueVars
<1>9. CASE Retain(p)
  <2>. DEFINE m == Head(current[p])
  <2>1. current[p] # << >> /\ current[p] \in Seq(Message) /\ Len(current[p]) <= 1
    BY <1>1, <1>2, <1>9, CallsOfEmpty DEF Retain, Complete, Orderly
  <2>2. m \in Message /\ CallsOf(current[p]) = {m.hCall} \ {NoCall}
    <3>1. Len(current[p]) \in Nat \ {0}
      BY <2>1, LenProperties, EmptySeq
    <3>2. DOMAIN current[p] = 1..1
      BY <2>1, <3>1, LenProperties
    <3>3. m \in Message /\ m = current[p][1]
      BY <2>1, HeadTailProperties
    <3>. QED  BY <3>2, <3>3 DEF CallsOf
  <2>3. m.hCall # NoCall /\ m.hCall \in InFlight(p)
    BY <1>9, <2>2 DEF Retain, Complete, InFlight
  <2>4. g_completed \in Seq(Message) /\ g_completed' = Append(g_completed, m)
    BY <1>9 DEF Retain, Complete, TypeOK, QueueTypeOK
  <2>5. m.hCall \notin CallsOf(g_completed)
    BY <2>3 DEF EveryCallOnce, NoneTwice
  <2>6. CallsOf(g_completed') = CallsOf(g_completed) \cup {m.hCall} /\ Distinct(g_completed')
    BY <2>2, <2>3, <2>4, <2>5, CallsOfAppend DEF EveryCallOnce, NoneTwice
  <2>7. /\ CallsOf(current'[p]) = {}
        /\ current'[p] = << >>
        /\ AllRun(p)
        /\ UNCHANGED <<g_nextCall, g_pendingCallbacks, g_pendingResults, reserved,
                       drainedCallbacks, drainedResults, pc, waitersToRun, listenersToRun>>
    BY <1>1, <1>9, CallsOfEmpty DEF Retain, Complete
  <2>8. \A q \in Pumps \ {p} : Untouched(q)
    BY <1>1, <1>9 DEF Retain, Complete, Untouched
  <2>9. Len(current'[p]) = 0
    BY <2>7
  <2>10. Orderly(p)'
    BY <1>2, <2>7, <2>9 DEF Orderly, AllRun
  <2>11. PumpState'
    BY <1>2, <2>7, <2>8, <2>10, PumpStateFromStep
  <2>12. InFlight(p) = InFlight(p)' \cup {m.hCall} /\ m.hCall \notin InFlight(p)'
    BY <2>2, <2>3, <2>7 DEF InFlight, EveryCallOnce, NoneTwice
  <2>13. \A q \in Pumps \ {p} :
           InFlight(q)' = InFlight(q) /\ UNCHANGED current[q]
    BY <2>7, <2>8 DEF InFlight, Untouched
  <2>14. \A q \in Pumps \ {p} : m.hCall \notin InFlight(q)
    BY <2>3 DEF EveryCallOnce, NoneTwice
  <2>15. m.hCall \notin reserved \cup CallsOf(g_pendingResults)
    BY <2>3 DEF EveryCallOnce, NoneTwice
  <2>16. NoneLost' /\ NoneInvented'
    BY <2>3, <2>6, <2>7, <2>12, <2>13
       DEF EveryCallOnce, NoneLost, NoneInvented, Allocated
  <2>17. NoneTwice'
    BY <2>6, <2>7, <2>12, <2>13, <2>14, <2>15 DEF EveryCallOnce, NoneTwice
  <2>. QED  BY <2>11, <2>16, <2>17 DEF EveryCallOnce
<1>10. CASE EndRun(p)
  <2>1. /\ CallsOf(current[p]) = {}
        /\ current'[p] = << >>
        /\ drainedResults[p] = << >>
        /\ AllRun(p)
    BY <1>1, <1>10 DEF EndRun, AtLoopTop
  <2>2. \A q \in Pumps \ {p} : Untouched(q)
    BY <1>1, <1>10 DEF EndRun, Untouched
  <2>3. UNCHANGED <<g_nextCall, g_pendingCallbacks, g_pendingResults, g_completed,
                    reserved, drainedCallbacks, drainedResults, waitersToRun,
                    listenersToRun>>
    BY <1>10 DEF EndRun, queueVars
  <2>4. CallsOf(current'[p]) = {} /\ Len(current'[p]) = 0
    BY <2>1, CallsOfEmpty
  <2>5. PumpState'
    BY <1>2, <2>1, <2>2, <2>3, <2>4, PumpStateFromStep DEF Orderly, AllRun
  <2>6. \A q \in Pumps : CallsOf(current'[q]) = CallsOf(current[q])
    BY <2>1, <2>2, <2>4 DEF Untouched
  <2>. QED  BY <2>3, <2>5, <2>6, NoCallMoves
<1>. QED
  BY <1>3, <1>4, <1>5, <1>6, <1>7, <1>8, <1>9, <1>10 DEF Deliver

LEMMA NextIInv == IInv /\ [Next]_vars => IInv'
<1>. SUFFICES ASSUME IInv, [Next]_vars PROVE IInv'
  OBVIOUS
<1>1. CASE Game
  BY <1>1, GameTyped, GamePumpState, GameEveryCallOnce DEF IInv
<1>2. ASSUME NEW p \in Pumps, Drain(p) \/ Deliver(p)
      PROVE  IInv'
  BY <1>2, PumpTyped, PumpKeepsIInv DEF IInv
<1>3. CASE UNCHANGED vars
  <2>1. UNCHANGED <<queueVars, drainedResults, current>> /\ UNCHANGED pumpVars
    BY <1>3 DEF vars, pumpVars
  <2>2. TypeOK'
    BY <1>3 DEF vars, queueVars, objectVars, threadVars, pumpVars, IInv, TypeOK,
                QueueTypeOK
  <2>3. PumpState'
    BY <2>1 DEF pumpVars, queueVars, IInv, PumpState, Orderly, AllRun
  <2>4. EveryCallOnce'
    BY <2>1, NoCallMoves DEF queueVars, IInv
  <2>. QED  BY <2>2, <2>3, <2>4 DEF IInv
<1>. QED  BY <1>1, <1>2, <1>3 DEF Next

(* Whatever the game and the pumps do, an idle pump holds nothing, and     *)
(* every call handle is in exactly one place.                              *)
THEOREM InductiveInvariant == Spec => []IInv
  BY InitIInv, NextIInv, PTL DEF Spec

(* The dispatcher's state and a running pump's locals keep their types;    *)
(* that a listener is run with a message (Head of current is one) is part  *)
(* of it.                                                                  *)
THEOREM TypeCorrect == Spec => []TypeOK
  BY InductiveInvariant, PTL DEF IInv

(* RunCallbacks neither loses nor repeats nor invents a call result: for   *)
(* any number of pumps, each allocated handle is at any time in exactly    *)
(* one of AllocCall's reserve, the queue, one pump's hands, g_completed.   *)
THEOREM CallsDeliveredOnce == Spec => []EveryCallOnce
  BY InductiveInvariant, PTL DEF IInv

-----------------------------------------------------------------------------
(* Refinement *)

(* Calls on their way, as AsyncCalls sees them, are the allocated handles  *)
(* that are neither promised nor completed: only the steps that touch one  *)
(* of these three touch what is ready.                                     *)
Ready == CallsOf(g_pendingResults) \cup UNION {InFlight(p) : p \in Pumps}

LEMMA ReadyIsTheRest ==
  EveryCallOnce => Ready = Allocated \ (reserved \cup CallsOf(g_completed))
<1>. SUFFICES ASSUME EveryCallOnce
              PROVE  Ready = Allocated \ (reserved \cup CallsOf(g_completed))
  OBVIOUS
<1>1. Ready \subseteq Allocated
  BY DEF Ready, EveryCallOnce, NoneInvented
<1>2. Ready \cap (reserved \cup CallsOf(g_completed)) = {}
  BY DEF Ready, EveryCallOnce, NoneTwice
<1>3. Allocated \subseteq Ready \cup reserved \cup CallsOf(g_completed)
  BY DEF Ready, EveryCallOnce, NoneLost
<1>. QED  BY <1>1, <1>2, <1>3

(* Every step is a step of AsyncCalls or leaves its variables alone:       *)
(* CallApi issues, FileReadAsync and CreateBrowser promise,                *)
(* FileReadAsyncDone produces, Retain completes.                           *)
LEMMA StepsImplement ==
  ASSUME IInv, [Next]_vars
  PROVE  [Calls!Next]_Calls!vars
<1>1. /\ Ready = Allocated \ (reserved \cup CallsOf(g_completed))
      /\ Ready' = Allocated' \ (reserved' \cup CallsOf(g_completed)')
  <2>1. EveryCallOnce /\ EveryCallOnce'
    BY NextIInv DEF IInv
  <2>2. EveryCallOnce' => (Ready = Allocated \ (reserved \cup CallsOf(g_completed)))'
    BY ReadyIsTheRest, PTL
  <2>. QED  BY <2>1, <2>2, ReadyIsTheRest
<1>2. /\ g_nextCall \in Nat \ {NoCall} /\ NoCall = 0
      /\ g_nextCall \notin reserved \cup CallsOf(g_completed)
      /\ reserved \cap CallsOf(g_completed) = {}
      /\ reserved \subseteq Allocated
  BY DEF IInv, TypeOK, QueueTypeOK, EveryCallOnce, NoneInvented, NoneTwice, Allocated,
         NoCall
<1>3. ASSUME NEW id \in Ids, NEW gs \in BOOLEAN, QueueCallResult(id, gs, 0)
      PROVE  Calls!Issue
  <2>1. g_nextCall' = g_nextCall + 1 /\ UNCHANGED <<reserved, g_completed>>
    BY <1>3 DEF QueueCallResult
  <2>2. Allocated' = Allocated \cup {g_nextCall}
    BY <1>2, <2>1 DEF Allocated
  <2>3. Ready' = Ready \cup {g_nextCall}
    BY <1>1, <1>2, <2>1, <2>2
  <2>. QED  BY <2>1, <2>3 DEF Calls!Issue, Ready
<1>4. ASSUME AllocCall
      PROVE  Calls!Promise
  <2>1. /\ g_nextCall' = g_nextCall + 1
        /\ reserved' = reserved \cup {g_nextCall}
        /\ UNCHANGED g_completed
    BY <1>4 DEF AllocCall
  <2>2. Allocated' = Allocated \cup {g_nextCall} /\ g_nextCall \notin Allocated
    BY <1>2, <2>1 DEF Allocated
  <2>3. Ready' = Ready
    BY <1>1, <1>2, <2>1, <2>2
  <2>. QED  BY <2>1, <2>3 DEF Calls!Promise, Ready
<1>5. ASSUME NEW h, NEW id \in Ids, QueueCallResultOn(h, id, FALSE, 0)
      PROVE  h \in reserved /\ Calls!Produce(h)
  <2>1. h \in reserved /\ reserved' = reserved \ {h} /\ UNCHANGED <<g_nextCall, g_completed>>
    BY <1>5 DEF QueueCallResultOn
  <2>2. Ready' = Ready \cup {h}
    BY <1>1, <1>2, <2>1 DEF Allocated
  <2>. QED  BY <2>1, <2>2 DEF Calls!Produce, Ready
<1>6. ASSUME NEW p \in Pumps, Retain(p)
      PROVE  \E h \in Ready : Calls!Complete(h)
  <2>. DEFINE m == Head(current[p])
  <2>1. /\ CallsOf(current[p]) # {} /\ g_completed' = Append(g_completed, m)
        /\ UNCHANGED <<g_nextCall, reserved>>
    BY <1>6 DEF Retain, Complete
  <2>2. current[p] \in Seq(Message) /\ current[p] # << >> /\ Len(current[p]) <= 1
    BY <2>1, CallsOfEmpty DEF IInv, TypeOK, PumpState, Orderly
  <2>3. m \in Message /\ CallsOf(current[p]) = {m.hCall} /\ m.hCall # NoCall
    <3>1. /\ m \in Message
          /\ CallsOf(current[p]) = CallsOf(Tail(current[p])) \cup ({m.hCall} \ {NoCall})
      BY <2>2, CallsOfHeadTail
    <3>2. Tail(current[p]) = << >>
      BY <2>2, HeadTailProperties, EmptySeq, LenProperties
    <3>. QED  BY <2>1, <3>1, <3>2, CallsOfEmpty
  <2>4. m.hCall \in Ready
    BY <2>3 DEF Ready, InFlight
  <2>5. CallsOf(g_completed)' = CallsOf(g_completed) \cup {m.hCall}
    BY <2>1, <2>3, CallsOfAppend DEF IInv, TypeOK, QueueTypeOK
  <2>6. Ready' = Ready \ {m.hCall}
    BY <1>1, <2>1, <2>5 DEF Allocated
  <2>7. Done' = Append(Done, m.hCall)
    BY <2>1, <2>3, DoneAppend DEF IInv, TypeOK
  <2>8. PICK h \in Ready : h = m.hCall
    BY <2>4
  <2>9. Calls!Complete(h)
    BY <2>1, <2>6, <2>7, <2>8 DEF Calls!Complete, Ready, Done
  <2>. QED  BY <2>9
<1>7. ASSUME UNCHANGED <<g_nextCall, reserved, g_completed>>
      PROVE  UNCHANGED Calls!vars
  <2>1. Ready' = Ready
    BY <1>1, <1>7 DEF Allocated
  <2>. QED  BY <1>7, <2>1 DEF Calls!vars, Ready
<1>8. \/ \E id \in Ids, gs \in BOOLEAN : QueueCallResult(id, gs, 0)
      \/ AllocCall
      \/ \E h \in Nat, id \in Ids : QueueCallResultOn(h, id, FALSE, 0)
      \/ \E p \in Pumps : Retain(p)
      \/ UNCHANGED <<g_nextCall, reserved, g_completed>>
  <2>1. CASE Game
    BY <2>1 DEF Game, Post, CallApi, FileReadAsync, FileReadAsyncDone, CreateBrowser,
         Discard, Listen, StopListening, DestroyListener, Park, Cancel,
         DestroyWaiter, QueueCallback, queueVars, IInv, TypeOK
  <2>2. ASSUME NEW p \in Pumps, Drain(p) \/ Deliver(p), ~Retain(p)
        PROVE  UNCHANGED <<g_nextCall, reserved, g_completed>>
    BY <2>2 DEF Drain, Deliver, TakeCallback, TakeResult, RunWaiter, RunListener,
         Return, EndRun, queueVars
  <2>3. CASE UNCHANGED vars
    BY <2>3 DEF vars, queueVars
  <2>. QED  BY <2>1, <2>2, <2>3 DEF Next
<1>. QED  BY <1>3, <1>4, <1>5, <1>6, <1>7, <1>8 DEF Calls!Next, Ready

(* RunCallbacks implements AsyncCalls, however many threads pump: handles  *)
(* in order and never twice, one result per handle, completed once, after  *)
(* everyone it was for has been run, and kept for GetAPICallResult.        *)
THEOREM Implementation == Spec => ImplementsAsyncCalls
<1>1. Init => Calls!Init
  <2>. SUFFICES ASSUME Init PROVE Calls!Init
    OBVIOUS
  <2>1. \A p \in Pumps : InFlight(p) = {}
    BY CallsOfEmpty DEF Init, InFlight
  <2>2. CallsOf(g_pendingResults) \cup UNION {InFlight(p) : p \in Pumps} = {}
    BY <2>1, CallsOfEmpty DEF Init, QueueInit
  <2>3. Done = << >>
    BY DEF Init, QueueInit, Done
  <2>. QED  BY <2>2, <2>3 DEF Init, QueueInit, Calls!Init, Done
<1>2. IInv /\ [Next]_vars => [Calls!Next]_Calls!vars
  BY StepsImplement
<1>. QED  BY <1>1, <1>2, InductiveInvariant, PTL DEF Spec, ImplementsAsyncCalls, Calls!Spec

-----------------------------------------------------------------------------
(* Objects: RunCallbacks runs none that has been destroyed, if the game    *)
(* destroys none while a pump is running.  RunCallbacks works on its own   *)
(* copy of the registrations, and the registration of a CCallResult        *)
(* outlives its run and then its object: what must be shown is that a      *)
(* registration left behind is for a call no pump will deliver again.      *)

(* A registered listener exists and knows that it is registered, so that   *)
(* its destructor unregisters it.                                          *)
CallbacksRegistered ==
  \A l \in Listeners, id \in Ids : <<l, id>> \in g_callbacks => l \in flagged \cap alive

(* No object is registered for, and no thread holds, a handle still to be  *)
(* allocated.                                                              *)
HandlesKnown ==
  /\ \A w \in Waiters, h \in Nat : <<w, h>> \in g_results => h \in Allocated
  /\ \A t \in Threads : returned[t] \in Allocated \cup {NoCall}

(* A waiter registered for a call still to be delivered exists and awaits  *)
(* that call, so that its destructor unregisters it for that call.         *)
Parked ==
  \A w \in Waiters, h \in reserved \cup CallsOf(g_pendingResults) :
    <<w, h>> \in g_results => w \in alive /\ awaiting[w] = h

Named(queue) == \A i \in DOMAIN queue : queue[i].hCall # NoCall

(* A pump's copies name no destroyed object for what is left to deliver.   *)
CopyAlive(p) ==
  /\ \A w \in Waiters, h \in CallsOf(drainedResults[p]) : <<w, h>> \in resReg[p] => w \in alive
  /\ pc[p] # "idle" => \A l \in Listeners, id \in Ids : <<l, id>> \in cbReg[p] => l \in alive
  /\ waitersToRun[p] \cup listenersToRun[p] \subseteq alive
  /\ Named(drainedResults[p])

OInv ==
  /\ CallbacksRegistered
  /\ HandlesKnown
  /\ Parked
  /\ Named(g_pendingResults)
  /\ \A p \in Pumps : CopyAlive(p)

LEMMA InitOInv == Init => OInv
<1>. SUFFICES ASSUME Init PROVE OInv
  OBVIOUS
<1>1. CallbacksRegistered /\ HandlesKnown
  BY DEF Init, QueueInit, CallbacksRegistered, HandlesKnown
<1>2. Parked /\ Named(g_pendingResults)
  BY DEF Init, QueueInit, Parked, Named
<1>3. \A p \in Pumps : CopyAlive(p)
  BY CallsOfEmpty DEF Init, CopyAlive, Named
<1>. QED  BY <1>1, <1>2, <1>3 DEF OInv

-----------------------------------------------------------------------------
(* A handle is known from the time it is allocated.                        *)
LEMMA HandleFacts ==
  ASSUME IInv
  PROVE  /\ g_nextCall \in Nat \ {NoCall} /\ NoCall = 0
         /\ g_nextCall \notin Allocated
         /\ reserved \subseteq Allocated
         /\ CallsOf(g_pendingResults) \subseteq Allocated
         /\ \A n \in Nat : n \in Allocated => n # NoCall
BY DEF IInv, TypeOK, QueueTypeOK, EveryCallOnce, NoneInvented, Allocated, NoCall

LEMMA NamedAppend ==
  ASSUME IInv, Named(g_pendingResults), NEW h \in Nat \ {NoCall}, NEW id \in Ids,
         NEW gs \in BOOLEAN
  PROVE  LET q == Append(g_pendingResults, Stamp(h, id, gs, 0))
         IN  Named(q) /\ CallsOf(q) = CallsOf(g_pendingResults) \cup {h}
<1>. DEFINE m == Stamp(h, id, gs, 0)
<1>1. m \in Message /\ m.hCall = h /\ g_pendingResults \in Seq(Message)
  BY StampType DEF IInv, TypeOK, QueueTypeOK, Stamp
<1>. HIDE DEF m
<1>2. Named(Append(g_pendingResults, m))
  BY <1>1, AppendProperties, LenProperties DEF Named
<1>3. CallsOf(Append(g_pendingResults, m)) = CallsOf(g_pendingResults) \cup {h}
  BY <1>1, CallsOfAppend
<1>. QED  BY <1>2, <1>3 DEF m

(* The emulator's part: handles are allocated and results queued.          *)
LEMMA QueueStep ==
  ASSUME IInv, OInv,
         UNCHANGED <<objectVars, pumpVars>>,
         \/ /\ UNCHANGED <<g_nextCall, reserved, g_pendingResults>>
            /\ \A t \in Threads : returned'[t] \in {returned[t], NoCall}
         \/ /\ AllocCall
            /\ \A t \in Threads : returned'[t] \in {returned[t], g_nextCall}
         \/ \E id \in Ids, gs \in BOOLEAN :
              /\ QueueCallResult(id, gs, 0)
              /\ \A t \in Threads : returned'[t] \in {returned[t], g_nextCall}
         \/ \E h \in reserved, id \in Ids :
              /\ QueueCallResultOn(h, id, FALSE, 0)
              /\ \A t \in Threads : returned'[t] \in {returned[t], h}
  PROVE  OInv'
<1>. USE DEF OInv, IInv
<1>1. /\ UNCHANGED <<g_callbacks, g_results, alive, flagged, awaiting>>
      /\ UNCHANGED <<pc, drainedResults, cbReg, resReg, waitersToRun, listenersToRun>>
  BY DEF objectVars, pumpVars
<1>2. CallbacksRegistered' /\ \A p \in Pumps : CopyAlive(p)'
  BY <1>1 DEF CallbacksRegistered, CopyAlive
<1>3. ASSUME UNCHANGED <<g_nextCall, reserved, g_pendingResults>>,
             \A t \in Threads : returned'[t] \in {returned[t], NoCall}
      PROVE  HandlesKnown' /\ Parked' /\ Named(g_pendingResults)'
  BY <1>1, <1>3 DEF HandlesKnown, Parked, Allocated
<1>4. ASSUME g_nextCall' = g_nextCall + 1
      PROVE  Allocated' = Allocated \cup {g_nextCall}
  BY <1>4, HandleFacts DEF Allocated
<1>5. ASSUME AllocCall, \A t \in Threads : returned'[t] \in {returned[t], g_nextCall}
      PROVE  HandlesKnown' /\ Parked' /\ Named(g_pendingResults)'
  <2>1. /\ g_nextCall' = g_nextCall + 1
        /\ reserved' = reserved \cup {g_nextCall}
        /\ UNCHANGED g_pendingResults
    BY <1>5 DEF AllocCall
  <2>2. HandlesKnown'
    BY <1>1, <1>4, <1>5, <2>1 DEF HandlesKnown
  <2>3. \A w \in Waiters : <<w, g_nextCall>> \notin g_results
    BY HandleFacts DEF HandlesKnown
  <2>4. Parked'
    BY <1>1, <2>1, <2>3 DEF Parked
  <2>. QED  BY <2>1, <2>2, <2>4
<1>6. ASSUME NEW id \in Ids, NEW gs \in BOOLEAN, QueueCallResult(id, gs, 0),
             \A t \in Threads : returned'[t] \in {returned[t], g_nextCall}
      PROVE  HandlesKnown' /\ Parked' /\ Named(g_pendingResults)'
  <2>1. /\ g_nextCall' = g_nextCall + 1
        /\ g_pendingResults' = Append(g_pendingResults, Stamp(g_nextCall, id, gs, 0))
        /\ UNCHANGED reserved
    BY <1>6 DEF QueueCallResult
  <2>2. /\ Named(g_pendingResults)'
        /\ CallsOf(g_pendingResults)' = CallsOf(g_pendingResults) \cup {g_nextCall}
    BY <2>1, HandleFacts, NamedAppend
  <2>3. HandlesKnown'
    BY <1>1, <1>4, <1>6, <2>1 DEF HandlesKnown
  <2>4. \A w \in Waiters : <<w, g_nextCall>> \notin g_results
    BY HandleFacts DEF HandlesKnown
  <2>5. Parked'
    BY <1>1, <2>1, <2>2, <2>4 DEF Parked
  <2>. QED  BY <2>2, <2>3, <2>5
<1>7. ASSUME NEW h \in reserved, NEW id \in Ids, QueueCallResultOn(h, id, FALSE, 0),
             \A t \in Threads : returned'[t] \in {returned[t], h}
      PROVE  HandlesKnown' /\ Parked' /\ Named(g_pendingResults)'
  <2>1. /\ g_pendingResults' = Append(g_pendingResults, Stamp(h, id, FALSE, 0))
        /\ reserved' = reserved \ {h}
        /\ UNCHANGED g_nextCall
    BY <1>7 DEF QueueCallResultOn
  <2>2. h \in Nat \ {NoCall} /\ h \in Allocated
    BY HandleFacts DEF Allocated
  <2>3. /\ Named(g_pendingResults)'
        /\ CallsOf(g_pendingResults)' = CallsOf(g_pendingResults) \cup {h}
    BY <2>1, <2>2, NamedAppend
  <2>4. HandlesKnown'
    BY <1>1, <1>7, <2>1, <2>2 DEF HandlesKnown, Allocated
  <2>5. Parked'
    BY <1>1, <2>1, <2>3 DEF Parked
  <2>. QED  BY <2>3, <2>4, <2>5
<1>. QED  BY <1>2, <1>3, <1>5, <1>6, <1>7

-----------------------------------------------------------------------------
(* Objects *)

LEMMA OneKind == \A l \in Listeners, w \in Waiters : l # w
  BY StandardDispatchAssumption

(* What the steps on objects have in common. *)
ObjectStep ==
  UNCHANGED <<queueVars, pumpVars>>

(* Nothing a pump copied is destroyed unless no pump runs, and then the    *)
(* copies are empty.                                                       *)
LEMMA CopiesKept ==
  ASSUME IInv, OInv, ObjectStep,
         alive \subseteq alive' \/ \A p \in Pumps : pc[p] = "idle"
  PROVE  Named(g_pendingResults)' /\ \A p \in Pumps : CopyAlive(p)'
<1>1. UNCHANGED <<g_pendingResults, pc, drainedResults, cbReg, resReg, waitersToRun,
                  listenersToRun>>
  BY DEF ObjectStep, queueVars, pumpVars
<1>2. ASSUME NEW p \in Pumps, alive \subseteq alive'
      PROVE  CopyAlive(p)'
  BY <1>1, <1>2 DEF OInv, CopyAlive
<1>3. ASSUME NEW p \in Pumps, pc[p] = "idle"
      PROVE  CopyAlive(p)'
  <2>1. /\ CallsOf(drainedResults[p]) = {}
        /\ waitersToRun[p] = {} /\ listenersToRun[p] = {}
    BY <1>3, CallsOfEmpty DEF IInv, PumpState, Orderly, AllRun
  <2>. QED  BY <1>1, <1>3, <2>1 DEF OInv, CopyAlive
<1>. QED  BY <1>1, <1>2, <1>3 DEF OInv

LEMMA ListenerStep ==
  ASSUME IInv, OInv, ~DestroyDuringPump, NEW t \in Threads, NEW l \in Listeners,
         Listen(t, l) \/ StopListening(t, l) \/ DestroyListener(t, l)
  PROVE  OInv'
<1>1. ObjectStep /\ UNCHANGED <<g_results, awaiting, returned>>
  BY DEF Listen, StopListening, DestroyListener, RegisterCallback, UnregisterCallback,
         ObjectStep, threadVars
<1>2. alive \subseteq alive' \/ \A p \in Pumps : pc[p] = "idle"
  BY DEF Listen, StopListening, DestroyListener, MayDestroy
<1>3. HandlesKnown'
  BY <1>1 DEF OInv, HandlesKnown, ObjectStep, queueVars, Allocated
<1>4. alive' \cap Waiters = alive \cap Waiters
  BY OneKind DEF Listen, StopListening, DestroyListener
<1>5. Parked'
  BY <1>1, <1>4 DEF OInv, Parked, ObjectStep, queueVars
<1>6. CASE Listen(t, l)
  <2>1. /\ g_callbacks' = g_callbacks \cup {<<l, ListensTo[l]>>}
        /\ flagged' = flagged \cup {l}
        /\ alive' = alive \cup {l}
    BY <1>6 DEF Listen, RegisterCallback
  <2>2. CallbacksRegistered'
    BY <2>1 DEF OInv, CallbacksRegistered
  <2>. QED  BY <1>1, <1>2, <1>3, <1>5, <2>2, CopiesKept DEF OInv
<1>7. CASE StopListening(t, l) \/ DestroyListener(t, l)
  <2>1. /\ \A k \in Listeners, id \in Ids :
             <<k, id>> \in g_callbacks' => k # l /\ <<k, id>> \in g_callbacks
        /\ flagged \ {l} \subseteq flagged'
        /\ alive \ {l} \subseteq alive'
    BY <1>7 DEF StopListening, DestroyListener, UnregisterCallback, OInv,
                CallbacksRegistered
  <2>2. CallbacksRegistered'
    BY <2>1 DEF OInv, CallbacksRegistered
  <2>. QED  BY <1>1, <1>2, <1>3, <1>5, <2>2, CopiesKept DEF OInv
<1>. QED  BY <1>6, <1>7

LEMMA WaiterStep ==
  ASSUME IInv, OInv, ~DestroyDuringPump, NEW t \in Threads, NEW w \in Waiters,
         Park(t, w) \/ Cancel(t, w) \/ DestroyWaiter(t, w)
  PROVE  OInv'
<1>1. ObjectStep /\ UNCHANGED g_callbacks
  BY DEF Park, Cancel, DestroyWaiter, UnregisterCallResult, ObjectStep
<1>2. alive \subseteq alive' \/ \A p \in Pumps : pc[p] = "idle"
  BY DEF Park, Cancel, DestroyWaiter, MayDestroy
<1>3. alive \ {w} \subseteq alive' /\ flagged \ {w} \subseteq flagged'
  BY DEF Park, Cancel, DestroyWaiter, UnregisterCallResult
<1>4. CallbacksRegistered'
  BY <1>1, <1>3, OneKind DEF OInv, CallbacksRegistered
<1>5. UNCHANGED <<g_nextCall, reserved, g_pendingResults>> /\ Allocated' = Allocated
  BY <1>1 DEF ObjectStep, queueVars, Allocated
<1>6. /\ awaiting \in [Waiters -> Nat] /\ returned \in [Threads -> Nat]
      /\ NoCall \notin reserved \cup CallsOf(g_pendingResults)
  BY HandleFacts DEF IInv, TypeOK, CallsOf, Allocated
<1>7. CASE Park(t, w)
  <2>1. /\ returned[t] # NoCall
        /\ alive' = alive \cup {w}
        /\ g_results' = (g_results \ {<<w, awaiting[w]>>}) \cup {<<w, returned[t]>>}
        /\ awaiting' = [awaiting EXCEPT ![w] = returned[t]]
        /\ returned' = [returned EXCEPT ![t] = NoCall]
    BY <1>7 DEF Park
  <2>2. HandlesKnown'
    BY <1>5, <1>6, <2>1 DEF OInv, HandlesKnown
  <2>3. Parked'
    BY <1>5, <1>6, <2>1 DEF OInv, Parked
  <2>. QED  BY <1>1, <1>2, <1>4, <2>2, <2>3, CopiesKept DEF OInv
<1>8. CASE Cancel(t, w) \/ DestroyWaiter(t, w)
  <2>1. /\ \A v \in Waiters, h \in Nat :
             <<v, h>> \in g_results' => <<v, h>> \in g_results
        /\ awaiting[w] # NoCall => <<w, awaiting[w]>> \notin g_results'
        /\ \A v \in Waiters \ {w} : awaiting'[v] = awaiting[v]
        /\ UNCHANGED returned
    BY <1>6, <1>8 DEF Cancel, DestroyWaiter, UnregisterCallResult, threadVars
  <2>2. HandlesKnown'
    BY <1>5, <2>1 DEF OInv, HandlesKnown
  <2>3. ASSUME NEW v \in Waiters, NEW h \in reserved \cup CallsOf(g_pendingResults),
               <<v, h>> \in g_results'
        PROVE  v \in alive' /\ awaiting'[v] = h
    <3>1. h \in Nat /\ h # NoCall
      BY <1>6, HandleFacts DEF Allocated
    <3>2. v \in alive /\ awaiting[v] = h
      BY <2>1, <2>3, <3>1 DEF OInv, Parked
    <3>3. v # w
      BY <2>1, <2>3, <3>1, <3>2
    <3>. QED  BY <1>3, <2>1, <3>2, <3>3
  <2>4. Parked'
    BY <1>5, <2>3 DEF Parked
  <2>. QED  BY <1>1, <1>2, <1>4, <2>2, <2>4, CopiesKept DEF OInv
<1>. QED  BY <1>7, <1>8

-----------------------------------------------------------------------------
(* Pumps *)

LEMMA OtherCopies ==
  ASSUME OInv, NEW p \in Pumps, CopyAlive(p)', UNCHANGED alive,
         \A q \in Pumps \ {p} :
           UNCHANGED <<pc[q], drainedResults[q], cbReg[q], resReg[q], waitersToRun[q],
                       listenersToRun[q]>>
  PROVE  \A q \in Pumps : CopyAlive(q)'
<1>1. ASSUME NEW q \in Pumps \ {p} PROVE CopyAlive(q)'
  BY <1>1 DEF OInv, CopyAlive
<1>. QED  BY <1>1

LEMMA NamedTail ==
  ASSUME NEW q \in Seq(Message), q # << >>, Named(q)
  PROVE  /\ Named(Tail(q))
         /\ Head(q).hCall \in CallsOf(q)
         /\ CallsOf(Tail(q)) \subseteq CallsOf(q)
<1>1. /\ DOMAIN q = 1..Len(q) /\ Len(q) \in Nat \ {0}
      /\ Head(q) = q[1]
      /\ DOMAIN Tail(q) = 1..(Len(q) - 1)
      /\ \A i \in 1..(Len(q) - 1) : Tail(q)[i] = q[i + 1]
  BY HeadTailProperties, LenProperties, EmptySeq
<1>. QED  BY <1>1, CallsOfHeadTail DEF Named, CallsOf

(* The listeners in a pump's copy of the registrations. *)
RegisteredIn(p) == {l \in Listeners : \E id \in Ids : <<l, id>> \in cbReg[p]}

LEMMA ListenersForRegistered ==
  ASSUME IInv, NEW p \in Pumps, NEW id
  PROVE  ListenersFor(p, id) \subseteq RegisteredIn(p)
<1>1. cbReg[p] \subseteq Listeners \X Ids
  BY DEF IInv, TypeOK
<1>2. ASSUME NEW l \in Listeners, <<l, id>> \in cbReg[p]
      PROVE  id \in Ids
  BY <1>1, <1>2
<1>. QED  BY <1>2 DEF ListenersFor, RegisteredIn

(* What a pump takes from its copies, or a waiter's run, keeps every       *)
(* object that is left to run among those that exist.                      *)
LEMMA PumpStep ==
  ASSUME IInv, OInv, NEW p \in Pumps, Drain(p) \/ Deliver(p)
  PROVE  OInv'
<1>. USE DEF OInv
<1>1. /\ pc \in [Pumps -> {"idle", "draining", "handler"}]
      /\ drainedResults \in [Pumps -> Seq(Message)]
      /\ cbReg \in [Pumps -> SUBSET (Listeners \X Ids)]
      /\ resReg \in [Pumps -> SUBSET (Waiters \X Nat)]
      /\ current \in [Pumps -> Seq(Message)]
      /\ waitersToRun \in [Pumps -> SUBSET Waiters]
      /\ listenersToRun \in [Pumps -> SUBSET Listeners]
      /\ awaiting \in [Waiters -> Nat]
  BY DEF IInv, TypeOK
<1>2. UNCHANGED <<g_nextCall, reserved, g_callbacks, g_results, alive, flagged, returned>>
  BY DEF Drain, Deliver, TakeCallback, TakeResult, RunWaiter, RunListener, Return,
         Retain, EndRun, queueVars, objectVars, threadVars
<1>3. CallbacksRegistered' /\ HandlesKnown'
  BY <1>2 DEF CallbacksRegistered, HandlesKnown, Allocated
<1>4. \A q \in Pumps \ {p} :
        UNCHANGED <<pc[q], drainedResults[q], cbReg[q], resReg[q], waitersToRun[q],
                    listenersToRun[q]>>
  BY <1>1 DEF Drain, Snapshot, Deliver, TakeCallback, TakeResult, RunWaiter, RunListener,
              Return, Retain, EndRun
<1>5. Named(g_pendingResults)' /\ Parked'
  <2>1. CASE Drain(p)
    <3>1. g_pendingResults' = << >> /\ UNCHANGED awaiting
      BY <2>1 DEF Drain, objectVars
    <3>2. Named(g_pendingResults)' /\ CallsOf(g_pendingResults)' = {}
      BY <3>1, CallsOfEmpty DEF Named
    <3>. QED  BY <1>2, <3>1, <3>2 DEF Parked
  <2>2. ASSUME NEW w \in Waiters, RunWaiter(p, w)
        PROVE  Named(g_pendingResults)' /\ Parked'
    <3>. DEFINE c == Head(current[p]).hCall
    <3>1. /\ w \in waitersToRun[p]
          /\ awaiting' = [awaiting EXCEPT ![w] = IF awaiting[w] = c THEN NoCall ELSE awaiting[w]]
          /\ UNCHANGED g_pendingResults
      BY <2>2 DEF RunWaiter, queueVars
    <3>2. current[p] # << >>
      BY <3>1 DEF IInv, PumpState, Orderly, AllRun
    <3>3. {c} \ {NoCall} \subseteq CallsOf(current[p])
      BY <1>1, <3>2, CallsOfHeadTail
    <3>4. c \notin reserved \cup CallsOf(g_pendingResults)
      BY <3>3, HandleFacts DEF IInv, EveryCallOnce, NoneTwice, InFlight, Allocated
    <3>. HIDE DEF c
    <3>5. Parked'
      BY <1>1, <1>2, <3>1, <3>4 DEF Parked
    <3>. QED  BY <3>1, <3>5
  <2>3. CASE \/ TakeCallback(p) \/ TakeResult(p) \/ \E l \in Listeners : RunListener(p, l)
             \/ Return(p) \/ Retain(p) \/ EndRun(p)
    <3>1. UNCHANGED <<g_pendingResults, awaiting>>
      BY <2>3 DEF TakeCallback, TakeResult, RunListener, Return, Retain, EndRun,
                  queueVars, objectVars
    <3>. QED  BY <1>2, <3>1 DEF Parked
  <2>. QED  BY <2>1, <2>2, <2>3 DEF Deliver
<1>6. CopyAlive(p)'
  <2>1. CASE Drain(p)
    <3>1. /\ pc[p] = "idle"
          /\ cbReg'[p] = g_callbacks
          /\ resReg'[p] = g_results
          /\ drainedResults'[p] = g_pendingResults
          /\ UNCHANGED <<waitersToRun, listenersToRun>>
      BY <1>1, <2>1 DEF Drain, Snapshot
    <3>2. \A w \in Waiters, h \in CallsOf(g_pendingResults) :
            <<w, h>> \in g_results => w \in alive
      BY DEF Parked
    <3>3. \A l \in Listeners, id \in Ids : <<l, id>> \in g_callbacks => l \in alive
      BY DEF CallbacksRegistered
    <3>. QED  BY <1>2, <3>1, <3>2, <3>3 DEF CopyAlive
  <2>2. CASE TakeCallback(p)
    <3>1. /\ pc[p] = "draining"
          /\ listenersToRun'[p] \subseteq RegisteredIn(p)
          /\ UNCHANGED <<pc, drainedResults, cbReg, resReg, waitersToRun>>
      BY <1>1, <2>2, ListenersForRegistered DEF TakeCallback, AtLoopTop
    <3>2. listenersToRun'[p] \subseteq alive
      BY <3>1 DEF CopyAlive, RegisteredIn
    <3>. QED  BY <1>2, <3>1, <3>2 DEF CopyAlive
  <2>3. CASE TakeResult(p)
    <3>. DEFINE r == Head(drainedResults[p])
    <3>1. /\ pc[p] = "draining"
          /\ drainedResults[p] # << >>
          /\ drainedResults'[p] = Tail(drainedResults[p])
          /\ waitersToRun'[p] = {w \in Waiters : <<w, r.hCall>> \in resReg[p]}
          /\ listenersToRun'[p] \subseteq RegisteredIn(p)
          /\ UNCHANGED <<pc, cbReg, resReg>>
      BY <1>1, <2>3, ListenersForRegistered DEF TakeResult, AtLoopTop
    <3>2. /\ Named(Tail(drainedResults[p]))
          /\ r.hCall \in CallsOf(drainedResults[p])
          /\ CallsOf(Tail(drainedResults[p])) \subseteq CallsOf(drainedResults[p])
      BY <1>1, <3>1, NamedTail DEF CopyAlive
    <3>. HIDE DEF r
    <3>3. waitersToRun'[p] \subseteq alive
      BY <3>1, <3>2 DEF CopyAlive
    <3>4. listenersToRun'[p] \subseteq alive
      BY <3>1 DEF CopyAlive, RegisteredIn
    <3>. QED  BY <1>2, <3>1, <3>2, <3>3, <3>4 DEF CopyAlive
  <2>4. CASE \/ \E w \in Waiters : RunWaiter(p, w)
             \/ \E l \in Listeners : RunListener(p, l)
    <3>1. /\ waitersToRun'[p] \subseteq waitersToRun[p]
          /\ listenersToRun'[p] \subseteq listenersToRun[p]
          /\ pc[p] = "draining"
          /\ UNCHANGED <<drainedResults, cbReg, resReg>>
      BY <1>1, <2>4 DEF RunWaiter, RunListener
    <3>. QED  BY <1>2, <3>1 DEF CopyAlive
  <2>5. CASE Return(p) \/ Retain(p)
    <3>1. pc[p] # "idle" /\ UNCHANGED <<drainedResults, cbReg, resReg, waitersToRun, listenersToRun>>
      BY <2>5 DEF Return, Retain
    <3>. QED  BY <1>2, <3>1 DEF CopyAlive
  <2>6. CASE EndRun(p)
    <3>1. /\ cbReg'[p] = {} /\ resReg'[p] = {}
          /\ UNCHANGED <<drainedResults, waitersToRun, listenersToRun>>
      BY <1>1, <2>6 DEF EndRun
    <3>. QED  BY <1>2, <3>1 DEF CopyAlive
  <2>. QED  BY <2>1, <2>2, <2>3, <2>4, <2>5, <2>6 DEF Deliver
<1>7. \A q \in Pumps : CopyAlive(q)'
  BY <1>2, <1>4, <1>6, OtherCopies
<1>. QED  BY <1>3, <1>5, <1>7

-----------------------------------------------------------------------------
LEMMA NextOInv ==
  ASSUME ~DestroyDuringPump
  PROVE  IInv /\ OInv /\ [Next]_vars => OInv'
<1>. SUFFICES ASSUME IInv, OInv, [Next]_vars PROVE OInv'
  OBVIOUS
<1>0. returned \in [Threads -> Nat] /\ reading \in [Threads -> Nat]
  BY DEF IInv, TypeOK
<1>1. ASSUME NEW id \in Ids, NEW gs \in BOOLEAN, Post(id, gs)
      PROVE  OInv'
  BY <1>1, QueueStep DEF Post, QueueCallback, threadVars
<1>2. ASSUME NEW t \in Threads, NEW id \in Ids, NEW gs \in BOOLEAN, CallApi(t, id, gs)
      PROVE  OInv'
  BY <1>0, <1>2, QueueStep DEF CallApi
<1>3. ASSUME NEW t \in Threads, FileReadAsync(t)
      PROVE  OInv'
  BY <1>3, QueueStep DEF FileReadAsync
<1>4. ASSUME NEW t \in Threads, NEW id \in Ids, FileReadAsyncDone(t, id)
      PROVE  OInv'
  <2>1. reading[t] \in reserved
    BY <1>4 DEF FileReadAsyncDone, QueueCallResultOn
  <2>2. PICK h \in reserved : h = reading[t]
    BY <2>1
  <2>3. QueueCallResultOn(h, id, FALSE, 0) /\ returned' = [returned EXCEPT ![t] = h]
    BY <1>4, <2>2 DEF FileReadAsyncDone, QueueCallResultOn
  <2>4. \A s \in Threads : returned'[s] \in {returned[s], h}
    BY <1>0, <2>3
  <2>. QED  BY <1>4, <2>3, <2>4, QueueStep DEF FileReadAsyncDone
<1>5. ASSUME NEW t \in Threads, CreateBrowser(t)
      PROVE  OInv'
  BY <1>0, <1>5, QueueStep DEF CreateBrowser
<1>6. ASSUME NEW t \in Threads, Discard(t)
      PROVE  OInv'
  <2>1. /\ UNCHANGED <<objectVars, pumpVars>>
        /\ UNCHANGED <<g_nextCall, reserved, g_pendingResults>>
        /\ \A s \in Threads : returned'[s] \in {returned[s], NoCall}
    BY <1>0, <1>6 DEF Discard, queueVars
  <2>. QED  BY <2>1, QueueStep
<1>7. CASE UNCHANGED vars
  <2>1. UNCHANGED <<objectVars, pumpVars, returned, g_nextCall, reserved, g_pendingResults>>
    BY <1>7 DEF vars, queueVars, threadVars
  <2>. QED  BY <2>1, QueueStep
<1>8. CASE Game
  BY <1>1, <1>2, <1>3, <1>4, <1>5, <1>6, <1>8, ListenerStep, WaiterStep DEF Game
<1>. QED  BY <1>7, <1>8, PumpStep DEF Next

(* RunCallbacks never runs a destroyed object, for any number of pumps and *)
(* objects, if the game destroys objects only while no pump is running:    *)
(* the registrations that outlive a CCallResult are for calls that have    *)
(* been delivered.  Handlers may register, cancel and park as they like.   *)
THEOREM ObjectsExist ==
  ASSUME ~DestroyDuringPump
  PROVE  Spec => []NoUseAfterFree
<1>1. IInv /\ OInv /\ [Next]_vars => OInv'
  BY NextOInv
<1>2. OInv => NoUseAfterFree
  BY DEF OInv, CopyAlive, NoUseAfterFree
<1>. QED  BY <1>1, <1>2, InitOInv, InductiveInvariant, PTL DEF Spec

-----------------------------------------------------------------------------
(* The order of delivery, with one pump *)

(* The stamps of what a pump has copied and not taken, and of what is      *)
(* queued or will be.                                                      *)
Coming(p) == Stamps(drainedCallbacks[p]) \cup Stamps(drainedResults[p])
Later == Stamps(g_pendingCallbacks) \cup Stamps(g_pendingResults) \cup {g_seq}

(* Of what a pump is delivering, has copied and leaves queued, each comes  *)
(* before the next, and what a listener has been run with before all.      *)
InOrder(p) ==
  /\ Ascending(drainedCallbacks[p]) /\ Ascending(drainedResults[p])
  /\ \A n \in Coming(p), m \in Later : n <= m
  /\ \A n \in Stamps(current[p]), m \in Coming(p) \cup Later : n <= m
  /\ \A l \in Listeners, m \in Stamps(current[p]) \cup Coming(p) \cup Later : lastSeen[l] <= m

SInv ==
  /\ StampsBelow(g_pendingCallbacks, g_seq) /\ StampsBelow(g_pendingResults, g_seq)
  /\ Ascending(g_pendingCallbacks) /\ Ascending(g_pendingResults)
  /\ \A p \in Pumps : InOrder(p)

LEMMA SequencesTyped ==
  ASSUME IInv
  PROVE  /\ g_seq \in Nat
         /\ g_pendingCallbacks \in Seq(Message) /\ g_pendingResults \in Seq(Message)
         /\ \A p \in Pumps : /\ drainedCallbacks[p] \in Seq(Message)
                             /\ drainedResults[p] \in Seq(Message)
                             /\ current[p] \in Seq(Message)
         /\ Later \subseteq Nat
         /\ \A p \in Pumps : Coming(p) \subseteq Nat /\ Stamps(current[p]) \subseteq Nat
         /\ lastSeen \in [Listeners -> Nat]
<1>1. /\ g_seq \in Nat
      /\ g_pendingCallbacks \in Seq(Message) /\ g_pendingResults \in Seq(Message)
      /\ \A p \in Pumps : /\ drainedCallbacks[p] \in Seq(Message)
                          /\ drainedResults[p] \in Seq(Message)
                          /\ current[p] \in Seq(Message)
      /\ lastSeen \in [Listeners -> Nat]
  BY DEF IInv, TypeOK, QueueTypeOK
<1>. QED  BY <1>1, StampsAreNats DEF Later, Coming

(* A queue that gets a message with the next stamp, the others as they are. *)
LEMMA QueuedInOrder ==
  ASSUME IInv, SInv, UNCHANGED <<drainedCallbacks, drainedResults, current, lastSeen>>,
         g_seq' = g_seq + 1,
         NEW m \in Message, m.seq = g_seq,
         \/ /\ g_pendingCallbacks' = Append(g_pendingCallbacks, m)
            /\ UNCHANGED g_pendingResults
         \/ /\ g_pendingResults' = Append(g_pendingResults, m)
            /\ UNCHANGED g_pendingCallbacks
  PROVE  SInv'
<1>. USE DEF SInv
<1>1. /\ StampsBelow(g_pendingCallbacks, g_seq + 1) /\ StampsBelow(g_pendingResults, g_seq + 1)
  BY SequencesTyped, BelowMore
<1>2. /\ StampsBelow(g_pendingCallbacks', g_seq + 1) /\ StampsBelow(g_pendingResults', g_seq + 1)
      /\ Ascending(g_pendingCallbacks') /\ Ascending(g_pendingResults')
  BY <1>1, SequencesTyped, AppendStamped
<1>3. Later' = Later \cup {g_seq + 1}
  <2>1. CASE g_pendingCallbacks' = Append(g_pendingCallbacks, m) /\ UNCHANGED g_pendingResults
    <3>1. Stamps(g_pendingCallbacks') = Stamps(g_pendingCallbacks) \cup {g_seq}
      BY <2>1, SequencesTyped, StampsAppend
    <3>. QED  BY <2>1, <3>1 DEF Later
  <2>2. CASE g_pendingResults' = Append(g_pendingResults, m) /\ UNCHANGED g_pendingCallbacks
    <3>1. Stamps(g_pendingResults') = Stamps(g_pendingResults) \cup {g_seq}
      BY <2>2, SequencesTyped, StampsAppend
    <3>. QED  BY <2>2, <3>1 DEF Later
  <2>. QED  BY <2>1, <2>2
<1>4. ASSUME NEW p \in Pumps
      PROVE  InOrder(p)'
  <2>1. \A n \in Nat : n <= g_seq => n <= g_seq + 1
    BY SequencesTyped
  <2>2. g_seq \in Later
    BY DEF Later
  <2>. QED  BY <1>3, <2>1, <2>2, SequencesTyped DEF InOrder, Coming
<1>. QED  BY <1>2, <1>4

LEMMA GameInOrder ==
  ASSUME IInv, SInv, Game
  PROVE  SInv'
<1>1. UNCHANGED <<drainedCallbacks, drainedResults, current, lastSeen>>
  BY DEF Game, Post, CallApi, FileReadAsync, FileReadAsyncDone, CreateBrowser,
         Discard, Listen, StopListening, DestroyListener, Park, Cancel, DestroyWaiter,
         pumpVars
<1>2. NoCall \in Nat /\ g_nextCall \in Nat /\ reserved \subseteq Nat /\ QueueTypeOK
  BY DEF IInv, TypeOK, QueueTypeOK, NoCall
<1>3. ASSUME NEW h \in Nat, NEW id \in Ids, NEW gs \in BOOLEAN
      PROVE  Stamp(h, id, gs, 0) \in Message /\ Stamp(h, id, gs, 0).seq = g_seq
  BY <1>2, StampType DEF Stamp
<1>4. ASSUME NEW id \in Ids, NEW gs \in BOOLEAN, QueueCallback(id, gs, 0)
      PROVE  SInv'
  BY <1>1, <1>2, <1>3, <1>4, QueuedInOrder DEF QueueCallback
<1>5. ASSUME NEW id \in Ids, NEW gs \in BOOLEAN, QueueCallResult(id, gs, 0)
      PROVE  SInv'
  BY <1>1, <1>2, <1>3, <1>5, QueuedInOrder DEF QueueCallResult
<1>6. ASSUME NEW h \in reserved, NEW id \in Ids, QueueCallResultOn(h, id, FALSE, 0)
      PROVE  SInv'
  BY <1>1, <1>2, <1>3, <1>6, QueuedInOrder DEF QueueCallResultOn
<1>7. CASE UNCHANGED <<g_seq, g_pendingCallbacks, g_pendingResults>>
  BY <1>1, <1>7 DEF SInv, InOrder, Coming, Later
<1>8. \/ \E id \in Ids, gs \in BOOLEAN : QueueCallback(id, gs, 0) \/ QueueCallResult(id, gs, 0)
      \/ \E h \in reserved, id \in Ids : QueueCallResultOn(h, id, FALSE, 0)
      \/ UNCHANGED <<g_seq, g_pendingCallbacks, g_pendingResults>>
  BY DEF Game, Post, CallApi, FileReadAsync, FileReadAsyncDone, CreateBrowser, Discard,
         Listen, StopListening, DestroyListener, Park, Cancel, DestroyWaiter, AllocCall,
         queueVars, QueueCallResultOn
<1>. QED  BY <1>4, <1>5, <1>6, <1>7, <1>8

(* The message taken is the oldest of both copies, and what is run with it *)
(* has been run with nothing younger.                                      *)
LEMMA PumpInOrder ==
  ASSUME IInv, SInv, NEW p \in Pumps, Drain(p) \/ Deliver(p), \A q \in Pumps : q = p
  PROVE  SInv' /\ \A l \in Listeners : lastSeen'[l] >= lastSeen[l]
<1>1. /\ drainedCallbacks \in [Pumps -> Seq(Message)]
      /\ drainedResults \in [Pumps -> Seq(Message)]
      /\ current \in [Pumps -> Seq(Message)]
      /\ lastSeen \in [Listeners -> Nat]
  BY DEF IInv, TypeOK
<1>2. InOrder(p)
  BY DEF SInv
<1>3. \A l \in Listeners : lastSeen[l] >= lastSeen[l]
  BY <1>1
<1>4. CASE Drain(p)
  <2>1. /\ drainedCallbacks'[p] = g_pendingCallbacks /\ drainedResults'[p] = g_pendingResults
        /\ g_pendingCallbacks' = << >> /\ g_pendingResults' = << >>
        /\ UNCHANGED <<g_seq, current, lastSeen>>
    BY <1>1, <1>4 DEF Drain
  <2>2. /\ StampsBelow(g_pendingCallbacks, g_seq)' /\ StampsBelow(g_pendingResults, g_seq)'
        /\ Ascending(g_pendingCallbacks)' /\ Ascending(g_pendingResults)'
    BY <2>1 DEF StampsBelow, Ascending
  <2>3. Later' = {g_seq} /\ Coming(p)' \subseteq Later
    BY <2>1, StampsEmpty DEF Later, Coming
  <2>4. \A n \in Coming(p)' : n <= g_seq
    <3>1. \A n \in Stamps(g_pendingCallbacks) \cup Stamps(g_pendingResults) : n \in Nat /\ n < g_seq
      BY SequencesTyped, StampsAreNats DEF SInv, StampsBelow, Stamps
    <3>2. Coming(p)' = Stamps(g_pendingCallbacks) \cup Stamps(g_pendingResults)
      BY <2>1 DEF Coming
    <3>. QED  BY <3>1, <3>2, SequencesTyped
  <2>5. g_seq \in Later
    BY DEF Later
  <2>6. InOrder(p)'
    BY <1>2, <2>1, <2>3, <2>4, <2>5 DEF InOrder, SInv
  <2>. QED  BY <1>3, <2>1, <2>2, <2>6 DEF SInv
<1>5. ASSUME NEW m \in Message, current'[p] = <<m>>, m.seq \in Coming(p),
             \A n \in Coming(p) : m.seq <= n,
             Ascending(drainedCallbacks'[p]), Ascending(drainedResults'[p]),
             Coming(p)' \subseteq Coming(p), UNCHANGED <<queueVars, lastSeen>>
      PROVE  SInv' /\ \A l \in Listeners : lastSeen'[l] >= lastSeen[l]
  <2>1. UNCHANGED <<g_seq, g_pendingCallbacks, g_pendingResults, lastSeen>> /\ Later' = Later
    BY <1>5 DEF queueVars, Later
  <2>2. Stamps(current[p])' = {m.seq}
    BY <1>5 DEF Stamps
  <2>3. InOrder(p)'
    BY <1>2, <1>5, <2>1, <2>2 DEF InOrder
  <2>. QED  BY <1>3, <2>1, <2>3 DEF SInv
<1>6. CASE TakeCallback(p)
  <2>. DEFINE q == Head(drainedCallbacks[p])
  <2>1. /\ drainedCallbacks[p] # << >>
        /\ drainedResults[p] # << >> => q.seq < Head(drainedResults[p]).seq
        /\ current'[p] = <<q>>
        /\ drainedCallbacks'[p] = Tail(drainedCallbacks[p])
        /\ UNCHANGED <<queueVars, drainedResults, lastSeen>>
    BY <1>1, <1>6 DEF TakeCallback, UseCallback
  <2>2. q \in Message /\ q.seq \in Nat
    <3>1. q \in Message
      BY <1>1, <2>1, HeadTailProperties
    <3>. HIDE DEF q
    <3>. QED  BY <3>1 DEF Message
  <2>3. /\ Ascending(Tail(drainedCallbacks[p]))
        /\ q.seq \in Stamps(drainedCallbacks[p])
        /\ Stamps(Tail(drainedCallbacks[p])) \subseteq Stamps(drainedCallbacks[p])
        /\ \A n \in Stamps(drainedCallbacks[p]) : q.seq <= n
    BY <1>1, <1>2, <2>1, StampsHeadTail DEF InOrder
  <2>. HIDE DEF q
  <2>4. \A n \in Stamps(drainedResults[p]) : q.seq <= n
    <3>1. CASE drainedResults[p] = << >>
      BY <3>1, StampsEmpty
    <3>2. CASE drainedResults[p] # << >>
      <4>1. /\ \A n \in Stamps(drainedResults[p]) : n \in Nat /\ Head(drainedResults[p]).seq <= n
            /\ Head(drainedResults[p]).seq \in Nat
        BY <1>1, <1>2, <3>2, StampsHeadTail, StampsAreNats DEF InOrder
      <4>. QED  BY <2>1, <2>2, <3>2, <4>1
    <3>. QED  BY <3>1, <3>2
  <2>5. q.seq \in Coming(p) /\ Coming(p)' \subseteq Coming(p) /\ \A n \in Coming(p) : q.seq <= n
    BY <2>1, <2>3, <2>4 DEF Coming
  <2>. QED  BY <1>2, <1>5, <2>1, <2>2, <2>3, <2>5 DEF InOrder
<1>7. CASE TakeResult(p)
  <2>. DEFINE r == Head(drainedResults[p])
  <2>1. /\ drainedResults[p] # << >>
        /\ drainedCallbacks[p] # << >> => ~ (Head(drainedCallbacks[p]).seq < r.seq)
        /\ current'[p] = <<r>>
        /\ drainedResults'[p] = Tail(drainedResults[p])
        /\ UNCHANGED <<queueVars, drainedCallbacks, lastSeen>>
    BY <1>1, <1>7 DEF TakeResult, UseCallback
  <2>2. r \in Message /\ r.seq \in Nat
    <3>1. r \in Message
      BY <1>1, <2>1, HeadTailProperties
    <3>. HIDE DEF r
    <3>. QED  BY <3>1 DEF Message
  <2>3. /\ Ascending(Tail(drainedResults[p]))
        /\ r.seq \in Stamps(drainedResults[p])
        /\ Stamps(Tail(drainedResults[p])) \subseteq Stamps(drainedResults[p])
        /\ \A n \in Stamps(drainedResults[p]) : r.seq <= n
    BY <1>1, <1>2, <2>1, StampsHeadTail DEF InOrder
  <2>. HIDE DEF r
  <2>4. \A n \in Stamps(drainedCallbacks[p]) : r.seq <= n
    <3>1. CASE drainedCallbacks[p] = << >>
      BY <3>1, StampsEmpty
    <3>2. CASE drainedCallbacks[p] # << >>
      <4>1. /\ \A n \in Stamps(drainedCallbacks[p]) :
                 n \in Nat /\ Head(drainedCallbacks[p]).seq <= n
            /\ Head(drainedCallbacks[p]).seq \in Nat
        BY <1>1, <1>2, <3>2, StampsHeadTail, StampsAreNats DEF InOrder
      <4>. QED  BY <2>1, <2>2, <3>2, <4>1
    <3>. QED  BY <3>1, <3>2
  <2>5. r.seq \in Coming(p) /\ Coming(p)' \subseteq Coming(p) /\ \A n \in Coming(p) : r.seq <= n
    BY <2>1, <2>3, <2>4 DEF Coming
  <2>. QED  BY <1>2, <1>5, <2>1, <2>2, <2>3, <2>5 DEF InOrder
<1>8. ASSUME NEW l \in Listeners, RunListener(p, l)
      PROVE  SInv' /\ \A k \in Listeners : lastSeen'[k] >= lastSeen[k]
  <2>. DEFINE c == Head(current[p]).seq
  <2>1. /\ l \in listenersToRun[p]
        /\ lastSeen' = [lastSeen EXCEPT ![l] = c]
        /\ UNCHANGED <<g_seq, g_pendingCallbacks, g_pendingResults, drainedCallbacks,
                       drainedResults, current>>
    BY <1>8 DEF RunListener, queueVars
  <2>2. current[p] # << >> /\ Len(current[p]) <= 1
    BY <2>1 DEF IInv, PumpState, Orderly, AllRun
  <2>3. c \in Stamps(current[p]) /\ \A n \in Stamps(current[p]) : c <= n
    <3>1. Ascending(current[p])
      BY <1>1, <2>2, LenProperties DEF Ascending
    <3>. QED  BY <1>1, <2>2, <3>1, StampsHeadTail
  <2>. HIDE DEF c
  <2>4. InOrder(p)'
    BY <1>1, <1>2, <2>1, <2>3 DEF InOrder, Coming, Later
  <2>5. \A k \in Listeners : lastSeen'[k] >= lastSeen[k]
    BY <1>1, <1>2, <2>1, <2>3, SequencesTyped DEF InOrder
  <2>. QED  BY <2>1, <2>4, <2>5 DEF SInv
<1>9. ASSUME UNCHANGED <<g_seq, g_pendingCallbacks, g_pendingResults, drainedCallbacks,
                         drainedResults, lastSeen>>,
             current'[p] \in {current[p], << >>}
      PROVE  SInv' /\ \A l \in Listeners : lastSeen'[l] >= lastSeen[l]
  <2>1. Stamps(current[p])' \subseteq Stamps(current[p]) /\ Coming(p)' = Coming(p) /\ Later' = Later
    BY <1>9, StampsEmpty DEF Coming, Later
  <2>2. InOrder(p)'
    BY <1>2, <1>9, <2>1 DEF InOrder
  <2>. QED  BY <1>3, <1>9, <2>2 DEF SInv
<1>10. CASE (\E w \in Waiters : RunWaiter(p, w)) \/ Return(p) \/ Retain(p) \/ EndRun(p)
  BY <1>1, <1>9, <1>10 DEF RunWaiter, Return, Retain, EndRun, queueVars
<1>. QED  BY <1>4, <1>6, <1>7, <1>8, <1>10 DEF Deliver

(* With one pump, a listener is never run with a message older than one it *)
(* was run with before: RunCallbacks merges its copies of the two queues   *)
(* by their stamps, and what is queued while its handlers run waits for    *)
(* the next one.  Any threads may call, queue and destroy meanwhile; two   *)
(* pumps may not, each has copies of its own.                              *)
THEOREM OrderOfDelivery ==
  ASSUME \A p, q \in Pumps : p = q
  PROVE  Spec => InsertionOrder
<1>. DEFINE Step == \A l \in Listeners : lastSeen'[l] >= lastSeen[l]
<1>1. ASSUME Init PROVE SInv
  <2>1. /\ Stamps(<< >>) = {} /\ Later = {0}
        /\ \A p \in Pumps : Coming(p) = {} /\ Stamps(current[p]) = {}
    BY <1>1 DEF Init, QueueInit, Stamps, Later, Coming
  <2>2. \A p \in Pumps : InOrder(p)
    BY <1>1, <2>1 DEF Init, InOrder, Ascending
  <2>. QED  BY <1>1, <2>2 DEF SInv, Init, QueueInit, StampsBelow, Ascending
<1>2. ASSUME IInv, SInv, [Next]_vars
      PROVE  SInv' /\ Step
  <2>1. CASE UNCHANGED vars
    <3>1. UNCHANGED <<g_seq, g_pendingCallbacks, g_pendingResults, drainedCallbacks,
                      drainedResults, current, lastSeen>>
      BY <2>1 DEF vars, queueVars, pumpVars
    <3>2. SInv'
      BY <1>2, <3>1 DEF SInv, InOrder, Coming, Later
    <3>. QED  BY <1>2, <3>1, <3>2, SequencesTyped
  <2>2. CASE Game
    <3>1. UNCHANGED lastSeen
      BY <2>2 DEF Game, Post, CallApi, FileReadAsync, FileReadAsyncDone, CreateBrowser,
             Discard, Listen, StopListening, DestroyListener, Park, Cancel, DestroyWaiter
    <3>. QED  BY <1>2, <2>2, <3>1, GameInOrder, SequencesTyped
  <2>3. ASSUME NEW p \in Pumps, Drain(p) \/ Deliver(p)
        PROVE  SInv' /\ Step
    BY <1>2, <2>3, PumpInOrder
  <2>. QED  BY <1>2, <2>1, <2>2, <2>3 DEF Next
<1>3. IInv /\ SInv /\ [Next]_vars => SInv' /\ [Step]_vars
  BY <1>2
<1>. QED  BY <1>1, <1>3, InductiveInvariant, PTL DEF Spec, InsertionOrder

-----------------------------------------------------------------------------
(* Waiters, with one thread *)

(* The call a waiter awaits is still to come, with the waiter among those  *)
(* it will be given to.                                                    *)
Expected(w) ==
  \/ awaiting[w] \in {NoCall} \cup reserved \cup CallsOf(g_pendingResults)
  \/ \E p \in Pumps :
       \/ /\ awaiting[w] \in CallsOf(drainedResults[p])
          /\ <<w, awaiting[w]>> \in resReg[p]
       \/ awaiting[w] \in CallsOf(current[p]) /\ w \in waitersToRun[p]

(* A waiter that awaits a call is registered for it, and a handle that the *)
(* game has not looked at yet is of a call no pump has taken.              *)
WInv ==
  /\ \A w \in Waiters : awaiting[w] # NoCall => <<w, awaiting[w]>> \in g_results
  /\ \A t \in Threads :
       returned[t] # NoCall => returned[t] \in reserved \cup CallsOf(g_pendingResults)
  /\ \A w \in Waiters : Expected(w)

(* A new handle is promised or queued, and what is promised or queued      *)
(* stays so until a pump takes it.                                         *)
LEMMA ProducersExpected ==
  ASSUME IInv, WInv, UNCHANGED <<g_results, awaiting, drainedResults, resReg, current, waitersToRun>>,
         LET waiting == reserved \cup CallsOf(g_pendingResults)
         IN  /\ waiting \subseteq waiting'
             /\ \A t \in Threads : returned'[t] \in {returned[t], NoCall} \cup waiting'
  PROVE  WInv'
<1>1. \A w \in Waiters : Expected(w)'
  BY DEF WInv, Expected
<1>. QED  BY <1>1 DEF WInv

LEMMA GameExpected ==
  ASSUME IInv, WInv, Game
  PROVE  WInv'
<1>1. UNCHANGED pumpVars
  BY DEF Game, Post, CallApi, FileReadAsync, FileReadAsyncDone, CreateBrowser,
         Discard, Listen, StopListening, DestroyListener, Park, Cancel, DestroyWaiter
<1>2. UNCHANGED <<drainedResults, resReg, current, waitersToRun>>
  BY <1>1 DEF pumpVars
<1>3. /\ returned \in [Threads -> Nat] /\ awaiting \in [Waiters -> Nat]
      /\ g_pendingResults \in Seq(Message) /\ QueueTypeOK
      /\ g_nextCall \in Nat \ {NoCall} /\ reserved \subseteq Nat
      /\ g_results \subseteq Waiters \X Nat
  BY DEF IInv, TypeOK, QueueTypeOK
<1>. DEFINE waiting == reserved \cup CallsOf(g_pendingResults)
<1>4. ASSUME NEW h \in Nat, h # NoCall, NEW id \in Ids, NEW gs \in BOOLEAN
      PROVE  CallsOf(Append(g_pendingResults, Stamp(h, id, gs, 0))) = CallsOf(g_pendingResults) \cup {h}
  <2>1. Stamp(h, id, gs, 0) \in Message /\ Stamp(h, id, gs, 0).hCall = h
    BY <1>3, StampType DEF Stamp
  <2>. QED  BY <1>3, <1>4, <2>1, CallsOfAppend
<1>5. ASSUME NEW t \in Threads, NEW id \in Ids, NEW gs \in BOOLEAN, CallApi(t, id, gs)
      PROVE  WInv'
  <2>1. /\ CallsOf(g_pendingResults)' = CallsOf(g_pendingResults) \cup {g_nextCall}
        /\ UNCHANGED <<reserved, g_results, awaiting>>
        /\ \A s \in Threads : returned'[s] \in {returned[s], g_nextCall}
    BY <1>3, <1>4, <1>5 DEF CallApi, QueueCallResult, objectVars
  <2>. QED  BY <1>2, <2>1, ProducersExpected
<1>6. ASSUME NEW t \in Threads, FileReadAsync(t) \/ CreateBrowser(t)
      PROVE  WInv'
  <2>1. /\ reserved' = reserved \cup {g_nextCall}
        /\ UNCHANGED <<g_pendingResults, g_results, awaiting>>
        /\ \A s \in Threads : returned'[s] \in {returned[s], g_nextCall}
    BY <1>3, <1>6 DEF FileReadAsync, CreateBrowser, AllocCall, objectVars
  <2>. QED  BY <1>2, <2>1, ProducersExpected
<1>7. ASSUME NEW t \in Threads, NEW id \in Ids, FileReadAsyncDone(t, id)
      PROVE  WInv'
  <2>1. PICK h \in reserved : h = reading[t]
    BY <1>7 DEF FileReadAsyncDone, QueueCallResultOn
  <2>2. h \in Nat /\ h # NoCall
    BY <2>1, HandleFacts DEF Allocated
  <2>3. /\ g_pendingResults' = Append(g_pendingResults, Stamp(h, id, FALSE, 0))
        /\ reserved' = reserved \ {h}
        /\ UNCHANGED <<g_results, awaiting>>
        /\ \A s \in Threads : returned'[s] \in {returned[s], h}
    BY <1>3, <1>7, <2>1 DEF FileReadAsyncDone, QueueCallResultOn, objectVars
  <2>4. CallsOf(g_pendingResults)' = CallsOf(g_pendingResults) \cup {h}
    BY <1>4, <2>2, <2>3
  <2>. QED  BY <1>2, <2>3, <2>4, ProducersExpected
<1>8. ASSUME UNCHANGED <<reserved, g_pendingResults, g_results, awaiting>>,
             \A s \in Threads : returned'[s] \in {returned[s], NoCall}
      PROVE  WInv'
  BY <1>2, <1>8, ProducersExpected
<1>9. ASSUME NEW id \in Ids, NEW gs \in BOOLEAN, Post(id, gs)
      PROVE  WInv'
  BY <1>8, <1>9 DEF Post, QueueCallback, objectVars, threadVars
<1>10. ASSUME NEW t \in Threads, Discard(t)
       PROVE  WInv'
  BY <1>3, <1>8, <1>10 DEF Discard, queueVars, objectVars
<1>11. ASSUME NEW t \in Threads, NEW l \in Listeners,
              Listen(t, l) \/ StopListening(t, l) \/ DestroyListener(t, l)
       PROVE  WInv'
  BY <1>8, <1>11 DEF Listen, StopListening, DestroyListener, RegisterCallback,
                     UnregisterCallback, queueVars, threadVars
<1>12. ASSUME NEW t \in Threads, NEW w \in Waiters, Park(t, w)
       PROVE  WInv'
  <2>1. /\ returned[t] # NoCall /\ returned[t] \in waiting
        /\ g_results' = (g_results \ {<<w, awaiting[w]>>}) \cup {<<w, returned[t]>>}
        /\ awaiting' = [awaiting EXCEPT ![w] = returned[t]]
        /\ returned' = [returned EXCEPT ![t] = NoCall]
        /\ UNCHANGED <<reserved, g_pendingResults>>
    BY <1>12 DEF Park, WInv, queueVars
  <2>2. \A v \in Waiters : awaiting'[v] # NoCall => <<v, awaiting'[v]>> \in g_results'
    BY <1>3, <2>1 DEF WInv
  <2>3. \A v \in Waiters : Expected(v)'
    BY <1>2, <1>3, <2>1 DEF WInv, Expected
  <2>4. \A s \in Threads :
          returned'[s] # NoCall => returned'[s] \in reserved' \cup CallsOf(g_pendingResults)'
    BY <1>3, <2>1 DEF WInv
  <2>. QED  BY <2>2, <2>3, <2>4 DEF WInv
<1>13. ASSUME NEW t \in Threads, NEW w \in Waiters, Cancel(t, w) \/ DestroyWaiter(t, w)
       PROVE  WInv'
  <2>1. /\ g_results \ {<<w, awaiting[w]>>} \subseteq g_results'
        /\ awaiting' = [awaiting EXCEPT ![w] = NoCall]
        /\ UNCHANGED <<reserved, g_pendingResults, returned>>
    BY <1>13 DEF Cancel, DestroyWaiter, UnregisterCallResult, queueVars, threadVars
  <2>2. \A v \in Waiters : awaiting'[v] # NoCall => <<v, awaiting'[v]>> \in g_results'
    BY <1>3, <2>1 DEF WInv
  <2>3. \A v \in Waiters : Expected(v)'
    BY <1>2, <1>3, <2>1 DEF WInv, Expected
  <2>. QED  BY <2>1, <2>2, <2>3 DEF WInv
<1>. QED
  BY <1>5, <1>6, <1>7, <1>9, <1>10, <1>11, <1>12, <1>13 DEF Game

LEMMA PumpExpected ==
  ASSUME IInv, WInv, NEW p \in Pumps, Drain(p) \/ Deliver(p), \A t \in Threads : t = p
  PROVE  WInv'
<1>1. /\ drainedResults \in [Pumps -> Seq(Message)]
      /\ current \in [Pumps -> Seq(Message)]
      /\ resReg \in [Pumps -> SUBSET (Waiters \X Nat)]
      /\ waitersToRun \in [Pumps -> SUBSET Waiters]
      /\ awaiting \in [Waiters -> Nat] /\ returned \in [Threads -> Nat]
  BY DEF IInv, TypeOK
<1>2. UNCHANGED <<reserved, g_results, returned>>
  BY DEF Drain, Deliver, TakeCallback, TakeResult, RunWaiter, RunListener, Return,
         Retain, EndRun, queueVars, objectVars, threadVars
<1>3. Orderly(p) /\ \A q \in Pumps : q = p
  BY StandardDispatchAssumption DEF IInv, PumpState
<1>. USE DEF WInv
<1>4. CASE Drain(p)
  <2>1. /\ pc[p] = "idle" /\ returned[p] = NoCall
        /\ drainedResults'[p] = g_pendingResults /\ resReg'[p] = g_results
        /\ UNCHANGED <<awaiting, current, waitersToRun>>
    BY <1>1, <1>4 DEF Drain, Snapshot, objectVars
  <2>2. drainedResults[p] = << >> /\ current[p] = << >>
    BY <1>3, <2>1 DEF Orderly
  <2>3. \A w \in Waiters : awaiting[w] \in {NoCall} \cup reserved \cup CallsOf(g_pendingResults)
    BY <1>3, <2>2, CallsOfEmpty DEF Expected
  <2>4. \A w \in Waiters : Expected(w)'
    BY <1>2, <2>1, <2>3 DEF Expected
  <2>. QED  BY <1>2, <2>1, <2>4
<1>5. ASSUME UNCHANGED <<g_pendingResults, awaiting>>,
             \A w \in Waiters : Expected(w)'
      PROVE  WInv'
  BY <1>2, <1>5
<1>6. CASE TakeCallback(p) \/ Retain(p) \/ EndRun(p)
  <2>1. /\ waitersToRun[p] = {}
        /\ EndRun(p) => drainedResults[p] = << >>
        /\ ~ EndRun(p) => UNCHANGED resReg
        /\ UNCHANGED <<g_pendingResults, awaiting, drainedResults>>
    BY <1>6 DEF TakeCallback, Retain, EndRun, AtLoopTop, AllRun, queueVars, objectVars
  <2>2. ASSUME NEW w \in Waiters
        PROVE  Expected(w)'
    <3>1. \/ awaiting[w] \in {NoCall} \cup reserved \cup CallsOf(g_pendingResults)
          \/ awaiting[w] \in CallsOf(drainedResults[p]) /\ <<w, awaiting[w]>> \in resReg[p]
      BY <1>3, <2>1 DEF Expected
    <3>. QED  BY <1>2, <2>1, <3>1, CallsOfEmpty DEF Expected
  <2>. QED  BY <1>5, <2>1, <2>2
<1>7. CASE TakeResult(p)
  <2>. DEFINE r == Head(drainedResults[p])
  <2>1. /\ waitersToRun[p] = {} /\ drainedResults[p] # << >>
        /\ current'[p] = <<r>>
        /\ waitersToRun'[p] = {w \in Waiters : <<w, r.hCall>> \in resReg[p]}
        /\ drainedResults'[p] = Tail(drainedResults[p])
        /\ UNCHANGED <<g_pendingResults, awaiting, resReg>>
    BY <1>1, <1>7 DEF TakeResult, AtLoopTop, AllRun, queueVars, objectVars
  <2>2. /\ r \in Message
        /\ CallsOf(drainedResults[p]) = CallsOf(Tail(drainedResults[p])) \cup ({r.hCall} \ {NoCall})
    BY <1>1, <2>1, CallsOfHeadTail
  <2>. HIDE DEF r
  <2>3. CallsOf(current[p])' = {r.hCall} \ {NoCall}
    BY <2>1, <2>2, CallsOfOne
  <2>4. ASSUME NEW w \in Waiters
        PROVE  Expected(w)'
    <3>1. \/ awaiting[w] \in {NoCall} \cup reserved \cup CallsOf(g_pendingResults)
          \/ awaiting[w] \in CallsOf(drainedResults[p]) /\ <<w, awaiting[w]>> \in resReg[p]
      BY <1>3, <2>1 DEF Expected
    <3>. QED  BY <1>2, <2>1, <2>2, <2>3, <3>1 DEF Expected
  <2>. QED  BY <1>5, <2>1, <2>4
<1>8. ASSUME NEW v \in Waiters, RunWaiter(p, v)
      PROVE  WInv'
  <2>. DEFINE c == Head(current[p]).hCall
  <2>1. /\ v \in waitersToRun[p]
        /\ waitersToRun'[p] = waitersToRun[p] \ {v}
        /\ awaiting' = [awaiting EXCEPT ![v] = IF awaiting[v] = c THEN NoCall ELSE awaiting[v]]
        /\ UNCHANGED <<g_pendingResults, drainedResults, resReg, current>>
    BY <1>1, <1>8 DEF RunWaiter, queueVars
  <2>2. CallsOf(current[p]) \subseteq {c}
    <3>1. current[p] # << >> /\ Len(current[p]) <= 1
      BY <1>3, <2>1 DEF Orderly, AllRun
    <3>2. DOMAIN current[p] = 1..Len(current[p]) /\ Len(current[p]) \in Nat /\ Head(current[p]) = current[p][1]
      BY <1>1, <3>1, HeadTailProperties, LenProperties
    <3>. QED  BY <3>1, <3>2 DEF CallsOf
  <2>. HIDE DEF c
  <2>3. \A w \in Waiters : awaiting'[w] \in {awaiting[w], NoCall}
    BY <1>1, <2>1
  <2>4. ASSUME NEW w \in Waiters
        PROVE  Expected(w)'
    BY <1>1, <1>2, <1>3, <2>1, <2>2, <2>4 DEF Expected
  <2>. QED  BY <1>2, <2>1, <2>3, <2>4
<1>9. CASE (\E l \in Listeners : RunListener(p, l)) \/ Return(p)
  <2>1. UNCHANGED <<g_pendingResults, awaiting, drainedResults, resReg, current, waitersToRun>>
    BY <1>9 DEF RunListener, Return, queueVars, objectVars
  <2>2. \A w \in Waiters : Expected(w)'
    BY <1>2, <2>1 DEF Expected
  <2>. QED  BY <1>5, <2>1, <2>2
<1>. QED  BY <1>4, <1>6, <1>7, <1>8, <1>9 DEF Deliver

(* In a game that uses one thread, a waiter parked on a call whose result  *)
(* is promised or queued is run for it or gives up, whatever its handlers  *)
(* do: between the call and CCallResult::Set no pump takes the result, and *)
(* the pump that takes it later has the waiter in its copy.  With another  *)
(* thread that pumps, the result may be taken before the waiter is parked. *)
THEOREM NobodyStranded ==
  ASSUME \A s, t \in Threads : s = t
  PROVE  Spec => []NoStrandedWaiter
<1>1. Init => WInv
  BY DEF Init, QueueInit, WInv, Expected
<1>2. ASSUME IInv, WInv, [Next]_vars
      PROVE  WInv'
  <2>1. CASE UNCHANGED vars
    <3>1. UNCHANGED <<g_results, awaiting, drainedResults, resReg, current, waitersToRun,
                      returned, reserved, g_pendingResults>>
      BY <2>1 DEF vars, queueVars, objectVars, threadVars, pumpVars
    <3>. QED  BY <1>2, <3>1, ProducersExpected
  <2>2. ASSUME NEW p \in Pumps, Drain(p) \/ Deliver(p)
        PROVE  WInv'
    BY <1>2, <2>2, PumpExpected, StandardDispatchAssumption
  <2>. QED  BY <1>2, <2>1, <2>2, GameExpected DEF Next
<1>3. WInv => NoStrandedWaiter
  BY DEF WInv, Expected, NoStrandedWaiter
<1>. QED  BY <1>1, <1>2, <1>3, InductiveInvariant, PTL DEF Spec
=============================================================================
