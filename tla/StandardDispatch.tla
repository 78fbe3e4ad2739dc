-------------------------- MODULE StandardDispatch --------------------------
(***************************************************************************)
(* Standard dispatch: CCallback and CCallResult objects registered with    *)
(* the dispatcher, and RunCallbacks, which drains both queues under the    *)
(* lock and then calls the objects with the lock released.  Everything     *)
(* between two lock acquisitions of RunCallbacks is a step of its own, so  *)
(* handlers re-enter the dispatcher and other threads run in between.      *)
(*                                                                         *)
(* Threads are the game's.  A thread in Pumps is the one that calls        *)
(* SteamAPI_RunCallbacks, or SteamGameServer_RunCallbacks if it is also in *)
(* ServerPumps.  A listener is a CCallback object for the one id           *)
(* ListensTo gives it (its template argument) and is a game-server         *)
(* listener if it is in ServerListeners; a waiter is a CCallResult object. *)
(* The SDK's classes are external: their constructors, Set, Run and        *)
(* destructors are modelled by how they use the exported entry points.     *)
(***************************************************************************)
EXTENDS DispatchQueue

CONSTANTS
  Threads, Pumps, ServerPumps,
  Listeners, ServerListeners, ListensTo,
  Waiters,
  DestroyDuringPump   \* may a game destroy an object while a pump is running?

ASSUME StandardDispatchAssumption ==
  /\ Pumps \subseteq Threads
  /\ ServerPumps \subseteq Pumps
  /\ ServerListeners \subseteq Listeners
  /\ ListensTo \in [Listeners -> Ids]
  /\ Listeners \cap Waiters = {}
  /\ DestroyDuringPump \in BOOLEAN

VARIABLES
  g_callbacks,       \* registered listeners, with the id each is registered for
  g_results,         \* registered waiters, with the handle each is registered for
  alive,             \* objects that exist; any other address is freed memory
  flagged,           \* objects whose k_ECallbackFlagsRegistered bit is set
  awaiting,          \* CCallResult::m_hAPICall of every waiter
  reading,           \* per thread, FileReadAsync's handle before its result is queued
  returned,          \* per thread, a handle an API method just returned to it
  pc,                \* per pump: idle, draining, handler
  drainedCallbacks,  \* RunCallbacks's local copies of the queues ...
  drainedResults,
  cbReg,             \* ... and of the registrations
  resReg,
  current,           \* the message being delivered, if any
  waitersToRun,      \* objects the current message has still to be given to
  listenersToRun,
  lastSeen           \* history: per listener, the stamp of the last message it was run with

objectVars == <<g_callbacks, g_results, alive, flagged, awaiting>>
threadVars == <<reading, returned>>
pumpVars == <<pc, drainedCallbacks, drainedResults, cbReg, resReg, current,
              waitersToRun, listenersToRun>>
vars == <<queueVars, objectVars, threadVars, pumpVars, lastSeen>>

Objects == Listeners \cup Waiters

TypeOK ==
  /\ QueueTypeOK
  /\ g_callbacks \subseteq Listeners \X Ids
  /\ g_results \subseteq Waiters \X Nat
  /\ alive \subseteq Objects
  /\ flagged \subseteq Objects
  /\ awaiting \in [Waiters -> Nat]
  /\ reading \in [Threads -> Nat]
  /\ returned \in [Threads -> Nat]
  /\ pc \in [Pumps -> {"idle", "draining", "handler"}]
  /\ drainedCallbacks \in [Pumps -> Seq(Message)]
  /\ drainedResults \in [Pumps -> Seq(Message)]
  /\ cbReg \in [Pumps -> SUBSET (Listeners \X Ids)]
  /\ resReg \in [Pumps -> SUBSET (Waiters \X Nat)]
  /\ current \in [Pumps -> Seq(Message)]
  /\ waitersToRun \in [Pumps -> SUBSET Waiters]
  /\ listenersToRun \in [Pumps -> SUBSET Listeners]
  /\ lastSeen \in [Listeners -> Nat]

Init ==
  /\ QueueInit
  /\ g_callbacks = {}
  /\ g_results = {}
  /\ alive = {}
  /\ flagged = {}
  /\ awaiting = [w \in Waiters |-> NoCall]
  /\ reading = [t \in Threads |-> NoCall]
  /\ returned = [t \in Threads |-> NoCall]
  /\ pc = [p \in Pumps |-> "idle"]
  /\ drainedCallbacks = [p \in Pumps |-> << >>]
  /\ drainedResults = [p \in Pumps |-> << >>]
  /\ cbReg = [p \in Pumps |-> {}]
  /\ resReg = [p \in Pumps |-> {}]
  /\ current = [p \in Pumps |-> << >>]
  /\ waitersToRun = [p \in Pumps |-> {}]
  /\ listenersToRun = [p \in Pumps |-> {}]
  /\ lastSeen = [l \in Listeners |-> 0]

-----------------------------------------------------------------------------
(* The game's own code.  A pump's thread runs it outside RunCallbacks or   *)
(* inside a handler, and only when it is not inside an API method.         *)

RunsGameCode(t) ==
  /\ t \in Pumps => pc[t] \in {"idle", "handler"}
  /\ reading[t] = NoCall

(* An API method that queues its result; the game gets the handle. *)
CallApi(t, id, gameServer) ==
  /\ RunsGameCode(t)
  /\ returned[t] = NoCall
  /\ QueueCallResult(id, gameServer, 0)
  /\ returned' = [returned EXCEPT ![t] = g_nextCall]
  /\ UNCHANGED <<objectVars, reading, pumpVars, lastSeen>>

(* FileReadAsync allocates its handle first ... *)
FileReadAsync(t) ==
  /\ RunsGameCode(t)
  /\ returned[t] = NoCall
  /\ AllocCall
  /\ reading' = [reading EXCEPT ![t] = g_nextCall]
  /\ UNCHANGED <<objectVars, returned, pumpVars, lastSeen>>

(* ... and queues the result, which carries it, when the read has been done. *)
FileReadAsyncDone(t, id) ==
  /\ reading[t] # NoCall
  /\ QueueCallResultOn(reading[t], id, FALSE, 0)
  /\ returned' = [returned EXCEPT ![t] = reading[t]]
  /\ reading' = [reading EXCEPT ![t] = NoCall]
  /\ UNCHANGED <<objectVars, pumpVars, lastSeen>>

(* CreateBrowser returns a handle and queues nothing. *)
CreateBrowser(t) ==
  /\ RunsGameCode(t)
  /\ returned[t] = NoCall
  /\ AllocCall
  /\ returned' = [returned EXCEPT ![t] = g_nextCall]
  /\ UNCHANGED <<objectVars, reading, pumpVars, lastSeen>>

(* A plain callback from the emulator: an API method or the network thread. *)
Post(id, gameServer) ==
  /\ QueueCallback(id, gameServer, 0)
  /\ UNCHANGED <<objectVars, threadVars, pumpVars, lastSeen>>

(* Mutant: the registered bit is not set. *)
RegisterCallbackUnflagged(l, id) ==
  /\ g_callbacks' = g_callbacks \cup {<<l, id>>}
  /\ UNCHANGED <<flagged, g_results>>

RegisterCallback(l, id) ==
  /\ flagged' = flagged \cup {l}
  /\ g_callbacks' = g_callbacks \cup {<<l, id>>}
  /\ UNCHANGED g_results

UnregisterCallback(l) ==
  /\ flagged' = flagged \ {l}
  /\ g_callbacks' = {reg \in g_callbacks : reg[1] # l}
  /\ UNCHANGED g_results

UnregisterCallResult(w, hCall) ==
  /\ flagged' = flagged \ {w}
  /\ g_results' = g_results \ {<<w, hCall>>}
  /\ UNCHANGED g_callbacks

(* CCallback::Register, on an object that exists or from the constructor of *)
(* one, which may be at the address of an object destroyed before.          *)
Listen(t, l) ==
  /\ RunsGameCode(t)
  /\ l \notin flagged
  /\ RegisterCallback(l, ListensTo[l])
  /\ alive' = alive \cup {l}
  /\ UNCHANGED <<queueVars, awaiting, threadVars, pumpVars, lastSeen>>

(* CCallback::Unregister. *)
StopListening(t, l) ==
  /\ RunsGameCode(t)
  /\ l \in alive \cap flagged
  /\ UnregisterCallback(l)
  /\ UNCHANGED <<queueVars, alive, awaiting, threadVars, pumpVars, lastSeen>>

(* CCallResult::Set on the handle the thread was just given: a new object, *)
(* or one that first cancels the call it awaits; then RegisterCallResult.  *)
Park(t, w) ==
  /\ returned[t] # NoCall
  /\ alive' = alive \cup {w}
  /\ flagged' = flagged \cup {w}
  /\ g_results' = (g_results \ {<<w, awaiting[w]>>}) \cup {<<w, returned[t]>>}
  /\ awaiting' = [awaiting EXCEPT ![w] = returned[t]]
  /\ returned' = [returned EXCEPT ![t] = NoCall]
  /\ UNCHANGED <<queueVars, g_callbacks, reading, pumpVars, lastSeen>>

(* CCallResult::Cancel. *)
Cancel(t, w) ==
  /\ RunsGameCode(t)
  /\ w \in alive
  /\ awaiting[w] # NoCall
  /\ UnregisterCallResult(w, awaiting[w])
  /\ awaiting' = [awaiting EXCEPT ![w] = NoCall]
  /\ UNCHANGED <<queueVars, alive, threadVars, pumpVars, lastSeen>>

(* A game may also drop the handle, or keep it to poll. *)
Discard(t) ==
  /\ returned[t] # NoCall
  /\ returned' = [returned EXCEPT ![t] = NoCall]
  /\ UNCHANGED <<queueVars, objectVars, reading, pumpVars, lastSeen>>

MayDestroy(t) ==
  /\ RunsGameCode(t)
  /\ DestroyDuringPump \/ \A p \in Pumps : pc[p] = "idle"

(* ~CCallback: unregisters only if the flag says it is registered. *)
DestroyListener(t, l) ==
  /\ MayDestroy(t)
  /\ l \in alive
  /\ IF l \in flagged
     THEN UnregisterCallback(l)
     ELSE UNCHANGED <<g_callbacks, g_results, flagged>>
  /\ alive' = alive \ {l}
  /\ UNCHANGED <<queueVars, awaiting, threadVars, pumpVars, lastSeen>>

(* ~CCallResult: Cancel unregisters while a call is still awaited. *)
DestroyWaiter(t, w) ==
  /\ MayDestroy(t)
  /\ w \in alive
  /\ IF awaiting[w] # NoCall
     THEN UnregisterCallResult(w, awaiting[w])
     ELSE UNCHANGED <<g_callbacks, g_results, flagged>>
  /\ awaiting' = [awaiting EXCEPT ![w] = NoCall]
  /\ alive' = alive \ {w}
  /\ UNCHANGED <<queueVars, threadVars, pumpVars, lastSeen>>

-----------------------------------------------------------------------------
(* RunCallbacks *)

(* Does the pump's gameServer argument match the listener's kind? *)
Serves(p, l) == (l \in ServerListeners) <=> (p \in ServerPumps)

(* Mutant: the call results' registrations are not copied. *)
SnapshotCallbacks(p) ==
  /\ cbReg' = [cbReg EXCEPT ![p] = g_callbacks]
  /\ UNCHANGED resReg

Snapshot(p) ==
  /\ cbReg' = [cbReg EXCEPT ![p] = g_callbacks]
  /\ resReg' = [resReg EXCEPT ![p] = g_results]

Drain(p) ==
  /\ pc[p] = "idle"
  /\ reading[p] = NoCall
  /\ returned[p] = NoCall
  /\ pc' = [pc EXCEPT ![p] = "draining"]
  /\ drainedCallbacks' = [drainedCallbacks EXCEPT ![p] = g_pendingCallbacks]
  /\ drainedResults' = [drainedResults EXCEPT ![p] = g_pendingResults]
  /\ g_pendingCallbacks' = << >>
  /\ g_pendingResults' = << >>
  /\ Snapshot(p)
  /\ UNCHANGED <<g_seq, g_nextCall, g_completed, reserved, now, objectVars,
                 threadVars, current, waitersToRun, listenersToRun, lastSeen>>

(* The current message has been given to everyone it is for. *)
AllRun(p) == waitersToRun[p] = {} /\ listenersToRun[p] = {}

AtLoopTop(p) ==
  /\ pc[p] = "draining"
  /\ AllRun(p)
  /\ CallsOf(current[p]) = {}

(* Mutant: all plain callbacks before any result. *)
UseCallbackFirst(p) == drainedCallbacks[p] # << >>

(* Is the next message of the drained queues a plain callback? *)
UseCallback(p) ==
  /\ drainedCallbacks[p] # << >>
  /\ drainedResults[p] # << >> =>
       Head(drainedCallbacks[p]).seq < Head(drainedResults[p]).seq

(* Registrations are visited in the order they were made; the order among  *)
(* the objects of one message is left open here.                           *)
ListenersFor(p, id) == {l \in Listeners : <<l, id>> \in cbReg[p]}

TakeCallback(p) ==
  /\ AtLoopTop(p)
  /\ UseCallback(p)
  /\ LET q == Head(drainedCallbacks[p])
     IN  /\ current' = [current EXCEPT ![p] = <<q>>]
         /\ listenersToRun' = [listenersToRun EXCEPT ![p] =
                                 {l \in ListenersFor(p, q.id) : Serves(p, l)}]
  /\ drainedCallbacks' = [drainedCallbacks EXCEPT ![p] = Tail(@)]
  /\ UNCHANGED <<queueVars, objectVars, threadVars, pc, drainedResults, cbReg,
                 resReg, waitersToRun, lastSeen>>

TakeResult(p) ==
  /\ AtLoopTop(p)
  /\ ~UseCallback(p)
  /\ drainedResults[p] # << >>
  /\ LET r == Head(drainedResults[p])
     IN  /\ current' = [current EXCEPT ![p] = <<r>>]
         /\ waitersToRun' = [waitersToRun EXCEPT ![p] =
                               {w \in Waiters : <<w, r.hCall>> \in resReg[p]}]
         /\ listenersToRun' = [listenersToRun EXCEPT ![p] = ListenersFor(p, r.id)]
  /\ drainedResults' = [drainedResults EXCEPT ![p] = Tail(@)]
  /\ UNCHANGED <<queueVars, objectVars, threadVars, pc, drainedCallbacks, cbReg,
                 resReg, lastSeen>>

(* CCallResult::Run: clears m_hAPICall if it is still this call, then      *)
(* calls the game's method; the registration stays.                        *)
RunWaiter(p, w) ==
  /\ pc[p] = "draining"
  /\ w \in waitersToRun[p]
  /\ waitersToRun' = [waitersToRun EXCEPT ![p] = @ \ {w}]
  /\ awaiting' = [awaiting EXCEPT ![w] =
                    IF @ = Head(current[p]).hCall THEN NoCall ELSE @]
  /\ pc' = [pc EXCEPT ![p] = "handler"]
  /\ UNCHANGED <<queueVars, g_callbacks, g_results, alive, flagged, threadVars,
                 drainedCallbacks, drainedResults, cbReg, resReg, current,
                 listenersToRun, lastSeen>>

(* CCallback::Run; the waiters of a result have all been run before. *)
RunListener(p, l) ==
  /\ pc[p] = "draining"
  /\ waitersToRun[p] = {}
  /\ l \in listenersToRun[p]
  /\ listenersToRun' = [listenersToRun EXCEPT ![p] = @ \ {l}]
  /\ lastSeen' = [lastSeen EXCEPT ![l] = Head(current[p]).seq]
  /\ pc' = [pc EXCEPT ![p] = "handler"]
  /\ UNCHANGED <<queueVars, objectVars, threadVars, drainedCallbacks,
                 drainedResults, cbReg, resReg, current, waitersToRun>>

(* The handler returns; a handle it was given it has parked or dropped. *)
Return(p) ==
  /\ pc[p] = "handler"
  /\ reading[p] = NoCall
  /\ returned[p] = NoCall
  /\ pc' = [pc EXCEPT ![p] = "draining"]
  /\ UNCHANGED <<queueVars, objectVars, threadVars, drainedCallbacks,
                 drainedResults, cbReg, resReg, current, waitersToRun,
                 listenersToRun, lastSeen>>

(* A result that has been given to everyone is kept for GetAPICallResult. *)
Retain(p) ==
  /\ pc[p] = "draining"
  /\ AllRun(p)
  /\ CallsOf(current[p]) # {}
  /\ Complete(Head(current[p]))
  /\ current' = [current EXCEPT ![p] = << >>]
  /\ UNCHANGED <<g_seq, g_nextCall, g_pendingCallbacks, g_pendingResults,
                 reserved, now, objectVars, threadVars, pc, drainedCallbacks,
                 drainedResults, cbReg, resReg, waitersToRun, listenersToRun,
                 lastSeen>>

EndRun(p) ==
  /\ AtLoopTop(p)
  /\ drainedCallbacks[p] = << >>
  /\ drainedResults[p] = << >>
  /\ pc' = [pc EXCEPT ![p] = "idle"]
  /\ current' = [current EXCEPT ![p] = << >>]
  /\ cbReg' = [cbReg EXCEPT ![p] = {}]
  /\ resReg' = [resReg EXCEPT ![p] = {}]
  /\ UNCHANGED <<queueVars, objectVars, threadVars, drainedCallbacks,
                 drainedResults, waitersToRun, listenersToRun, lastSeen>>

-----------------------------------------------------------------------------
Game ==
  \/ \E id \in Ids, gameServer \in BOOLEAN : Post(id, gameServer)
  \/ \E t \in Threads :
       \/ \E id \in Ids, gameServer \in BOOLEAN : CallApi(t, id, gameServer)
       \/ FileReadAsync(t)
       \/ \E id \in Ids : FileReadAsyncDone(t, id)
       \/ CreateBrowser(t)
       \/ Discard(t)
       \/ \E l \in Listeners :
            Listen(t, l) \/ StopListening(t, l) \/ DestroyListener(t, l)
       \/ \E w \in Waiters : Park(t, w) \/ Cancel(t, w) \/ DestroyWaiter(t, w)

(* The steps of one RunCallbacks call after its Drain. *)
Deliver(p) ==
  \/ TakeCallback(p)
  \/ TakeResult(p)
  \/ \E w \in Waiters : RunWaiter(p, w)
  \/ \E l \in Listeners : RunListener(p, l)
  \/ Return(p)
  \/ Retain(p)
  \/ EndRun(p)

Next ==
  \/ Game
  \/ \E p \in Pumps : Drain(p) \/ Deliver(p)

Spec == Init /\ [][Next]_vars

(* A game pumps every frame, and its handlers return; it owes nothing else. *)
FairSpec ==
  /\ Spec
  /\ \A p \in Pumps : WF_vars(Drain(p)) /\ WF_vars(Deliver(p))
  /\ \A t \in Threads : WF_vars(Discard(t) \/ \E w \in Waiters : Park(t, w))
  /\ \A t \in Threads : WF_vars(\E id \in Ids : FileReadAsyncDone(t, id))

-----------------------------------------------------------------------------
(* Properties *)

(* The handles a running pump has taken and not yet retained. *)
InFlight(p) == CallsOf(drainedResults[p]) \cup CallsOf(current[p])

NoneLost ==
  \A h \in Allocated :
    \/ h \in reserved \cup CallsOf(g_pendingResults) \cup CallsOf(g_completed)
    \/ \E p \in Pumps : h \in InFlight(p)

NoneInvented ==
  /\ reserved \cup CallsOf(g_pendingResults) \cup CallsOf(g_completed) \subseteq Allocated
  /\ \A p \in Pumps : InFlight(p) \subseteq Allocated

NoneTwice ==
  /\ Distinct(g_pendingResults)
  /\ Distinct(g_completed)
  /\ CallsOf(g_pendingResults) \cap CallsOf(g_completed) = {}
  /\ reserved \cap (CallsOf(g_pendingResults) \cup CallsOf(g_completed)) = {}
  /\ \A p \in Pumps :
       /\ Distinct(drainedResults[p])
       /\ CallsOf(drainedResults[p]) \cap CallsOf(current[p]) = {}
       /\ InFlight(p) \cap (reserved \cup CallsOf(g_pendingResults)
                              \cup CallsOf(g_completed)) = {}
       /\ \A q \in Pumps \ {p} : InFlight(p) \cap InFlight(q) = {}

(* Every handle ever allocated is in exactly one place: waiting for its    *)
(* result (AllocCall), queued, taken by one pump, or completed.  A result  *)
(* is thus never lost and never delivered twice, however many pumps run    *)
(* and whatever their handlers do.                                         *)
EveryCallOnce == NoneLost /\ NoneInvented /\ NoneTwice

(* RunCallbacks never calls into freed memory: every object still to be    *)
(* run for the current message exists.                                     *)
NoUseAfterFree ==
  \A p \in Pumps : waitersToRun[p] \cup listenersToRun[p] \subseteq alive

(* A listener is never run with a message older than one it was run with   *)
(* before: callbacks and results interleave in the order they were queued. *)
InsertionOrder == [][\A l \in Listeners : lastSeen'[l] >= lastSeen[l]]_vars

(* A waiter parked on a queued call will be run for it: the call is still  *)
(* queued, or the pump that took it has the waiter among its registrations *)
(* or among the objects still to be run.                                   *)
NoStrandedWaiter ==
  \A w \in alive \cap Waiters :
    \/ awaiting[w] \in {NoCall} \cup reserved \cup CallsOf(g_pendingResults)
    \/ \E p \in Pumps :
         \/ /\ awaiting[w] \in CallsOf(drainedResults[p])
            /\ <<w, awaiting[w]>> \in resReg[p]
         \/ awaiting[w] \in CallsOf(current[p]) /\ w \in waitersToRun[p]

(* Every queued result is handed out and kept for a later fetch, and a     *)
(* waiter parked on a call whose result is queued is run, or gives up.     *)
QueuedCallCompletes ==
  \A h \in 1..MaxCalls :
    /\ h \in CallsOf(g_pendingResults) ~> h \in CallsOf(g_completed)
    /\ \A w \in Waiters :
         awaiting[w] = h /\ h \in CallsOf(g_pendingResults) ~> awaiting[w] # h

(* A poll of a call whose result was queued never answers "failed". *)
PollNeverFails ==
  \A h \in UNION {InFlight(p) : p \in Pumps} \cup CallsOf(g_completed) :
    ~IsCallCompleted(h).failed

(* A plain callback taken off the queue is given to every registered       *)
(* listener of the kind it was queued for.                                 *)
CallbackReachesItsListeners ==
  [][\A p \in Pumps : TakeCallback(p) =>
       LET q == Head(drainedCallbacks[p])
       IN  \A l \in ListenersFor(p, q.id) :
             (l \in ServerListeners <=> q.gameServer) => l \in listenersToRun'[p]]_vars

(* Standard dispatch keeps the promise about asynchronous calls: what a    *)
(* pump has taken is still on its way.                                     *)
Calls == INSTANCE AsyncCalls WITH
  next <- g_nextCall,
  promised <- reserved,
  ready <- CallsOf(g_pendingResults) \cup UNION {InFlight(p) : p \in Pumps},
  done <- [i \in DOMAIN g_completed |-> g_completed[i].hCall]

ImplementsAsyncCalls == Calls!Spec
=============================================================================
