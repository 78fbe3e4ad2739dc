--------------------------- MODULE DispatchQueue ---------------------------
(***************************************************************************)
(* The queues that back both of Steam's delivery mechanisms                *)
(* (src/dispatch.{h,cpp}): the pending plain callbacks, the pending call   *)
(* results, the results already handed out, and the two counters that      *)
(* number messages and calls.  Every operator of this module is one        *)
(* critical section of g_mutex; StandardDispatch and ManualDispatch add    *)
(* the two ways a game drains the queues.                                  *)
(*                                                                         *)
(* A payload is abstracted to the callback id it is queued under.  The     *)
(* code's ioFailure flag is never set by any producer, so it is left out;  *)
(* readyAt is in abstract ticks of the steady clock.                       *)
(***************************************************************************)
EXTENDS Naturals, Sequences

CONSTANTS
  Ids,       \* callback ids (k_iCallback)
  Delays,    \* the latencies producers ask for, in ticks
  MaxSeq,    \* bound: messages queued in one behaviour
  MaxCalls   \* bound: call handles allocated in one behaviour

ASSUME DispatchAssumption ==
  /\ Delays \subseteq Nat
  /\ MaxSeq \in Nat
  /\ MaxCalls \in Nat

VARIABLES
  g_seq,               \* next sequence stamp, shared by both queues
  g_nextCall,          \* next SteamAPICall_t
  g_pendingCallbacks,  \* queued plain callbacks, oldest first
  g_pendingResults,    \* queued call results, oldest first
  g_completed,         \* results handed out, kept for GetAPICallResult
  reserved,            \* handles from AllocCall whose result is not queued yet
  now                  \* NowMs()

queueVars == <<g_seq, g_nextCall, g_pendingCallbacks, g_pendingResults,
               g_completed, reserved, now>>

(* k_uAPICallInvalid: what a plain callback carries instead of a handle. *)
NoCall == 0

(* One queued message: QueuedResult, and QueuedCallback with hCall = NoCall. *)
Message == [hCall : Nat, id : Ids, gameServer : BOOLEAN, seq : Nat, readyAt : Nat]

QueueTypeOK ==
  /\ g_seq \in Nat
  /\ g_nextCall \in Nat \ {NoCall}
  /\ g_pendingCallbacks \in Seq(Message)
  /\ g_pendingResults \in Seq(Message)
  /\ g_completed \in Seq(Message)
  /\ reserved \subseteq Nat
  /\ now \in Nat

(* Mutant: the call counter starts at k_uAPICallInvalid. *)
QueueInitAtInvalid ==
  /\ g_seq = 0
  /\ g_nextCall = NoCall
  /\ g_pendingCallbacks = << >>
  /\ g_pendingResults = << >>
  /\ g_completed = << >>
  /\ reserved = {}
  /\ now = 0

QueueInit ==
  /\ g_seq = 0
  /\ g_nextCall = 1
  /\ g_pendingCallbacks = << >>
  /\ g_pendingResults = << >>
  /\ g_completed = << >>
  /\ reserved = {}
  /\ now = 0

-----------------------------------------------------------------------------
(* Producers *)

Stamp(hCall, id, gameServer, delay) ==
  [hCall |-> hCall, id |-> id, gameServer |-> gameServer,
   seq |-> g_seq, readyAt |-> now + delay]

QueueCallback(id, gameServer, delay) ==
  /\ g_seq < MaxSeq
  /\ g_pendingCallbacks' =
       Append(g_pendingCallbacks, Stamp(NoCall, id, gameServer, delay))
  /\ g_seq' = g_seq + 1
  /\ UNCHANGED <<g_nextCall, g_pendingResults, g_completed, reserved, now>>

(* Mutant: the call counter is read but not advanced. *)
QueueCallResultAgain(id, gameServer, delay) ==
  /\ g_seq < MaxSeq
  /\ g_nextCall <= MaxCalls
  /\ g_pendingResults' =
       Append(g_pendingResults, Stamp(g_nextCall, id, gameServer, delay))
  /\ g_seq' = g_seq + 1
  /\ UNCHANGED <<g_nextCall, g_pendingCallbacks, g_completed, reserved, now>>

(* The handle this allocates is g_nextCall. *)
QueueCallResult(id, gameServer, delay) ==
  /\ g_seq < MaxSeq
  /\ g_nextCall <= MaxCalls
  /\ g_pendingResults' =
       Append(g_pendingResults, Stamp(g_nextCall, id, gameServer, delay))
  /\ g_seq' = g_seq + 1
  /\ g_nextCall' = g_nextCall + 1
  /\ UNCHANGED <<g_pendingCallbacks, g_completed, reserved, now>>

AllocCall ==
  /\ g_nextCall <= MaxCalls
  /\ reserved' = reserved \cup {g_nextCall}
  /\ g_nextCall' = g_nextCall + 1
  /\ UNCHANGED <<g_seq, g_pendingCallbacks, g_pendingResults, g_completed, now>>

(* For a method that allocates the handle first because its result must   *)
(* carry it; bounded by the handles, so that the method always returns.    *)
QueueCallResultOn(hCall, id, gameServer, delay) ==
  /\ hCall \in reserved
  /\ g_pendingResults' =
       Append(g_pendingResults, Stamp(hCall, id, gameServer, delay))
  /\ g_seq' = g_seq + 1
  /\ reserved' = reserved \ {hCall}
  /\ UNCHANGED <<g_nextCall, g_pendingCallbacks, g_completed, now>>

(* Mutant: the result is dropped. *)
CompleteNothing(r) == UNCHANGED g_completed

(* A result that has been handed out is kept for GetAPICallResult. *)
Complete(r) == g_completed' = Append(g_completed, r)

-----------------------------------------------------------------------------
(* Queries *)

(* The handles of the results in a queue. *)
CallsOf(queue) == {queue[i].hCall : i \in DOMAIN queue} \ {NoCall}

(* No two results in a queue are for the same call. *)
Distinct(queue) ==
  \A i, j \in DOMAIN queue :
    queue[i].hCall = queue[j].hCall /\ queue[i].hCall # NoCall => i = j

(* The handles AllocCall and QueueCallResult have given out. *)
Allocated == 1..(g_nextCall - 1)

(* What a poll of hCall answers: its return value and *pbFailed. *)
IsCallCompleted(hCall) ==
  [completed |-> hCall \in CallsOf(g_completed) \/ hCall \notin CallsOf(g_pendingResults),
   failed    |-> hCall \notin CallsOf(g_completed) \cup CallsOf(g_pendingResults)]

(* Whether GetAPICallResult hands out the payload of hCall. *)
GetAPICallResult(hCall, idExpected) ==
  \E i \in DOMAIN g_completed :
    /\ g_completed[i].hCall = hCall
    /\ \A j \in 1..(i - 1) : g_completed[j].hCall # hCall
    /\ g_completed[i].id = idExpected
=============================================================================
