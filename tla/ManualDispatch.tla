--------------------------- MODULE ManualDispatch ---------------------------
(***************************************************************************)
(* Manual dispatch: the game pumps messages itself, with GetNextCallback   *)
(* and FreeLastCallback, on the client pipe and on the game-server pipe.   *)
(* Messages become deliverable when their latency has passed.  A pipe is   *)
(* identified by the code's wantGS flag: TRUE is the game-server pipe.     *)
(* The loop that pumps a pipe is the game's: get, read, free.              *)
(***************************************************************************)
EXTENDS DispatchQueue, SequencesExt

CONSTANT MaxNow   \* bound: ticks of the clock in one behaviour

ASSUME ManualDispatchAssumption == MaxNow \in Nat

VARIABLES
  g_manualHeld,     \* a message is out and not freed, on either pipe
  g_manualCurrent,  \* the buffer its m_pubParam points into
  reading           \* per pipe, the message its pump is reading, if any

vars == <<queueVars, g_manualHeld, g_manualCurrent, reading>>

Pipes == BOOLEAN

(* What a pump is handed: a callback, or the SteamAPICallCompleted_t of a  *)
(* call (hCall # NoCall).  seq is that of the queued message behind it.    *)
Handed == [hCall : Nat, id : Ids, seq : Nat]

TypeOK ==
  /\ QueueTypeOK
  /\ g_manualHeld \in BOOLEAN
  /\ g_manualCurrent \in Seq(Handed)
  /\ reading \in [Pipes -> Seq(Handed)]

Init ==
  /\ QueueInit
  /\ g_manualHeld = FALSE
  /\ g_manualCurrent = << >>
  /\ reading = [p \in Pipes |-> << >>]

manualVars == <<g_manualHeld, g_manualCurrent, reading>>

-----------------------------------------------------------------------------
(* Producers and the clock *)

Post(id, gameServer, delay) ==
  /\ now + delay <= MaxNow
  /\ QueueCallback(id, gameServer, delay)
  /\ UNCHANGED manualVars

CallApi(id, gameServer, delay) ==
  /\ now + delay <= MaxNow
  /\ QueueCallResult(id, gameServer, delay)
  /\ UNCHANGED manualVars

(* CreateLobby queues LobbyCreated_t as a call result and LobbyEnter_t as  *)
(* a callback with the same latency; the clock may tick in between, other  *)
(* producers run in between: CallApi and then Post are its two steps.      *)

FileReadAsync == AllocCall /\ UNCHANGED manualVars

FileReadAsyncDone(h, id, delay) ==
  /\ now + delay <= MaxNow
  /\ QueueCallResultOn(h, id, FALSE, delay)
  /\ UNCHANGED manualVars

Tick ==
  /\ now < MaxNow
  /\ now' = now + 1
  /\ UNCHANGED <<g_seq, g_nextCall, g_pendingCallbacks, g_pendingResults,
                 g_completed, reserved, manualVars>>

-----------------------------------------------------------------------------
(* The pumps *)

(* Where the first message for the pipe that is due stands; 0 if nowhere. *)
FirstDue(queue, wantGS) ==
  SelectInSeq(queue, LAMBDA m : m.gameServer = wantGS /\ m.readyAt <= now)

FirstDueCallback(p) == FirstDue(g_pendingCallbacks, p)
FirstDueResult(p) == FirstDue(g_pendingResults, p)

(* Of the two, was the callback queued first? *)
UseCallback(p) ==
  /\ FirstDueCallback(p) # 0
  /\ FirstDueResult(p) # 0 =>
       g_pendingCallbacks[FirstDueCallback(p)].seq
         < g_pendingResults[FirstDueResult(p)].seq

HandOut(p, m) ==
  /\ g_manualHeld' = TRUE
  /\ g_manualCurrent' = <<m>>
  /\ reading' = [reading EXCEPT ![p] = <<m>>]

(* Mutant: the pump does not wait for the other pipe's FreeLastCallback. *)
MayGetHeld(p) == reading[p] = << >>

MayGet(p) == reading[p] = << >> /\ ~g_manualHeld

GetCallback(p) ==
  /\ MayGet(p)
  /\ UseCallback(p)
  /\ LET q == g_pendingCallbacks[FirstDueCallback(p)]
     IN  HandOut(p, [hCall |-> NoCall, id |-> q.id, seq |-> q.seq])
  /\ g_pendingCallbacks' = RemoveAt(g_pendingCallbacks, FirstDueCallback(p))
  /\ UNCHANGED <<g_seq, g_nextCall, g_pendingResults, g_completed, reserved, now>>

(* The callback that follows a completion, for listeners of the result's id. *)
Shadow(r) == [r EXCEPT !.hCall = NoCall, !.readyAt = 0]

(* Mutant: it is queued at the back. *)
PostShadowLast(r) == g_pendingCallbacks' = Append(g_pendingCallbacks, Shadow(r))

PostShadow(r) == g_pendingCallbacks' = <<Shadow(r)>> \o g_pendingCallbacks

(* Mutant: the result stays queued. *)
TakeNoResult(p) == UNCHANGED g_pendingResults

TakeResult(p) ==
  g_pendingResults' = RemoveAt(g_pendingResults, FirstDueResult(p))

GetCompletion(p) ==
  /\ MayGet(p)
  /\ ~UseCallback(p)
  /\ FirstDueResult(p) # 0
  /\ LET r == g_pendingResults[FirstDueResult(p)]
     IN  /\ HandOut(p, [hCall |-> r.hCall, id |-> r.id, seq |-> r.seq])
         /\ PostShadow(r)
         /\ Complete(r)
  /\ TakeResult(p)
  /\ UNCHANGED <<g_seq, g_nextCall, reserved, now>>

GetNextCallback(p) == GetCallback(p) \/ GetCompletion(p)

(* Mutant: the buffer is cleared but still counts as held. *)
FreeLastCallbackHeld(p) ==
  /\ reading[p] # << >>
  /\ g_manualCurrent' = << >>
  /\ reading' = [reading EXCEPT ![p] = << >>]
  /\ UNCHANGED <<queueVars, g_manualHeld>>

(* The pipe argument is ignored. *)
FreeLastCallback(p) ==
  /\ reading[p] # << >>
  /\ g_manualHeld' = FALSE
  /\ g_manualCurrent' = << >>
  /\ reading' = [reading EXCEPT ![p] = << >>]
  /\ UNCHANGED queueVars

-----------------------------------------------------------------------------
Next ==
  \/ \E id \in Ids, gameServer \in BOOLEAN, delay \in Delays :
       Post(id, gameServer, delay) \/ CallApi(id, gameServer, delay)
  \/ FileReadAsync
  \/ \E h \in reserved, id \in Ids, delay \in Delays : FileReadAsyncDone(h, id, delay)
  \/ Tick
  \/ \E p \in Pipes : GetNextCallback(p) \/ FreeLastCallback(p)

Spec == Init /\ [][Next]_vars

(* Time passes, and each pipe has a pump that frees what it gets. *)
FairSpec ==
  /\ Spec
  /\ WF_vars(Tick)
  /\ \A p \in Pipes : WF_vars(GetNextCallback(p)) /\ WF_vars(FreeLastCallback(p))

-----------------------------------------------------------------------------
(* Properties *)

(* Every handle ever allocated is in exactly one place: waiting for its    *)
(* result, queued, or completed.                                           *)
EveryCallOnce ==
  /\ Allocated = reserved \cup CallsOf(g_pendingResults) \cup CallsOf(g_completed)
  /\ Distinct(g_pendingResults)
  /\ Distinct(g_completed)
  /\ CallsOf(g_pendingResults) \cap CallsOf(g_completed) = {}
  /\ reserved \cap (CallsOf(g_pendingResults) \cup CallsOf(g_completed)) = {}

(* The buffer a pump reads is the message it was given, and stays so until *)
(* that pump frees it, although both pipes share one buffer and one flag.  *)
BufferStable ==
  \A p \in Pipes : reading[p] # << >> =>
    g_manualHeld /\ g_manualCurrent = reading[p] /\ reading[~p] = << >>

(* While a pump reads the completion of a call, GetAPICallResult returns   *)
(* that call's payload.                                                    *)
CompletionFetchable ==
  \A p \in Pipes : reading[p] # << >> /\ Head(reading[p]).hCall # NoCall =>
    GetAPICallResult(Head(reading[p]).hCall, Head(reading[p]).id)

(* A poll of a call whose result was queued never answers "failed", and    *)
(* never goes back to "pending".                                           *)
PollNeverFails ==
  [][\A h \in CallsOf(g_pendingResults) \cup CallsOf(g_completed) :
       /\ ~IsCallCompleted(h).failed'
       /\ IsCallCompleted(h).completed => IsCallCompleted(h).completed']_vars

(* The message pipe p is handed in this step. *)
HandsOut(p) == reading[p] = << >> /\ reading'[p] # << >>
Given(p) == Head(reading'[p])

Due(queue, p) == {m \in ToSet(queue) : m.gameServer = p /\ m.readyAt <= now}

SeqsOf(queue) == {queue[i].seq : i \in DOMAIN queue}

(* A plain callback never overtakes a call result, a shadow or another     *)
(* callback that was queued before it on the same pipe and is due: the     *)
(* LobbyEnter_t of CreateLobby reaches the game after both forms of its    *)
(* LobbyCreated_t.                                                         *)
CallbacksInOrder ==
  [][\A p \in Pipes :
       HandsOut(p) /\ Given(p).hCall = NoCall /\ Given(p).seq \notin SeqsOf(g_completed)
         => \A m \in Due(g_pendingResults', p) \cup Due(g_pendingCallbacks', p) :
              m.seq > Given(p).seq]_vars

(* Every queued message is eventually handed out, a result in both forms.  *)
QueuesDrain ==
  \A n \in 0..(MaxSeq - 1) :
    n \in SeqsOf(g_pendingCallbacks) \cup SeqsOf(g_pendingResults)
      ~> n \notin SeqsOf(g_pendingCallbacks) \cup SeqsOf(g_pendingResults)

(* Manual dispatch keeps the promise about asynchronous calls. *)
Calls == INSTANCE AsyncCalls WITH
  next <- g_nextCall,
  promised <- reserved,
  ready <- CallsOf(g_pendingResults),
  done <- [i \in DOMAIN g_completed |-> g_completed[i].hCall]

ImplementsAsyncCalls == Calls!Spec
=============================================================================
