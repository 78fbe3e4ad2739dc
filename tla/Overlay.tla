------------------------------ MODULE Overlay ------------------------------
(***************************************************************************)
(* The overlay's visibility (src/overlay): the game asks for it, the user  *)
(* toggles it on the backend's thread, and the pumps compare it with what  *)
(* they reported last to tell the game.  The backend is the swapchain hook *)
(* or, failing that, a window with a thread of its own, whose set-up may   *)
(* fail after Start has returned.                                          *)
(*                                                                         *)
(* The game's thread is at gameAt in Start or Stop; another of its threads *)
(* may pump or ask meanwhile.                                              *)
(***************************************************************************)
EXTENDS Naturals, FiniteSets

CONSTANTS
  OverlayPumps,  \* the threads that pump
  MayShutDown,   \* may the game call SteamAPI_Shutdown?
  MaxAsks,       \* bound: times the game or the user asks for a visibility
  MaxStarts      \* bound: calls of SteamAPI_Init

ASSUME OverlayAssumption ==
  /\ IsFiniteSet(OverlayPumps) /\ MayShutDown \in BOOLEAN
  /\ MaxAsks \in Nat /\ MaxStarts \in Nat

VARIABLES
  wantVisible, lastUserInitiated,  \* the two stores of SetWantVisible
  lastReported,
  running, hookActive,
  thread,      \* the window thread: none, starting, drawing or ended; only
               \* none is not joinable
  gameAt,      \* idle, or the step of Start or Stop the game's thread is at
  setting,     \* per asker, what its SetWantVisible has still to store
  pumpAt,      \* per pump, how far its ConsumeVisibilityChange is
  asks, starts,
  asking,      \* history: who had an ask under way since a pump last looked
  askedBefore, \* history: the same, between that look and the one before it
  overlapped,  \* history: have the game's and the user's asks overlapped?
  toldActive   \* history: m_bActive of the last event, FALSE before the first

overlayVars == <<wantVisible, lastUserInitiated, lastReported, running, hookActive,
                 thread, gameAt, setting, pumpAt, asks, starts,
                 asking, askedBefore, overlapped, toldActive>>
visibility == <<wantVisible, lastUserInitiated>>
backend == <<running, hookActive, thread>>
askedLately == <<asking, askedBefore, overlapped>>
events == <<askedLately, toldActive>>

Asker == {"game", "user"}
Nobody == [step |-> "idle", value |-> FALSE]

OverlayInit ==
  /\ wantVisible = FALSE /\ lastUserInitiated = FALSE /\ lastReported = FALSE
  /\ running = FALSE /\ hookActive = FALSE /\ thread = "none" /\ gameAt = "idle"
  /\ setting = [a \in Asker |-> Nobody]
  /\ pumpAt = [p \in OverlayPumps |-> Nobody]
  /\ asks = 0 /\ starts = 0
  /\ asking = {} /\ askedBefore = {} /\ overlapped = FALSE
  /\ toldActive = FALSE

---------------------------------------------------------------------------
(* Mutant of StartFirst: a thread that ended is not joined. *)
StartAtOnce == "install"

(* Start, on the game's thread: nothing if a backend is up; a thread that  *)
(* ended by itself is joined first; then the hook, or Running is set and   *)
(* the thread made.                                                        *)
StartFirst == IF thread = "none" THEN "install" ELSE "reap"

StartOverlay ==
  /\ gameAt = "idle" /\ starts < MaxStarts /\ starts' = starts + 1
  /\ gameAt' = IF hookActive \/ running THEN "idle" ELSE StartFirst
  /\ UNCHANGED <<visibility, lastReported, backend, setting, pumpAt, asks, events>>

Install ==
  /\ gameAt = "install"
  /\ \/ hookActive' = TRUE /\ gameAt' = "idle" /\ UNCHANGED running
     \/ running' = TRUE /\ gameAt' = "spawn" /\ UNCHANGED hookActive
  /\ UNCHANGED <<visibility, lastReported, thread, setting, pumpAt, asks, starts, events>>

Spawn ==
  /\ gameAt = "spawn" /\ gameAt' = "idle" /\ thread' = "starting"
  /\ UNCHANGED <<visibility, lastReported, running, hookActive, setting, pumpAt,
                 asks, starts, events>>

(* Stop: unhook, clear Running, join.                                      *)
StopOverlay ==
  /\ MayShutDown /\ gameAt = "idle"
  /\ hookActive' = FALSE /\ running' = FALSE
  /\ gameAt' = IF thread = "none" THEN "idle" ELSE "join"
  /\ UNCHANGED <<visibility, lastReported, thread, setting, pumpAt, asks, starts, events>>

(* A join returns when the thread has ended.                               *)
Join ==
  /\ gameAt \in {"reap", "join"} /\ thread = "ended"
  /\ thread' = "none"
  /\ gameAt' = IF gameAt = "reap" THEN "install" ELSE "idle"
  /\ UNCHANGED <<visibility, lastReported, running, hookActive, setting, pumpAt,
                 asks, starts, events>>

---------------------------------------------------------------------------
(* ThreadMain: a window and a device, or Running cleared and the end; then *)
(* frames until Running is clear.                                          *)
SetUp ==
  /\ thread = "starting"
  /\ \/ thread' = "drawing" /\ UNCHANGED running
     \/ thread' = "ended" /\ running' = FALSE
  /\ UNCHANGED <<visibility, lastReported, hookActive, gameAt, setting, pumpAt,
                 asks, starts, events>>

WindUp ==
  /\ thread = "drawing" /\ ~running /\ thread' = "ended"
  /\ setting["user"] = Nobody
  /\ UNCHANGED <<visibility, lastReported, running, hookActive, gameAt, setting,
                 pumpAt, asks, starts, events>>

---------------------------------------------------------------------------
Available == hookActive \/ running

(* SetWantVisible(v): who asked is stored first, then v.                   *)
Ask(a, v) ==
  /\ asks < MaxAsks /\ asks' = asks + 1
  /\ setting[a] = Nobody
  /\ setting' = [setting EXCEPT ![a] = [step |-> "asked", value |-> v]]
  /\ asking' = asking \cup {a}
  /\ overlapped' = (overlapped \/ \E b \in Asker \ {a} : setting[b] /= Nobody)
  /\ UNCHANGED <<visibility, lastReported, backend, gameAt, pumpAt, starts,
                 askedBefore, toldActive>>

(* Show and SetVisible: only while a backend is live.                      *)
SetVisible(v) == Available /\ Ask("game", v)

(* PollHotkey's RequestToggle and, of the window, RequestHide: on the      *)
(* thread that draws, the window's or, when hooked, the game's.            *)
Draws == hookActive \/ thread = "drawing"
Toggle == Draws /\ Ask("user", ~wantVisible)
Hide == thread = "drawing" /\ Ask("user", FALSE)

(* Mutant of AskedByUser: what the game asks does not clear it. *)
AskedByUserOnce(a) == lastUserInitiated \/ a = "user"

AskedByUser(a) == a = "user"

StoreAsker(a) ==
  /\ setting[a].step = "asked"
  /\ lastUserInitiated' = AskedByUser(a)
  /\ setting' = [setting EXCEPT ![a].step = "recorded"]
  /\ UNCHANGED <<wantVisible, lastReported, backend, gameAt, pumpAt, asks, starts, events>>

StoreVisible(a) ==
  /\ setting[a].step = "recorded"
  /\ wantVisible' = setting[a].value
  /\ setting' = [setting EXCEPT ![a] = Nobody]
  /\ UNCHANGED <<lastUserInitiated, lastReported, backend, gameAt, pumpAt, asks,
                 starts, events>>

---------------------------------------------------------------------------
(* PumpOverlay calls ConsumeVisibilityChange until it finds no change; it  *)
(* loads WantVisible, compares it, sets LastReported and loads who asked,  *)
(* and the event is queued.                                                *)
LoadWant(p) ==
  /\ pumpAt[p].step = "idle"
  /\ pumpAt' = [pumpAt EXCEPT ![p] = [step |-> "loaded", value |-> wantVisible]]
  /\ askedBefore' = asking /\ asking' = {a \in Asker : setting[a] /= Nobody}
  /\ UNCHANGED <<visibility, lastReported, backend, gameAt, setting, asks, starts,
                 overlapped, toldActive>>

(* Mutant of Changed: only becoming hidden is a change. *)
ChangedToHidden(v) == lastReported /\ ~v

Changed(v) == v /= lastReported

Compare(p) ==
  /\ pumpAt[p].step = "loaded"
  /\ pumpAt' = [pumpAt EXCEPT ![p] =
       IF Changed(@.value) THEN [@ EXCEPT !.step = "changed"] ELSE Nobody]
  /\ UNCHANGED <<visibility, lastReported, backend, gameAt, setting, asks, starts, events>>

SetReported(p) ==
  /\ pumpAt[p].step = "changed"
  /\ lastReported' = pumpAt[p].value
  /\ pumpAt' = [pumpAt EXCEPT ![p].step = "taken"]
  /\ UNCHANGED <<visibility, backend, gameAt, setting, asks, starts, events>>

(* The asker the event names, as m_bUserInitiated.                         *)
Named == IF lastUserInitiated THEN "user" ELSE "game"

Report(p) ==
  /\ pumpAt[p].step = "taken" /\ toldActive' = pumpAt[p].value
  /\ pumpAt' = [pumpAt EXCEPT ![p] = Nobody]
  /\ UNCHANGED <<visibility, lastReported, backend, gameAt, setting, asks, starts,
                 askedLately>>

Consume(p) == LoadWant(p) \/ Compare(p) \/ SetReported(p) \/ Report(p)
Finish(a) == StoreAsker(a) \/ StoreVisible(a)
GameStep == Install \/ Spawn \/ Join
WindowStep == SetUp \/ WindUp

OverlayNext ==
  \/ StartOverlay \/ StopOverlay \/ GameStep \/ WindowStep
  \/ Toggle \/ Hide \/ \E v \in BOOLEAN : SetVisible(v)
  \/ \E a \in Asker : Finish(a)
  \/ \E p \in OverlayPumps : Consume(p)

OverlaySpec == OverlayInit /\ [][OverlayNext]_overlayVars

---------------------------------------------------------------------------
At == [step : {"idle", "asked", "recorded", "loaded", "changed", "taken"}, value : BOOLEAN]

OverlayTypeOK ==
  /\ {wantVisible, lastUserInitiated, lastReported, running, hookActive, overlapped,
      toldActive} \subseteq BOOLEAN
  /\ asking \subseteq Asker /\ askedBefore \subseteq Asker
  /\ thread \in {"none", "starting", "drawing", "ended"}
  /\ gameAt \in {"idle", "reap", "install", "spawn", "join"}
  /\ setting \in [Asker -> At] /\ pumpAt \in [OverlayPumps -> At]
  /\ asks \in 0..MaxAsks /\ starts \in 0..MaxStarts

NamesAsker == \A p \in OverlayPumps :
  Report(p) /\ ~overlapped => Named \in asking \cup askedBefore

(* An event names one whose ask was under way since the pump looked before *)
(* this time: what the game alone asked for is not put down to the user,   *)
(* nor what the user asked for to the game.  SetWantVisible stores who     *)
(* asks before what, ConsumeVisibilityChange loads them in the other       *)
(* order.  Asks that overlap on two threads are excepted: they can leave   *)
(* the one's name beside the other's wish.                                 *)
EventNamesAsker == [][NamesAsker]_overlayVars

(* No thread is assigned over one that was not joined, which would end the *)
(* process, and a live window backend has its thread (Start, ThreadMain).  *)
OneWindowThread ==
  /\ gameAt \in {"install", "spawn"} => thread = "none"
  /\ running /\ gameAt /= "spawn" => thread \in {"starting", "drawing"}

(* Once nobody changes the visibility any more, the game has been told it. *)
VisibilityReported ==
  \A v \in BOOLEAN : <>[](wantVisible = v) => <>[](toldActive = v)

(* The game is told "active" only while a backend can draw (Available).    *)
ActiveIsBacked ==
  [][\A p \in OverlayPumps : Report(p) /\ toldActive' => Available]_overlayVars
=============================================================================
