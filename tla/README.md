# A TLA+ model of steamemu

steamemu answers a game's Steam API calls without Steam: it queues callbacks and
call results for the game, finds other instances on the LAN by multicast, and
carries lobbies, packets and connections between them. Line numbers below and in
`PROJECT.json` are those of the modelled commit.

## 1. The system

| component | state | operations | talks to |
|---|---|---|---|
| Dispatcher (`src/dispatch.cpp`) | two queues, completed results, registrations, one manual buffer; all under `g_mutex` | queue, register, `RunCallbacks`, `GetNextCallback`, `FreeLastCallback`, poll, fetch | called by every other part; calls the game's objects without the lock |
| Entry points (`src/steam_api.cpp`) | logon announcement counter | init, shutdown, the two pumps | dispatcher, network, overlay |
| Network backend (`src/net.cpp`) | `Impl`: sockets, one mutex, a detached pump thread | start, stop | owns the four parts below |
| Discovery | peers with address and last time heard | beacons once a second, expiry after 5 s | read by P2P and connections |
| Legacy P2P, networking messages | per-channel queues for two identities, known sessions | send, read, receive, close | callbacks for new sessions |
| Lobbies, lobby list, chat | the lobbies heard of or joined | create, join, leave, set, watch; presence once a second, expiry after 6 s | multicast; callbacks for changes |
| Connections (`ISteamNetworkingSockets`) | connections, listen sockets, poll groups | listen, connect, accept, close, send, receive | unicast; status callbacks |
| Cloud files (`src/storage.cpp`) | files, write streams, a list of names | write, delete, stream, enumerate | the disk; call results |
| Stats, leaderboards (`src/storage.cpp`) | maps under a lock each, read at the first call, rewritten in place | get, set, store, reset; find, upload, download | the disk; call results |
| Auth, HTTP, music and the like (`src/auth.cpp`, `src/services.cpp`) | maps under their own locks | see `PROJECT.json` | call results |
| Overlay (`src/overlay/`) | visibility flags, window thread, swapchain hook | start, stop, show, toggle | polled by the pumps |
| Generator (`tools/gen.py`) | none at run time | the body of every interface method | dispatcher, network, storage |

What is hard here: the pumps call game code without the lock and are re-entered
by it; two pumps share queues and a buffer; the game thread and the network
thread change the same tables, and what they decide under the lock is done after
it; UDP loses, repeats and reorders; processes end without a word and start
again with the same counters. `PROJECT.json` lists each hazard at its line, with
the properties that cover it or why none does yet.

What makes each modelled part correct: no call result is lost or doubled and each
finds its waiter; order of queueing is order of delivery; no freed object is run.
All nodes agree who owns a lobby, copies converge, changes are reported, members
that have gone are forgotten. Connections receive only what was sent on them,
exist only where both games agreed, and their reported status is their status. A line
of chat is told once and no line is taken for a copy of another; a packet is announced
before it is read; a peer that starts again is reached again, and so is the network after
a shutdown. The overlay's events name who asked and end with the truth. What a game
stored under a name of one word is what the next process reads, and an enumeration misses nothing that nobody touched.

## 2. Modules

| module | models | checked by |
|---|---|---|
| `AsyncCalls` | abstract: what a game is promised about asynchronous calls | refined by the next two |
| `DispatchQueue` | the queues, one operator per critical section of `g_mutex` | through its users |
| `StandardDispatch` | registered objects and `RunCallbacks`, step by step | `MCStandardDispatch` |
| `ManualDispatch` | the two pipes of manual dispatch | `MCManualDispatch` |
| `Lobbies` | one lobby as seen by every node, and the gossip between them | `MCLobbies` |
| `Connections` | connections between processes that may restart | `MCConnections` |
| `LobbyChat` | chat lines, their copies, the duplicate window | `Services` |
| `Peers` | where another node is, and where its packets go | `Services` |
| `P2PSessions` | packets by identity and channel, session requests, closing | `Services` |
| `NetLifecycle` | the backend inside one process: started by any call, stopped, its detached pump | `Services` |
| `Overlay` | visibility, those who ask for it, the backend's thread, the pump | `Services` |
| `CloudFiles` | files, write streams and the list of names | `Services` |
| `UserStats` | stats and achievements across processes | `Services` |
| `Leaderboards` | boards, ranks and downloads across processes and users | `Services`, `MCLeaderboards` |
| `Services` | the eight above in one specification | `MCServices` |
| `Filtering` | the loops that drop elements of a queue or a list | `MCServices` |
| `DispatchQueueProofs` | lemmas about queues of messages and their stamps | TLAPS |
| `StandardDispatchProofs` | types, call handles, the refinement of `AsyncCalls`, objects, order, waiters | TLAPS |
| `ManualDispatchProofs` | types, call handles, the shared buffer, polls, refinement, order | TLAPS |
| `ConnectionsProofs` | types, who a connection is connected to and hears from, what a caller knows | TLAPS |
| `LobbyChatProofs` | types, each line once in the window, nothing swallowed | TLAPS |
| `LobbiesProofs` | types, the owner known, who is a member, no change missed | TLAPS |
| `RecordProofs` | filtering; leaderboards, stats, P2P sessions | TLAPS |
| `ServiceProofs` | the overlay's thread and events; who owns the backend; files; peers; then the specification `Services` itself | TLAPS |

Variables carry the names of the code where it has one (`g_pendingResults`,
`g_manualHeld`, `nextHandle`); comments at the others say what they stand for.
Operators named as mutants in their comments are used by no specification: each
is a plausible mistake in the operator next to it and serves to show that a
property can fail.

**StandardDispatch.** `RunCallbacks` is `Drain` (the first critical section: both
queues and a copy of the registrations), then per message `TakeCallback` or
`TakeResult`, one `RunWaiter` or `RunListener` per object, `Retain` (the second
critical section), and `EndRun`. While an object runs, its thread is in game code
(`pc = "handler"`) and may call anything that is not a pump; other threads run
at any time. Several
pumps are several threads: `SteamAPI_RunCallbacks`, and for `ServerPumps`
`SteamGameServer_RunCallbacks`. An API method that promises a result is `CallApi`;
`FileReadAsync` is two steps, for its handle exists before its result;
`CreateBrowser` only hands out a handle. The SDK's `CCallback` and `CCallResult`
are external and modelled by how they use the entry points, with the flag byte
that makes their destructors unregister.

**ManualDispatch.** `GetNextCallback` is `GetCallback` or `GetCompletion`, chosen
by which due message was queued first; a completion queues its shadow at the
front. `reading` is the pump's own view of the buffer, against which the shared
buffer is compared. `Tick` is `NowMs`.

**Lobbies.** Game calls and the pump's steps are separate actions of every node.
`SendLobbyPresence` chooses who receives; lost presence reaches nobody.
`HandleLobbyMsg` merges under the lock and leaves the callbacks to `Tell`, so
that the game thread can run in between. Timeouts are nondeterministic: as presence
can be lost for any time, any member can be found silent at any moment. `told`,
`toldGs` and `gsAtJoin` are histories of what the game has been told. The lobby's
data, a member's data and the game server are one value each, since the code
only compares whole maps.

**Connections.** A call or handler changes the tables in one step and leaves
datagrams and status reports, which the code does after the unlock, in `todo`;
`SendNext` and `FireConnStatus` do them one at a time while the other thread of the
process runs. A datagram in `net` may be taken at any later time or never.
Restart gives the process a new address (the ephemeral port) and handles from 1.

**LobbyChat.** A line is one logical `SendLobbyChatMsg`; every node receives up to
`Copies` copies of it, one per interface, at any time or never. `HandleChatMsg` drops what is
in `seenOrder`. `RestartBackend` is a Stop and EnsureStarted, of the same process or, for
`Relaunching`, of a new one, which draws another `ProcessEpoch`. The epoch is the low half of a
clock; two processes of one account are taken to draw different ones.

**Peers.** One other account with its two identities. `HandleDatagram` is what
`HandleBeacon` and `HandleData` have in common: the address a datagram came from is kept
for the identity it names. `FindPeer` falls back to the other identity. A restart gives
the other node a new port.

**P2PSessions.** The receiving side. `Arrive` is the critical section of `HandleData`, `PostRequest`
what the pump does after the unlock; the game reads and closes in between. `CloseP2PSessionWithUser`
is the closing of channel 0, as `tools/gen.py` has it; accepting changes nothing.
`session` counts closings and marks packets and requests, so that a property can tell the
sessions of a sender apart, which the code does not. The loop that drops a sender's packets is
`SelectIn` of `Filtering`, `SelectSeq` defined without recursion, about which the prover can reason;
`MCServices` has TLC check that the two agree (`SelectInIsSelectSeq`). `UserStats` uses it too.

**NetLifecycle.** A call of the API is `EnsureStarted`, `Test` (of `m_impl`), `Enter` (it is read
again) and `Leave`, which is when it lets go of the Impl; `Stop` is `StopBackend` and `StopReturns`, which waits for the pump or
no longer than 400 ms, so it may come at any time. `Alive` is the shared ownership.

**Overlay.** Each store and load of the atomics that others can come between is a step:
`Ask`, `StoreAsker`, `StoreVisible` by the game and the user; `LoadWant`, `Compare`, `SetReported`, and `Report`,
which loads who asked and queues the event, by a pump; `Start` and `Stop` by the game's thread; `SetUp` and `WindUp` by the window's thread, whose set-up may fail.
`asking`, `askedBefore` and `overlapped` are histories of who had an ask under way since a pump last looked and since the look before.

**CloudFiles.** `Write` truncates and `FinishWrite` writes, with other threads in between, since
neither takes a lock. A block of data is a number of its own. The directory is listed in any
order. `intended`, `untouched` and `mixed` are histories the properties compare with.

**UserStats, Leaderboards.** Each public call is an action; a save is two, for the process may die in
it, and leaves a beginning of its lines. The conversions of `stats.txt` are modelled by what they lose, in `ReadBack`: `Printed` is what
`%g` does to a float; `WordOf` is what `%255s` reads of a name, its first word, and `RestOf` the number that is read from what
follows that word when the name has more (0 if it is none). Several names may so come back as one, with the value of the last of their
lines. A line keeps its name and its number in one, for the names have no more than 255 characters and no line break. A leaderboard
handle stands for the board's name. What a download returns is given by operators on a
board; the snapshot it is kept in changes no more and is left out.

**Services.** The eight modules share no variable, so that any interleaving of two of them
can be reordered into one of each; every property is about one. `Services` therefore lets a behaviour follow one of them, its `subject`,
and a behaviour with subject `chat` is one of `ChatSpec`, and so on: the theorems are about
those specifications, and the lemma `EachByItself`, which is about how `Services` is put together and not about the code, carries them over. What the parts do owe each other is in them: `Peers` and
`LobbyChat` have the restarts that `NetLifecycle` explains, and call results are in the dispatch modules.

## 3. Runs

| run | question | bounds |
|---|---|---|
| `dispatch` | safety, order, refinement and liveness of one pumping game thread with re-entrant handlers | 3 messages, 2 calls, 1 listener, 1 waiter |
| `manual` | the shared buffer, order, late fetches, refinement, liveness | 3 messages, 2 calls, latency 0 or 1, 2 ticks |
| `lobby` | the safety of gossip under loss, repetition, reordering, restarts | 2 nodes, 2 datagrams per direction, 1 value set, both may restart |
| `lobby_live` | convergence and expiry | 2 nodes, 1 datagram per direction, 1 value set |
| `sockets` | cross talk, acceptance, status of callers | host restarts once; 3 handles per process of the host, 2 of the guest, 1 message |
| `services` | everything the modules of `Services` promise | below; 417,000 states |
| `dispatch_destroyed` | does unregistering protect a destroyed object? no | as `dispatch`, handlers may destroy |
| `dispatch_lost` | does each kind's pump leave the other kind's callbacks alone? no | 2 messages, 2 calls, 2 pumps |
| `lobby_owner` | does joining unheard of need no handshake? it makes everyone forget the owner | 2 nodes |
| `lobby_gameserver` | is a late joiner told of the game server? not if it heard of it before | 2 nodes |
| `chat_reinit` | are chat numbers never used again? they are after Shutdown and Init in one process | as `services`, no new process |
| `boards_windows` | do scores persist on Windows? the directory is not read there | 1 user, 2 processes |

The last six show disagreements between code and its comments or tests, described
under `findings` with the lines they quote; the passing runs exclude exactly that
behaviour by a constant (`DestroyDuringPump`, `JoinUnheard`, `Relaunching`, `ReadsDir`) or state
the part that holds (`NoMissedUpdate` for `JoinerIsTold`).

In `services`, by module:

| module | bounds | why they are enough |
|---|---|---|
| `LobbyChat` | 2 nodes, 2 lines, 2 copies, window of 1 | the second line pushes the first out of the window while a copy of it is still on the way; one node restarts and reuses its counter |
| `Peers` | 3 processes of the other node, 2 packets | the entry of each identity can be of a different dead process while a third runs |
| `P2PSessions` | 2 senders, 2 channels, 3 packets, 1 closing | one packet of each session and one of another sender between them; a session more only repeats this |
| `NetLifecycle` | 2 threads, 3 backends, 3 stops, fixed port | two old pumps can be left when a third backend is started |
| `Overlay` | 3 requests, 2 starts, 1 pump besides the game's thread | there is one request of each asker in progress and one more after it, or three in turn; a start that fails and one that has to join its thread |
| `CloudFiles` | 2 threads, 3 names of 2 files, 2 blocks, 1 stream, 1 list | two writers of one file, a stream closed by one thread while the other writes; the theorems have any number |
| `UserStats` | 3 integer stats, two of which are read back as one, a float, 2 achievements, 3 changes, 2 processes | set, store and lose, or unlock, lock and unlock, beside a name that comes back over another |
| `Leaderboards` | 2 boards, 2 users, 3 uploads, 2 processes | both users on one board, the first again or as the second on the other board |

**Why the other bounds are enough.** Two calls and three messages are the least with
which a result, a callback queued before and one queued after it, and a second call
made from a handler meet; a second waiter or listener runs independently of the
first within a message. For several pumps, the theorems `CallsDeliveredOnce` and
`ObjectsExist` hold for any number. In a lobby the merge of
one presence depends on sender and receiver only, two datagrams per direction are
the least the network can reorder, and with both nodes restarting the creator meets
its own old lobby. For connections a second life of the host reuses the handles of
its first, three handles are a listen socket and two connections, and two on the
guest let two connections of one process be confused.

**Deadlock** is not checked: every run ends in states where the bounds are used
up, and a game may always stop calling.

**Fairness.** `dispatch`: a pump that can go on does (weak fairness per pump), a
thread that was given a handle parks or drops it, a file read returns; the game owes
no call, so game actions have none. `manual`: time passes, and the loop of each pipe
gets and frees. `lobby_live`: the pump thread loops for ever, so it tells and sends;
presence is not lost every time (strong fairness of delivery to all, since a lossy
network makes the step possible again and again), and silence is noticed.
`PeersReachedAgain`: the other node sends beacons for ever (its pump does, once a second), not all of one
port are lost (strong fairness), who is silent turns silent, and the pump drops it (weak).
`LanComesBack`: the game goes on calling and a pump that runs is scheduled, both weak; the game never has to
stop the backend. `VisibilityReported`: the game pumps, and a thread that has begun to
store, start, join or set up goes on, all weak; nobody has to ask for anything.
No fairness is assumed of connections, whose messages have no retry, nor of chat and files.

**Conditions of single properties.** `EventNamesAsker` is for one pump and for asks that do not overlap. Two
threads that pump both may read `LastReported` before either sets it and report a change
twice, and two threads that ask at once may leave the one's name beside the other's visibility, as `SetWantVisible` is
two stores. It says who is named, not that a game is told "active" and "inactive" in turn in time: a game may stay paused (section 4, `ActiveIsBacked`).
`StatsKept` is for names that are one word and no other name's first (`Separate`); the others are in the run and may spoil none of these. `BackendOutlivesUsers` holds for calls that do not overlap `SteamAPI_Shutdown`
(`CallsDuringStop = FALSE`); a call that overlaps it reads a pointer that is being cleared.
`OnlyCopiesDropped` holds if a node that starts again is a new process. `FileIsLastWrite`, `StatsKept`
and `ScoresPersist` except files, stats and boards that a process died writing:
all three are rewritten in place.

## 4. Disagreements shown without a run

The modules state these too; TLC finds each violated in seconds when the property is put into a
configuration like those above.

- `PollNeverFails` of `StandardDispatch`: a call polled while a pump has its result in hand is in neither
  list and answers completed and failed (`src/dispatch.cpp:313`), where `test/async_test.cpp:187`
  says "pending call reports not-completed". Manual dispatch keeps the promise (run `manual`, theorem `PollsConsistent`).
- `StatusCurrent` of `Connections`: `AcceptConnection` reports Connected after the unlock (`src/net.cpp:1658`), so a
  connection closed by its peer meanwhile is reported connected last. A caller's are in order (`CallerStatusCurrent`).
- `ActiveIsBacked` of `Overlay`: the comment at `src/overlay/Overlay.cpp:431-434` and `test/overlay_test.cpp:20-21` promise
  that no event says "active" for an overlay that cannot draw. `Running` is set before the
  window exists, so a game that shows the overlay at once is told "active", and the set-up then fails; this happens without any shutdown (`MayShutDown = FALSE`).
  The game then stays paused: `SetVisible(false)` is refused while no backend is available (line 435).
- `RowsAreTheUsers` of `Leaderboards`: the comment at `tools/gen.py:430-431` takes the first rows of the table for
  the rows of any list of users. With two users in one store, as in `test/leaderboard_test.cpp`, a download for one gives the row of the other.

Where no text of the repository says otherwise, two losses are part of the model and of no finding. A stat or achievement whose name
holds a blank does not come back from `stats.txt`: "total kills" is read as "total", with the value 0, over the value stored as "total"
(`src/storage.cpp:323` and 339). TLC shows it when `Separate` is replaced by all names. And a process that dies in a save loses what the file had.

Beside these, the header the games were built with (`src/generated/versions.h:11389-11391`) says that a session closed channel by channel is announced again
and (line 11380) that requests are repeated while a game ignores them; `ISteamNetworking::CloseP2PChannelWithUser` does nothing, and a request is posted once.

## 5. Proofs

Every theorem holds for all values of the constants that satisfy the named
assumptions (`DispatchAssumption`, `StandardDispatchAssumption`,
`ManualDispatchAssumption`, `LobbiesAssumption`, `ConnectionsAssumption`, `LobbyChatAssumption`, `OverlayAssumption`,
`NetLifecycleAssumption`, `CloudFilesAssumption`, `PeersAssumption`, `P2PAssumption`, `UserStatsAssumption`,
`LeaderboardsAssumption`), which TLC evaluates in the runs.
They say that bounds are naturals and sets of actors finite or subsets; those with content are
that listeners and waiters are different objects, that normalising a path or printing a float twice changes nothing more,
that no name belongs to two stats, and that the first word of a name is one word, itself among the names of its kind.
Further conditions are in the theorem. A theorem that names
a property of a run proves for every instance what the run checks on a small one.

**Where every call handle is** (`StandardDispatchProofs`). `CallsDeliveredOnce`:
every handle ever given out is in exactly one of the reserve of `AllocCall`, the
queue, the hands of one pump, the completed results. `EveryCallOnce` is not
inductive by itself. `Drain` overwrites the pump's local queue, so one must know
that an idle pump holds nothing; a drained plain callback becomes the current
message, so callbacks must carry no handle; `RunListener` records the number of the
current message, so there must be one while objects are left to run.
`IInv == TypeOK /\ PumpState /\ EveryCallOnce` adds these as `Orderly(p)`. The proof
is by cases on what the game does (`GameTyped`, `GamePumpState`,
`GameEveryCallOnce`) and what a pump does (`PumpTyped`, `PumpKeepsIInv`), over lemmas
of `DispatchQueueProofs` that say which handles a queue has after appending, taking
and moving.

**The promise kept** (`Implementation`, for both dispatchers). `AsyncCalls` knows
promised, ready and completed handles. Ready are those that are queued or, with standard
dispatch, in a pump's hands; by `EveryCallOnce` these are the allocated ones that are neither
promised nor completed (`ReadyIsTheRest`), so a step that moves a message between the queue
and a pump stutters, and only giving out a handle (`Promise`, `Issue`), queueing the result
of a promised one (`Produce`) and keeping a delivered result (`Complete`) are steps.

**No destroyed object runs** (`ObjectsExist`, under the condition that the game
destroys objects only while no pump runs; without it the run `dispatch_destroyed`
has the counterexample). A `CCallResult` that has run leaves its registration behind,
which its destructor does not remove. `OInv` says what saves the code: a registration
whose object is gone is for a handle that has been delivered, which no queue holds any more,
so no pump finds it.

**Order and waiters** (`StandardDispatchProofs`). `OrderOfDelivery` is for one pump, on whatever thread, beside any number of
threads that call: two pumps have copies of their own, and a listener may be run by one with an older message than
the other has run it with. The queues rise by their stamps, the copies are taken under one lock, and `RunCallbacks`
merges them; `SInv` says that what was seen comes before the current message, that before what was drained, and
that before what is queued (`InOrder`). `NobodyStranded` is for a game that uses one thread: `CallResult::Set` comes after the
call that gave out the handle, and a pump on another thread can deliver the result in between. `WInv` adds what
is true meanwhile: a waiter that awaits is registered for it, and a handle the game has not looked at yet is of a call
no pump has taken.

**Manual dispatch** (`ManualDispatchProofs`). `IInv` is the conjunction of `TypeOK`,
`ResultsNamed`, `EveryCallOnce`, `BufferStable` and `CompletionFetchable`; `BufferStable` includes that at most one pipe is reading, and `ResultsNamed`, that queued
results carry a handle, is what makes taking one out of the queue complete a call. Removing from the middle of a queue needs that the first due
position is a position, hence `MinOfNats`, derived from the well-foundedness of
the subsets of a finite set. `PollsConsistent` is an action property: the answer to a poll of a queued call goes
only from pending to completed, never to failed, and not back. `CallbacksKeepOrder` cannot use that the queue of
callbacks is in order, for it is not: the shadow of a completed result is put at its front. `QueuesOrdered` has all
but the shadows in order, which is what a plain callback needs, and `RemoveAtKeepsOrder` keeps it when a due message is taken
from the middle.

**Connections** (`ConnectionsProofs`, any nodes listening, calling and restarting).
A datagram names its receiver's connection by handle only, so `CallersWereAccepted` and
`MessagesStayApart` depend on a handle meaning on arrival what it meant on sending. The
inductive invariant says it of endpoints (address and handle). `Issued(e)`: the process at
the address has given out the handle, or is gone for good. `CallerEnd(e, addr)` and
`ServerEnd(e, client)`: the connection at `e`, as long as there is one, is one that
called `addr`, or was made for `client`. `Kept` is what every step leaves: addresses
grow, handles grow within one life, a connection does not change whose it is. From it
the `...Kept` lemmas carry the three facts over any step; `StepKeeps` reduces
an action to what is new in it, and one lemma per action (`ConnectKeeps`, `AcceptKeeps`,
`HandleAccKeeps`, ...) shows that. The invariant's pieces for accepted pairs (`Agreed`),
datagrams under way or due (`Truthful`) and connections (`ConnOK`) all speak of these
endpoints. The proof uses that a restarted process gets a fresh address (`Self`): the
source binds an ephemeral port unless `listen_port` is set (`src/net.cpp:489-491`), and
nothing is claimed for a fixed port. `CallersKnowTheirStatus` has an invariant of its own, `SInv`:
every endpoint named anywhere is `Issued` (`NamesIssued`); while the report of a call is still due, nothing
but that call names its endpoint (`Elsewhere`), so no answer can arrive before the game knows of the call;
and a report the pump still owes is of the connection's present state.

**Lobbies** (`LobbiesProofs`). Every step is first reduced to what it does to the acting node's entry and to the datagrams:
a call puts an entry (`CallEffect`), the pump sends, hears, forgets or drops (`PumpEffect`), and no step touches
another node's. `OwnerKnown` adds that every presence on the way names the creator (`OwnersOnTheWay`): a sender has joined,
so it knows the lobby. It needs that nobody joins unheard; otherwise the run `lobby_owner` has the
counterexample. `SelfIsMember` adds that no presence is on its way to its own sender (`NoEcho`), so hearing
adds others only. `ChangesTold` needs what holds between the merge and the callback, when the game is behind:
`CurrentAt` says that then the callback is among those the pump has decided on.

**Chat** (`LobbyChatProofs`). `ToldOnce` needs to know that as long as a line is among the last `Window` told, its number is still
remembered. `Windows` says it: all copies of a line have one number (`OneNumber`), `seenOrder` is as long as the lines
told, up to `Window` (`WindowLength`), and the line told `k`-th from the end has its number `k`-th from the end there
(`LastSeen`). It does not matter who restarts. `NothingSwallowed` is the converse, for
`Restarting \subseteq Relaunching`: a number in use belongs to an epoch its sender has had and a count it has
reached (`NumbersUsed`), so a fresh one is unused, no two lines share one (`OneLine`), and a number that is remembered
was told (`SeenTold`).

**Threads** (`ServiceProofs`). `ThreadsJoined` adds that the window backend is not running while the game's thread waits for the old one or installs
(`NotYetRunning`). `OnePumpNamesAsker`: as the asker is stored before the visibility and loaded after it, whoever is named when the pump
sees a change had an ask under way since it last looked. The invariant says it at each step of the pump (`NamedWhenSeen`): before
the load, of those who asked since; after it, of those and the ones before. It needs that an ask under way is counted (`UnderWay`), that there is one at a
time (`OneAsks`) and that between the two stores the first has been made (`NameStored`).
`OutlivesUsers`: if no call overlaps a stop, whoever has tested `m_impl` still finds it (`TestedHolds`) and whoever is inside
is inside the Impl of now (`InsideHolds`); the pump owns its own.

**Files** (`ServiceProofs`). `LastWriteStays` rests on `LiveStreams` (an entry in the map is a stream the game
has open, so a close writes once), `WritesMeant` (a write under way has the data its caller meant) and `OnlyWriter` (if
no other call has touched its file, the file is empty and the write alone). `EachFileOnce`: the list has no
file twice (`ListOnce`), the names given are its beginning (`NamedSoFar`), and what nobody touched is still in it
(`StillListed`); a listing as long as the directory and without repetition is all of it, which is `FS_Injection` of the library.

**Filtering** (`RecordProofs`). `SelectIn(q, S)` takes its k-th element from the place with k places of `S` up to it. That this
is right for every sequence is usually an induction; here it is a count: the number of places up to a place is an
injection of the places into as many numbers, so (`FS_Injection`) it takes each of them, and its inverse gives the place of every k
(`SelectInPlaces`). Hence what is kept is in order, without repetitions there were not, and complete (`SelectInKeeps`).

**Leaderboards** (`RecordProofs`). `BoardsTyped` has no condition. `ScoresStay` and `RanksAreTrue` need that the directory is read
and that no two boards share a file (`FilesApart`); the run `boards_windows` has the counterexample to the first when the
directory is not read, and a second board of the same file would overwrite the first. What the invariant `BoardInv` adds is where a
board is at any moment (`Current`: in memory once the files are read, in the files before), that a file holds its own board (`OwnFile`), that
the save under way is of the board as it is in memory (`SavesItsBoard`), and that memory and files agree but for it
(`MemoryIsFiles`), so that a process that ends, or begins, changes no board. For an upload, `PlaceKeepsEntries`: a user has
one entry, with the score that counts (`OneEntryEach`). Ranks are the places of a bijection, again by counting:
a rank is one more than the number of entries ahead (`RankIsPlace`), no two are equal (`RanksDiffer`), so every place has its entry
(`RanksComplete`), which is what the pages of a download need.

**Stats** (`RecordProofs`, no condition on what the game does; `StatsKept` is about the names that are `Separate`). `AsLeft` says where the values the
game left are: in the file, but while it is being written, when they are in memory; and what a process that has not read them
yet means by them is what the file gives back. That the file gives back the value of a separate name, whatever lines the others have made, is
`ReadsBack`: only its own line begins with it (`LineOf`). `AgreeAfter` carries the agreement under such names over a change of any name.
`ListedWell`, that the enumeration has every achievement once, is about all names, and needs `SelectInKeeps` for the first reading and `TrackLists`
for each one that is mentioned later.

**P2P sessions** (`RecordProofs`, no condition). A closed session's packets may stay on other channels, and its request may not have been
posted yet, so packets are compared with all sessions announced ever (`Announced`). Two facts keep a request from being made twice:
who is known has been announced in the present session (`KnownAnnounced`), and nothing announced is of a later session
than the present one, nor of the present one unless its sender is known (`NoneAhead`). Order in a channel survives closing by `SelectInPlaces`.

**All services** (`ServiceProofs`). The theorems above are about the specifications of the parts, the run `services` checks `Services`.
`EachByItself` connects them: a step of `Services` is a step or a stutter of each of the eight. That is so by the shape of `Services`, and proves nothing
about the code by itself. `ServiceTypes` and `ServicesSafe` then say of the run's specification what the run checks of it; the conditions
of `ServicesSafe` are those of the parts, and the constants of the run meet all of them.

**Only model-checked.** Every safety invariant and action property of the passing runs is proved, under the conditions named above. Liveness under
fairness (`QueuedCallCompletes`, `QueuesDrain`, `DataConverges`, `SilentMemberExpires`, `VisibilityReported`, `LanComesBack`,
`PeersReachedAgain`) is beyond the prover, with `ENABLED`. That `SelectIn` and `SelectSeq` agree would be an induction over sequences and is checked
for those of up to four elements.

## 6. Not modelled

Most of the repository's lines are not behaviour of its own: `src/generated/versions.h` (22,193 lines of old
interface declarations), `src/generated/flat_api.cpp`, `interfaces.h` and `registry.cpp`, and the headers in
`tools/inter_versions` are generated or copied declarations and forwarding, in which every
method calls one of the operations above or returns a constant. What they forward is modelled where it lands.

Of the code with state of its own:

- The lobby list and its filters, networking configuration values, auth tickets: functions of one map under one lock, with no order of events to get wrong.
- The HTTP client: blocking I/O in the calling thread; only its call result meets other code, as any other does.
- Music, screenshots, avatars, server stats, configuration, identity and log: values under a lock, or read once.
- The swapchain hook: `StopHook` gives a Present 50 ms to leave, which is a race against the clock; `Overlay` has only that the hook is on or off.
- Payloads and their layout, drawing, toasts, socket options.

Within the modelled parts: poll groups and virtual ports, a doubled request for a connection, `maxMembers` and the type of
a lobby, `GetLobbyChatEntry`, the details of a leaderboard entry, cloud file metadata, the repeated logon
announcement, callbacks' order among the objects of one message (left open, the code uses
the order of registration), and a `RunCallbacks` called from inside a handler. A fixed
`listen_port` is in `NetLifecycle` only: `Connections` gives every process a fresh port, the default.

**Assumed of the environment.** What follows the code does not check, or does not get right, and no action of the model does:

- The disk takes every write. `fopen` and `fwrite` never fail in `CloudFiles.Write` (`src/storage.cpp:124-127`, which returns false and may leave a truncated file),
  in `UserStats.FinishStore` (338, after which `Store` returns true all the same, 400) and in `Leaderboards.Save` (494); nor does `MakeDirs`.
- A game calls `AcceptConnection` for a connection of its listen socket that it was told is connecting, as `test/sockets_test.cpp` does; `src/net.cpp:1640-1661` accepts any.
- `SetLobbyGameServer` is called by the owner, as the tests do; `src/net.cpp:1208-1235` does not ask who calls.
- `FreeLastCallback` is called once after each `GetNextCallback` that returned true, on the same pipe, as in `test/manual_dispatch_test.cpp:33`;
  the code (`src/dispatch.cpp:301-305`) ignores the pipe and would free the other one's message.
- A thread parks its waiter in one step: the SDK's `CCallResult::Set` unregisters from the last call and registers for the next one in two critical sections
  (`src/dispatch.cpp:111-128`), and `StandardDispatch.Park` has no other thread in between.
- Presence of a node's own reaches it not at all: multicast loops back, but the pump drops it before anything else (`src/net.cpp:648`).
- Names of stats have at most 255 characters and no line break.

## 7. What is left

In order of worth: a lobby of three nodes; the fixed port and doubled requests in `Connections`; poll groups; `Services` with chat, peers and
sessions on top of `NetLifecycle`, so that a restart of the backend is one step of all of them.
