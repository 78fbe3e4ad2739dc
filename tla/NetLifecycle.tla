---------------------------- MODULE NetLifecycle ----------------------------
(***************************************************************************)
(* The life of the LAN backend inside one process (src/net.cpp): every     *)
(* call starts it if it is not there, Stop takes it away, and the pump     *)
(* thread, which nobody joins, shares the ownership of the Impl it runs    *)
(* on.  An Impl keeps its sockets until its last owner lets go, so with a  *)
(* fixed listen_port a new one cannot start before the old one is gone.    *)
(***************************************************************************)
EXTENDS Naturals, FiniteSets

CONSTANTS
  Callers,        \* the threads of the game
  NoImpl,
  FixedPort,      \* is listen_port set?
  CallsDuringStop,\* may one thread call while another is in SteamAPI_Shutdown?
  MaxImpls,       \* bound: backends started
  MaxStops        \* bound: calls of SteamAPI_Shutdown

ASSUME NetLifecycleAssumption ==
  /\ IsFiniteSet(Callers) /\ FixedPort \in BOOLEAN /\ CallsDuringStop \in BOOLEAN
  /\ MaxImpls \in Nat /\ MaxStops \in Nat /\ NoImpl \notin 1..MaxImpls

VARIABLES
  mImpl,       \* m_impl
  implRunning, \* per Impl, running
  pumping,     \* the Impls whose pump has not returned
  implCount,   \* number of Impls made
  callerAt,    \* per thread: out of the backend, or the step it is at
  callerImpl,  \* per thread, the Impl a call has in hand or Stop has swapped out
  stops,
  freedUsed    \* history: was an Impl used that is gone?

lifeVars == <<mImpl, implRunning, pumping, implCount, callerAt, callerImpl, stops,
              freedUsed>>

Impl == 1..MaxImpls

LifeInit ==
  /\ mImpl = NoImpl /\ implRunning = {} /\ pumping = {} /\ implCount = 0
  /\ callerAt = [t \in Callers |-> "out"] /\ callerImpl = [t \in Callers |-> NoImpl]
  /\ stops = 0 /\ freedUsed = FALSE

---------------------------------------------------------------------------
(* An Impl lives while m_impl, its pump, or a Stop that has swapped it out *)
(* owns it; a call in progress does not.                                   *)
Stopping(t) == callerAt[t] = "waiting"

(* Mutant of PumpOwns: the pump has a plain pointer. *)
PumpOwnsNothing(i) == FALSE

PumpOwns(i) == i \in pumping

Alive(i) ==
  \/ mImpl = i \/ PumpOwns(i)
  \/ \E t \in Callers : Stopping(t) /\ callerImpl[t] = i

PortFree == ~FixedPort \/ \A i \in 1..implCount : ~Alive(i)

MayCall(t) == callerAt[t] = "out" /\ (CallsDuringStop \/ \A u \in Callers : ~Stopping(u))

(* EnsureStarted, under the lifecycle lock: a start that fails leaves no   *)
(* Impl, and a later call tries again.                                     *)
EnsureStarted(t) ==
  /\ MayCall(t)
  /\ callerAt' = [callerAt EXCEPT ![t] = "started"]
  /\ \/ (mImpl /= NoImpl \/ ~PortFree) /\ UNCHANGED <<mImpl, implRunning, pumping, implCount>>
     \/ /\ mImpl = NoImpl /\ PortFree /\ implCount < MaxImpls
        /\ implCount' = implCount + 1 /\ mImpl' = implCount + 1
        /\ implRunning' = implRunning \cup {implCount + 1}
        /\ pumping' = pumping \cup {implCount + 1}
  /\ UNCHANGED <<callerImpl, stops, freedUsed>>

(* A call tests m_impl and then reads it again, without the lock.          *)
Test(t) ==
  /\ callerAt[t] = "started"
  /\ callerAt' = [callerAt EXCEPT ![t] = IF mImpl = NoImpl THEN "out" ELSE "tested"]
  /\ UNCHANGED <<mImpl, implRunning, pumping, implCount, callerImpl, stops, freedUsed>>

Enter(t) ==
  /\ callerAt[t] = "tested"
  /\ callerAt' = [callerAt EXCEPT ![t] = "inside"]
  /\ callerImpl' = [callerImpl EXCEPT ![t] = mImpl]
  /\ freedUsed' = (freedUsed \/ mImpl = NoImpl)
  /\ UNCHANGED <<mImpl, implRunning, pumping, implCount, stops>>

Leave(t) ==
  /\ callerAt[t] = "inside"
  /\ callerAt' = [callerAt EXCEPT ![t] = "out"]
  /\ freedUsed' = (freedUsed \/ ~\E i \in Impl : i = callerImpl[t] /\ Alive(i))
  /\ callerImpl' = [callerImpl EXCEPT ![t] = NoImpl]
  /\ UNCHANGED <<mImpl, implRunning, pumping, implCount, stops>>

(* Mutant of AskedToEnd: running is not cleared. *)
AskedNothing(i) == implRunning

(* Stop swaps m_impl out, asks the pump to end and waits, but not for      *)
(* ever: then it lets go.                                                  *)
AskedToEnd(i) == implRunning \ {i}

StopBackend(t) ==
  /\ MayCall(t) /\ stops < MaxStops /\ mImpl /= NoImpl
  /\ CallsDuringStop \/ \A u \in Callers : callerAt[u] = "out"
  /\ stops' = stops + 1
  /\ callerImpl' = [callerImpl EXCEPT ![t] = mImpl]
  /\ mImpl' = NoImpl
  /\ implRunning' = AskedToEnd(mImpl)
  /\ callerAt' = [callerAt EXCEPT ![t] = "waiting"]
  /\ UNCHANGED <<pumping, implCount, freedUsed>>

StopReturns(t) ==
  /\ callerAt[t] = "waiting"
  /\ callerAt' = [callerAt EXCEPT ![t] = "out"]
  /\ callerImpl' = [callerImpl EXCEPT ![t] = NoImpl]
  /\ UNCHANGED <<mImpl, implRunning, pumping, implCount, stops, freedUsed>>

(* The pump uses its Impl's sockets and tables, then tests running.        *)
PumpImpl(i) ==
  /\ i \in pumping
  /\ freedUsed' = (freedUsed \/ ~Alive(i))
  /\ pumping' = IF i \in implRunning THEN pumping ELSE pumping \ {i}
  /\ UNCHANGED <<mImpl, implRunning, implCount, callerAt, callerImpl, stops>>

CallerStep(t) == EnsureStarted(t) \/ Test(t) \/ Enter(t) \/ Leave(t) \/ StopReturns(t)

LifeNext ==
  \/ \E t \in Callers : CallerStep(t) \/ StopBackend(t)
  \/ \E i \in Impl : PumpImpl(i)

LifeSpec == LifeInit /\ [][LifeNext]_lifeVars

---------------------------------------------------------------------------
LifeTypeOK ==
  /\ mImpl \in Impl \cup {NoImpl} /\ implCount \in 0..MaxImpls
  /\ implRunning \subseteq 1..implCount /\ pumping \subseteq 1..implCount
  /\ callerAt \in [Callers -> {"out", "started", "tested", "inside", "waiting"}]
  /\ callerImpl \in [Callers -> Impl \cup {NoImpl}]
  /\ stops \in 0..MaxStops /\ freedUsed \in BOOLEAN

(* Neither a call nor a pump uses an Impl that is gone, although Stop does *)
(* not wait for the pump to end (EnsureStarted, Stop).                     *)
BackendOutlivesUsers == ~freedUsed

(* A game that goes on calling has a backend again after SteamAPI_Shutdown *)
(* and SteamAPI_Init, the fixed port held by the old one notwithstanding.  *)
BackendComesBack ==
  [](mImpl = NoImpl /\ implCount < MaxImpls => <>(mImpl /= NoImpl))
=============================================================================
