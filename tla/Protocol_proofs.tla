-------------------------- MODULE Protocol_proofs --------------------------
(***************************************************************************)
(* Theorems about Protocol, for any number of monitors, any rates and any  *)
(* bound on the readings.                                                  *)
(*                                                                         *)
(* The argument for who owns the worker: m_monitor is only reset after its *)
(* thread ended, by a thread that waits for it in m_monitor->stop() (net   *)
(* or m_owner at "join"), nobody else replaces it meanwhile, and a new one *)
(* is only created where it is null.  The argument for who uses m_monitor: *)
(* a step that begins such a use while another is under way sets met.      *)
(* Pace adds how the delay, the monitor and the ticks follow the active    *)
(* rate; Waits, that who is joined was told to stop and the mutex is that  *)
(* of the worker that is writing; Wholeness, that what tick() could take   *)
(* is a reading; Order, that the readings under way get older from the     *)
(* worker to the tree, which is what the implementation of LatestReading   *)
(* rests on.                                                               *)
(***************************************************************************)
EXTENDS Protocol, TLAPS

USE MonitorsAssumption, SnapshotAssumption, RateAssumption, BoundAssumption
USE DEF monitorVars

-----------------------------------------------------------------------------
(***************************************************************************)
(* Types                                                                   *)
(***************************************************************************)

\* A rate is clamped to the range of the settings.
LEMMA ClampInRange == \A r \in Int : Clamp(r) \in Rates
  BY DEF Clamp, Rates

\* 0 is a rate: refreshing may be off.
LEMMA ZeroIsRate == 0 \in Rates
  BY DEF Rates

\* The delay of the timer is never Off.
LEMMA IntervalPositive == \A r \in Rates : Interval(r) \in Nat \ {0}
  BY DEF Interval, Paused, Rates

\* A new monitor leaves the types as they are.
LEMMA CreateType ==
  ASSUME NEW m \in Monitors, TypeOK, Create(m)
  PROVE  /\ m_monitor' \in Monitors \cup {NoMonitor}
         /\ stopping' \in [Monitors -> BOOLEAN]
         /\ reading' \in [Monitors -> Nat]
  BY DEF TypeOK, Create

\* ... and so does its thread.
LEMMA StartThreadType ==
  ASSUME NEW m, TypeOK, StartThread(m)
  PROVE  worker' \in [Monitors -> WorkerStates]
  BY DEF TypeOK, StartThread, WorkerStates

\* What StartMonitor leaves in the members it assigns.
LEMMA StartMonitorType ==
  ASSUME NEW r \in Rates, TypeOK, StartMonitor(r)
  PROVE  /\ m_delay' \in Nat \ {0}
         /\ m_monitor' \in Monitors \cup {NoMonitor}
         /\ worker' \in [Monitors -> WorkerStates]
         /\ stopping' \in [Monitors -> BOOLEAN]
         /\ reading' \in [Monitors -> Nat]
<1>1. m_delay' \in Nat \ {0}
  BY IntervalPositive DEF StartMonitor, SetDelay
<1>2. CASE Paused(r)
  BY <1>1, <1>2 DEF StartMonitor, TypeOK, workerVars
<1>3. CASE ~Paused(r)
  <2>1. PICK m \in Monitors : Create(m) /\ StartThread(m)
    BY <1>3 DEF StartMonitor
  <2>2. QED
    BY <1>1, <2>1, CreateType, StartThreadType
<1>4. QED
  BY <1>2, <1>3

\* The initial state has the types.
LEMMA InitType == Init => TypeOK
<1> SUFFICES ASSUME Init PROVE TypeOK
  OBVIOUS
<1>1. worker \in [Monitors -> WorkerStates]
  BY DEF Init, WorkerStates
<1>2. stopping \in [Monitors -> BOOLEAN] /\ reading \in [Monitors -> Nat]
  BY DEF Init
<1>3. QED
  BY <1>1, <1>2, ZeroIsRate DEF Init, TypeOK, OwnerStates, NetStates, Snapshots, Off

\* Every step preserves the types.
LEMMA NextType == TypeOK /\ [Next]_vars => TypeOK'
<1> SUFFICES ASSUME TypeOK, [Next]_vars PROVE TypeOK'
  OBVIOUS
<1> USE DEF TypeOK, OwnerStates, NetStates, Snapshots, Off
<1>1. ASSUME NEW r \in RateInputs, Connect(r) PROVE TypeOK'
  <2>1. Clamp(r) \in Rates
    BY ClampInRange
  <2>2. QED
    BY <1>1, <2>1, StartMonitorType DEF Connect, slotVars, historyVars
<1>2. ASSUME NEW r \in RateInputs, WriteRate(r) PROVE TypeOK'
  <2>1. Clamp(r) \in Rates
    BY ClampInRange
  <2>2. QED
    BY <1>2, <2>1 DEF WriteRate, ownerVars, timerVars, workerVars, slotVars, historyVars
<1>3. CASE Disconnect
  BY <1>3 DEF Disconnect, timerVars, workerVars, slotVars, historyVars
<1>4. CASE TestMonitor
  <2>1. met' \in BOOLEAN
    BY <1>4 DEF TestMonitor
  <2>2. QED
    BY <1>4, <2>1 DEF TestMonitor, timerVars, workerVars, slotVars, historyVars
<1>5. CASE StopMonitor
  <2>1. m_owner' \in OwnerStates /\ stopping' \in [Monitors -> BOOLEAN]
    BY <1>5 DEF StopMonitor, SignalStop
  <2>2. QED
    BY <1>5, <2>1 DEF StopMonitor, timerVars, slotVars, historyVars
<1>6. CASE JoinMonitor
  BY <1>6 DEF JoinMonitor, timerVars, workerVars, slotVars, historyVars
<1>7. CASE StopTimer
  BY <1>7 DEF StopTimer, DisarmTimer, workerVars, slotVars, historyVars
<1>8. CASE ClearTree
  <2>1. m_owner' \in OwnerStates /\ tree' \in BOOLEAN
    BY <1>8 DEF ClearTree, ClearNodes
  <2>2. QED
    BY <1>8, <2>1
    DEF ClearTree, ClearNodes, timerVars, workerVars, slotVars, historyVars
<1>9. CASE Release
  BY <1>9, ZeroIsRate DEF Release, DisarmTimer, Forget, workerVars
<1>10. CASE Crash
  BY <1>10, ZeroIsRate DEF Crash, Forget, WorkerStates
<1>11. CASE TickNewRate
  <2>1. met' \in BOOLEAN
    BY <1>11 DEF TickNewRate
  <2>2. QED
    BY <1>11, <2>1 DEF TickNewRate, ownerVars, workerVars, slotVars, historyVars
<1>12. CASE TickStopMonitor
  <2>1. net' \in NetStates /\ stopping' \in [Monitors -> BOOLEAN]
    BY <1>12 DEF TickStopMonitor, SignalStop
  <2>2. QED
    BY <1>12, <2>1 DEF TickStopMonitor, ownerVars, timerVars, slotVars, historyVars
<1>13. CASE TickJoined
  BY <1>13 DEF TickJoined, ownerVars, timerVars, workerVars, slotVars, historyVars
<1>14. CASE TickPause
  BY <1>14, IntervalPositive
  DEF TickPause, SetDelay, Refresh, Rearm, ownerVars, workerVars, slotVars,
      historyVars
<1>15. CASE TickCreate
  <2>1. PICK m \in Monitors : Create(m)
    BY <1>15 DEF TickCreate
  <2>2. QED
    BY <1>15, <2>1, CreateType
    DEF TickCreate, ownerVars, timerVars, slotVars, historyVars
<1>16. CASE TickStart
  <2>1. worker' \in [Monitors -> WorkerStates]
    BY <1>16, StartThreadType DEF TickStart
  <2>2. stopping' \in [Monitors -> BOOLEAN]
    BY <1>16 DEF TickStart
  <2>3. m_delay' \in Nat
    BY <1>16, IntervalPositive DEF TickStart, SetDelay
  <2>4. QED
    BY <1>16, <2>1, <2>2, <2>3
    DEF TickStart, Refresh, Rearm, ownerVars, slotVars, historyVars
<1>17. CASE TickSameRate
  BY <1>17 DEF TickSameRate, Refresh, Rearm, ownerVars, workerVars, slotVars, historyVars
<1>18. CASE PushTime
  BY <1>18 DEF PushTime, ownerVars, timerVars, workerVars, slotVars, historyVars
<1>19. CASE TakeSnapshot
  <2>1. m_dirty' \in BOOLEAN /\ m_snapshot' \in Snapshots /\ snap' \in Snapshots
    BY <1>19 DEF TakeSnapshot, ClearDirty
  <2>2. QED
    BY <1>19, <2>1 DEF TakeSnapshot, Rearm, ownerVars, workerVars, historyVars
<1>20. CASE PushDynamic
  BY <1>20 DEF PushDynamic, Rearm, ownerVars, workerVars, slotVars
<1>21. ASSUME NEW m \in Monitors, Fetch(m) PROVE TypeOK'
  BY <1>21 DEF Fetch, WorkerStates, ownerVars, timerVars, slotVars
<1>22. ASSUME NEW m \in Monitors, Discard(m) PROVE TypeOK'
  BY <1>22 DEF Discard, WorkerStates, ownerVars, timerVars, slotVars, historyVars
<1>23. ASSUME NEW m \in Monitors, LockSnapshot(m) PROVE TypeOK'
  BY <1>23 DEF LockSnapshot, WorkerStates, ownerVars, timerVars, historyVars
<1>24. ASSUME NEW m \in Monitors, StoreSnapshot(m) PROVE TypeOK'
  BY <1>24 DEF StoreSnapshot, WorkerStates, ownerVars, timerVars, historyVars
<1>25. ASSUME NEW m \in Monitors, Wake(m) PROVE TypeOK'
  BY <1>25 DEF Wake, WorkerStates, ownerVars, timerVars, slotVars, historyVars
<1>26. CASE UNCHANGED vars
  BY <1>26 DEF vars, ownerVars, timerVars, workerVars, slotVars, historyVars
<1>27. QED
  BY <1>1, <1>2, <1>3, <1>4, <1>5, <1>6, <1>7, <1>8, <1>9, <1>10, <1>11,
     <1>12, <1>13, <1>14, <1>15, <1>16, <1>17, <1>18, <1>19, <1>20, <1>21,
     <1>22, <1>23, <1>24, <1>25, <1>26
  DEF Next, OwnerStops, Tick, Poll, Deliver

\* Every member keeps its type in every behavior (Protocol.hpp:45-67).
THEOREM TypeCorrect == Spec => []TypeOK
<1>1. QED
  BY InitType, NextType, PTL DEF Spec
-----------------------------------------------------------------------------
(***************************************************************************)
(* Who owns the worker                                                     *)
(***************************************************************************)

\* A thread started while no worker is alive is the only one.
LEMMA StartThreadOwned ==
  ASSUME NEW m \in Monitors, TypeOK, \A n \in Monitors : ~Alive(n),
         StartThread(m)
  PROVE  \A n \in Monitors : worker'[n] = IF n = m THEN "fetch" ELSE "off"
  BY DEF StartThread, TypeOK, Alive

\* A monitor started while no worker is alive has the only one.
LEMMA StartMonitorOwned ==
  ASSUME NEW r \in Rates, TypeOK, \A m \in Monitors : ~Alive(m), StartMonitor(r),
         m_monitor = NoMonitor
  PROVE  /\ WorkerIsOwned'
         /\ \A m \in Monitors : worker'[m] \in {"off", "fetch"}
         /\ r = 0 => m_monitor' = NoMonitor
         /\ m_delay' = Interval(r)
<1>1. CASE Paused(r)
  BY <1>1 DEF StartMonitor, SetDelay, workerVars, WorkerIsOwned, Alive
<1>2. CASE ~Paused(r)
  <2>1. PICK m \in Monitors : Create(m) /\ StartThread(m)
    BY <1>2 DEF StartMonitor
  <2>2. \A n \in Monitors : worker'[n] = IF n = m THEN "fetch" ELSE "off"
    BY <2>1, StartThreadOwned
  <2>3. QED
    BY <1>2, <2>1, <2>2
    DEF StartMonitor, Create, SetDelay, Paused, WorkerIsOwned, Alive
<1>3. QED
  BY <1>1, <1>2

\* Where m_monitor is null, or its thread ended, no worker is alive.
LEMMA NoneAlive ==
  ASSUME TypeOK, WorkerIsOwned, m_monitor = NoMonitor \/ ~Alive(m_monitor)
  PROVE  \A m \in Monitors : ~Alive(m)
  BY DEF WorkerIsOwned

\* Before the first connection there is no worker.
LEMMA InitOwnership == Init => Ownership
  BY DEF Init, Ownership, Joining, Stopping, Applying, WorkerIsOwned, Alive

\* Every step preserves the ownership of the worker.
LEMMA NextOwnership == TypeOK /\ Ownership /\ [Next]_vars => Ownership'
<1> SUFFICES ASSUME TypeOK, Ownership, [Next]_vars PROVE Ownership'
  OBVIOUS
<1> USE DEF Ownership, Joining, Stopping, Applying
<1>1. ASSUME NEW r \in RateInputs, Connect(r) PROVE Ownership'
  <2>1. Clamp(r) \in Rates
    BY ClampInRange
  <2>2. WorkerIsOwned'
    BY <1>1, <2>1, NoneAlive, StartMonitorOwned DEF Connect
  <2>3. QED
    BY <1>1, <2>2 DEF Connect
<1>2. ASSUME NEW r \in RateInputs, WriteRate(r) PROVE Ownership'
  BY <1>2 DEF WriteRate, ownerVars, timerVars, workerVars, WorkerIsOwned, Alive
<1>3. CASE Disconnect
  BY <1>3 DEF Disconnect, timerVars, workerVars, WorkerIsOwned, Alive
<1>4. CASE TestMonitor
  BY <1>4 DEF TestMonitor, timerVars, workerVars, WorkerIsOwned, Alive
<1>5. CASE StopMonitor
  BY <1>5 DEF StopMonitor, timerVars, WorkerIsOwned, Alive
<1>6. CASE JoinMonitor
  <2>1. \A m \in Monitors : ~Alive(m)
    BY <1>6, NoneAlive DEF JoinMonitor, ThreadEnded
  <2>2. QED
    BY <1>6, <2>1
    DEF JoinMonitor, ThreadEnded, Overlap, timerVars, workerVars, WorkerIsOwned,
        Alive
<1>7. CASE StopTimer
  BY <1>7 DEF StopTimer, DisarmTimer, workerVars, WorkerIsOwned, Alive
<1>8. CASE ClearTree
  BY <1>8 DEF ClearTree, ClearNodes, timerVars, workerVars, WorkerIsOwned, Alive
<1>9. CASE Release
  <2>1. \A m \in Monitors : ~Alive(m)
    BY <1>9, NoneAlive DEF Release
  <2>2. QED
    BY <1>9, <2>1 DEF Release, DisarmTimer, Forget, workerVars, WorkerIsOwned, Alive
<1>10. CASE Crash
  BY <1>10 DEF Crash, Forget, WorkerIsOwned, Alive
<1>11. CASE TickNewRate
  <2>1. /\ m_monitor' = m_monitor /\ worker' = worker
        /\ m_owner' = m_owner /\ tree' = tree
    BY <1>11 DEF TickNewRate, ownerVars, workerVars
  <2>2. net' \in {"call", "create"} /\ (net' = "call" <=> m_monitor # NoMonitor)
    BY <1>11 DEF TickNewRate, HasMonitor
  <2>3. QED
    BY <1>11, <2>1, <2>2 DEF TickNewRate, TimerFires, WorkerIsOwned, Alive
<1>12. CASE TickStopMonitor
  BY <1>12 DEF TickStopMonitor, ownerVars, timerVars, WorkerIsOwned, Alive
<1>13. CASE TickJoined
  <2>1. \A m \in Monitors : ~Alive(m)
    BY <1>13, NoneAlive DEF TickJoined, ThreadEnded
  <2>2. QED
    BY <1>13, <2>1
    DEF TickJoined, ThreadEnded, Overlap, ownerVars, timerVars, workerVars,
        WorkerIsOwned, Alive
<1>14. CASE TickPause
  BY <1>14
  DEF TickPause, Refresh, Rearm, ownerVars, workerVars, WorkerIsOwned, Alive
<1>15. CASE TickCreate
  <2>1. PICK m \in Monitors : Create(m)
    BY <1>15 DEF TickCreate
  <2>2. \A n \in Monitors : ~Alive(n)
    BY <1>15, NoneAlive DEF TickCreate
  <2>3. stopping'[m] = FALSE
    BY <2>1 DEF Create, TypeOK
  <2>4. QED
    BY <1>15, <2>1, <2>2, <2>3
    DEF TickCreate, Create, ownerVars, timerVars, WorkerIsOwned, Alive
<1>16. CASE TickStart
  <2>1. \A n \in Monitors : ~Alive(n)
    BY <1>16, NoneAlive DEF TickStart
  <2>2. \A n \in Monitors : worker'[n] = IF n = m_monitor THEN "fetch" ELSE "off"
    BY <1>16, <2>1, StartThreadOwned DEF TickStart, TypeOK
  <2>3. QED
    BY <1>16, <2>2
    DEF TickStart, Refresh, Rearm, ownerVars, WorkerIsOwned, Alive
<1>17. CASE TickSameRate
  BY <1>17
  DEF TickSameRate, TimerFires, Refresh, Rearm, ownerVars, workerVars,
      WorkerIsOwned, Alive
<1>18. CASE PushTime
  BY <1>18 DEF PushTime, ownerVars, timerVars, workerVars, WorkerIsOwned, Alive
<1>19. CASE TakeSnapshot
  BY <1>19 DEF TakeSnapshot, Rearm, ownerVars, workerVars, WorkerIsOwned, Alive
<1>20. CASE PushDynamic
  BY <1>20 DEF PushDynamic, Rearm, ownerVars, workerVars, WorkerIsOwned, Alive
<1>21. ASSUME NEW m \in Monitors, Fetch(m) PROVE Ownership'
  BY <1>21 DEF Fetch, ownerVars, timerVars, WorkerIsOwned, Alive, TypeOK
<1>22. ASSUME NEW m \in Monitors, Discard(m) PROVE Ownership'
  BY <1>22 DEF Discard, ownerVars, timerVars, WorkerIsOwned, Alive, TypeOK
<1>23. ASSUME NEW m \in Monitors, LockSnapshot(m) PROVE Ownership'
  BY <1>23 DEF LockSnapshot, ownerVars, timerVars, WorkerIsOwned, Alive, TypeOK
<1>24. ASSUME NEW m \in Monitors, StoreSnapshot(m) PROVE Ownership'
  BY <1>24 DEF StoreSnapshot, ownerVars, timerVars, WorkerIsOwned, Alive, TypeOK
<1>25. ASSUME NEW m \in Monitors, Wake(m) PROVE Ownership'
  BY <1>25 DEF Wake, ownerVars, timerVars, WorkerIsOwned, Alive, TypeOK
<1>26. CASE UNCHANGED vars
  BY <1>26 DEF vars, ownerVars, timerVars, workerVars, WorkerIsOwned, Alive
<1>27. QED
  BY <1>1, <1>2, <1>3, <1>4, <1>5, <1>6, <1>7, <1>8, <1>9, <1>10, <1>11,
     <1>12, <1>13, <1>14, <1>15, <1>16, <1>17, <1>18, <1>19, <1>20, <1>21,
     <1>22, <1>23, <1>24, <1>25, <1>26
  DEF Next, OwnerStops, Tick, Poll, Deliver

\* The ownership of the worker, in every behavior.
LEMMA OwnershipInvariant == Spec => [](TypeOK /\ Ownership)
<1>1. Init => TypeOK /\ Ownership
  BY InitType, InitOwnership
<1>2. TypeOK /\ Ownership /\ [Next]_vars => (TypeOK /\ Ownership)'
  BY NextType, NextOwnership
<1>3. QED
  BY <1>1, <1>2, PTL DEF Spec

\* At most one worker thread exists, that of m_monitor (Protocol.hpp:52).
THEOREM OneWorker == Spec => []WorkerIsOwned
<1>1. TypeOK /\ Ownership => WorkerIsOwned
  BY DEF Ownership
<1>2. QED
  BY <1>1, OwnershipInvariant, PTL

\* A destroyed protocol leaves no thread and no timer behind: its destructor
\* stops whatever a tick started during the first stop() (Protocol.cpp:28-42).
THEOREM ReleaseIsClean == Spec => []NothingAfterRelease
<1>1. TypeOK /\ Ownership => NothingAfterRelease
  BY DEF Ownership, NothingAfterRelease, WorkerIsOwned
<1>2. QED
  BY <1>1, OwnershipInvariant, PTL

\* No tick pushes to nodes that are gone (Protocol.hpp:37).
THEOREM PushesHaveATree == Spec => []TreeOutlivesPushes
<1>1. TypeOK /\ Ownership => TreeOutlivesPushes
  BY DEF Ownership, TreeOutlivesPushes
<1>2. QED
  BY <1>1, OwnershipInvariant, PTL

\* Unless stop() and apply_rate meet, neither of them uses a null m_monitor or
\* one that the other is stopping: what each tested is there until its last
\* use of it (Protocol.cpp:36-40, 72-96).
THEOREM OneUserOfTheMonitor == Spec => []MonitorUsedByOne
<1>1. TypeOK /\ Ownership => MonitorUsedByOne
  BY DEF Ownership, MonitorUsedByOne, Undefined, NullUse, Overlap, Stopping, Applying
<1>2. QED
  BY <1>1, OwnershipInvariant, PTL

-----------------------------------------------------------------------------
(***************************************************************************)
(* Who waits for whom                                                      *)
(***************************************************************************)

\* A monitor started while no worker is alive does not take the mutex.
LEMMA StartMonitorWrites ==
  ASSUME NEW r \in Rates, TypeOK, \A m \in Monitors : ~Alive(m), StartMonitor(r),
         m_monitor = NoMonitor
  PROVE  \A m \in Monitors : worker'[m] # "write" /\ worker[m] # "write"
  BY StartMonitorOwned DEF Alive

\* Before the first connection nobody waits.
LEMMA InitWaits == Init => Waits
  BY DEF Init, Waits, JoinsStopped

\* Every step keeps the waits in order.
LEMMA NextWaits == TypeOK /\ Ownership /\ Waits /\ [Next]_vars => Waits'
<1> SUFFICES ASSUME TypeOK, Ownership, Waits, [Next]_vars PROVE Waits'
  OBVIOUS
<1> USE DEF Waits, JoinsStopped, TypeOK
<1>1. ASSUME NEW r \in RateInputs, Connect(r) PROVE Waits'
  <2>1. Clamp(r) \in Rates
    BY ClampInRange
  <2>2. \A m \in Monitors : worker'[m] # "write" /\ worker[m] # "write"
    BY <1>1, <2>1, NoneAlive, StartMonitorWrites DEF Connect, Ownership
  <2>3. QED
    BY <1>1, <2>2 DEF Connect, Ownership, slotVars
<1>2. ASSUME NEW r \in RateInputs, WriteRate(r) PROVE Waits'
  BY <1>2 DEF WriteRate, ownerVars, workerVars, slotVars
<1>3. CASE Disconnect
  BY <1>3 DEF Disconnect, workerVars, slotVars
<1>4. CASE TestMonitor
  BY <1>4 DEF TestMonitor, workerVars, slotVars
<1>5. CASE StopMonitor
  BY <1>5 DEF StopMonitor, SignalStop, slotVars
<1>6. CASE JoinMonitor
  BY <1>6 DEF JoinMonitor, ThreadEnded, Overlap, workerVars, slotVars
<1>7. CASE StopTimer
  BY <1>7 DEF StopTimer, workerVars, slotVars
<1>8. CASE ClearTree
  BY <1>8 DEF ClearTree, ClearNodes, workerVars, slotVars
<1>9. CASE Release
  BY <1>9 DEF Release, Forget, workerVars
<1>10. CASE Crash
  BY <1>10 DEF Crash, Forget
<1>11. CASE TickNewRate
  BY <1>11 DEF TickNewRate, ownerVars, workerVars, slotVars
<1>12. CASE TickStopMonitor
  BY <1>12 DEF TickStopMonitor, SignalStop, ownerVars, slotVars
<1>13. CASE TickJoined
  BY <1>13 DEF TickJoined, ThreadEnded, Overlap, ownerVars, workerVars, slotVars
<1>14. CASE TickPause
  BY <1>14 DEF TickPause, Refresh, Rearm, ownerVars, workerVars, slotVars
<1>15. CASE TickCreate
  <2>1. m_owner # "join"
    BY <1>15 DEF TickCreate, Ownership, Joining
  <2>2. QED
    BY <1>15, <2>1 DEF TickCreate, ownerVars, slotVars
<1>16. CASE TickStart
  <2>1. \A m \in Monitors : worker[m] # "write" /\ worker'[m] # "write"
    <3>1. \A m \in Monitors : ~Alive(m)
      BY <1>16, NoneAlive DEF TickStart, Ownership
    <3>2. \A m \in Monitors : worker'[m] = IF m = m_monitor THEN "fetch" ELSE "off"
      BY <1>16, <3>1, StartThreadOwned DEF TickStart
    <3>3. QED
      BY <3>1, <3>2 DEF Alive
  <2>2. m_owner = "join" => met
    BY <1>16 DEF TickStart, Ownership, Stopping, Applying
  <2>3. QED
    BY <1>16, <2>1, <2>2 DEF TickStart, Refresh, Rearm, ownerVars, slotVars
<1>17. CASE TickSameRate
  BY <1>17
  DEF TickSameRate, TimerFires, Refresh, Rearm, ownerVars, workerVars, slotVars
<1>18. CASE PushTime
  BY <1>18 DEF PushTime, ownerVars, workerVars, slotVars
<1>19. CASE TakeSnapshot
  BY <1>19 DEF TakeSnapshot, Rearm, ownerVars, workerVars
<1>20. CASE PushDynamic
  BY <1>20 DEF PushDynamic, Rearm, ownerVars, workerVars, slotVars
<1>21. ASSUME NEW m \in Monitors, Fetch(m) PROVE Waits'
  BY <1>21 DEF Fetch, ownerVars, slotVars
<1>22. ASSUME NEW m \in Monitors, Discard(m) PROVE Waits'
  BY <1>22 DEF Discard, ownerVars, slotVars
<1>23. ASSUME NEW m \in Monitors, LockSnapshot(m) PROVE Waits'
  BY <1>23 DEF LockSnapshot, ownerVars
<1>24. ASSUME NEW m \in Monitors, StoreSnapshot(m) PROVE Waits'
  BY <1>24 DEF StoreSnapshot, ownerVars
<1>25. ASSUME NEW m \in Monitors, Wake(m) PROVE Waits'
  BY <1>25 DEF Wake, ownerVars, slotVars
<1>26. CASE UNCHANGED vars
  BY <1>26 DEF vars, ownerVars, workerVars, slotVars
<1>27. QED
  BY <1>1, <1>2, <1>3, <1>4, <1>5, <1>6, <1>7, <1>8, <1>9, <1>10, <1>11,
     <1>12, <1>13, <1>14, <1>15, <1>16, <1>17, <1>18, <1>19, <1>20, <1>21,
     <1>22, <1>23, <1>24, <1>25, <1>26
  DEF Next, OwnerStops, Tick, Poll, Deliver

\* The order of the waits, in every behavior.
LEMMA WaitsInvariant == Spec => [](TypeOK /\ Ownership /\ Waits)
<1>1. Init => Waits
  BY InitWaits
<1>2. TypeOK /\ Ownership /\ Waits /\ [Next]_vars => Waits'
  BY NextWaits
<1>3. QED
  BY <1>1, <1>2, OwnershipInvariant, PTL DEF Spec

\* Nobody waits for a thread that waits for it: a worker that is joined was
\* told to stop and finds the mutex free, although tick() and the worker lock
\* it and two threads may join (Protocol.cpp:36-41, 72-76, 91, 116).
THEOREM WaitsAreNoCircle == Spec => []WaitsCanEnd
<1>1. TypeOK /\ Ownership /\ Waits => WaitsCanEnd
  <2> SUFFICES ASSUME TypeOK, Ownership, Waits PROVE WaitsCanEnd
    OBVIOUS
  <2>1. m_mutex # NoMonitor => m_mutex \in Monitors /\ worker[m_mutex] = "write"
    BY DEF TypeOK, Waits
  <2>2. ASSUME NEW m \in Monitors, worker[m] = "deliver", m_mutex # NoMonitor
        PROVE  FALSE
    BY <2>1, <2>2 DEF Ownership, WorkerIsOwned, Alive
  <2>3. QED
    BY <2>1, <2>2 DEF Waits, WaitsCanEnd
<1>2. QED
  BY <1>1, WaitsInvariant, PTL

\* The part of every step that JoinWaitsForOneReading speaks of.
JoinStep ==
  (net = "join" /\ net' = "join") \/ (Joining /\ Joining' /\ ~met') =>
     \A m \in Monitors : worker'[m] = "fetch" => worker[m] = "fetch"

\* No worker that is joined begins a reading, whatever it was doing when it
\* was told to stop.  A tick that starts one while the owner joins it has met
\* the owner's stop().
LEMMA NextJoinWaits == TypeOK /\ Ownership /\ Waits /\ [Next]_vars => JoinStep
<1> SUFFICES ASSUME TypeOK, Ownership, Waits, [Next]_vars,
                    Joining, net = "join" \/ ~met',
                    NEW n \in Monitors, worker'[n] = "fetch", worker[n] # "fetch"
             PROVE  FALSE
  BY DEF JoinStep, Joining
<1> USE DEF Joining, TypeOK
<1>1. ASSUME NEW r \in RateInputs, Connect(r) \/ WriteRate(r) PROVE FALSE
  BY <1>1 DEF Connect, WriteRate, workerVars, Ownership
<1>2. CASE Disconnect \/ OwnerStops
  BY <1>2
  DEF Disconnect, OwnerStops, TestMonitor, StopMonitor, JoinMonitor, StopTimer,
      ClearTree, ClearNodes, Release, workerVars
<1>3. CASE Crash
  BY <1>3 DEF Crash
<1>4. CASE TickStart
  BY <1>4 DEF TickStart, Ownership, Stopping, Applying
<1>5. CASE \/ TickNewRate \/ TickStopMonitor \/ TickJoined \/ TickPause
           \/ TickCreate \/ TickSameRate
           \/ PushTime \/ TakeSnapshot \/ PushDynamic
  BY <1>5
  DEF TickNewRate, TickStopMonitor, TickJoined, TickPause, TickCreate,
      TickSameRate, PushTime, TakeSnapshot, PushDynamic, workerVars
<1>6. ASSUME NEW m \in Monitors, Poll(m) PROVE FALSE
  BY <1>6 DEF Poll, Fetch, Discard
<1>7. ASSUME NEW m \in Monitors, Deliver(m) PROVE FALSE
  <2>1. m = m_monitor
    BY <1>7
    DEF Deliver, LockSnapshot, StoreSnapshot, Wake, Ownership, WorkerIsOwned,
        Alive
  <2>2. met' = met
    BY <1>7 DEF Deliver, LockSnapshot, StoreSnapshot, Wake
  <2>3. stopping[m]
    BY <2>1, <2>2 DEF Waits, JoinsStopped
  <2>4. QED
    BY <1>7, <2>3 DEF Deliver, LockSnapshot, StoreSnapshot, Wake
<1>8. CASE UNCHANGED vars
  BY <1>8 DEF vars, workerVars
<1>9. QED
  BY <1>1, <1>2, <1>3, <1>4, <1>5, <1>6, <1>7, <1>8 DEF Next, Tick

\* Applying a rate waits for one reading at most, and so does stopping the
\* device as long as stop() and apply_rate do not meet: the worker that is
\* joined ends after the one it is in (Protocol.cpp:38, 74).
THEOREM JoinsWaitForOneReading == Spec => JoinWaitsForOneReading
<1>1. TypeOK /\ Ownership /\ Waits /\ [Next]_vars => [JoinStep]_vars
  BY NextJoinWaits
<1>2. QED
  BY <1>1, WaitsInvariant, PTL DEF Spec, JoinWaitsForOneReading, JoinStep

-----------------------------------------------------------------------------
(***************************************************************************)
(* The pace of the refreshes                                               *)
(***************************************************************************)

\* Every step keeps the delay, the monitor and the ticks on m_active_rate.
LEMMA NextPace == TypeOK /\ Ownership /\ Pace /\ [Next]_vars => Pace'
<1> SUFFICES ASSUME TypeOK, Ownership, Pace, [Next]_vars PROVE Pace'
  OBVIOUS
<1> USE DEF Pace, Applying, TypeOK, Rates
<1>1. ASSUME NEW r \in RateInputs, Connect(r) PROVE Pace'
  <2>1. Clamp(r) \in Rates
    BY ClampInRange
  <2>2. m_delay' = Interval(Clamp(r)) /\ (Clamp(r) = 0 => m_monitor' = NoMonitor)
    BY <1>1, <2>1 DEF Connect, Ownership, StartMonitor, SetDelay, Paused
  <2>3. QED
    BY <1>1, <2>2 DEF Connect, Ownership
<1>2. ASSUME NEW r \in RateInputs, WriteRate(r) PROVE Pace'
  BY <1>2 DEF WriteRate, ownerVars, timerVars
<1>3. CASE Disconnect
  BY <1>3 DEF Disconnect, timerVars
<1>4. CASE TestMonitor
  BY <1>4 DEF TestMonitor, timerVars
<1>5. CASE StopMonitor
  BY <1>5 DEF StopMonitor, timerVars
<1>6. CASE JoinMonitor
  BY <1>6 DEF JoinMonitor, timerVars
<1>7. CASE StopTimer
  BY <1>7 DEF StopTimer
<1>8. CASE ClearTree
  BY <1>8 DEF ClearTree, ClearNodes, Ownership
<1>9. CASE Release
  BY <1>9 DEF Release, Forget
<1>10. CASE Crash
  BY <1>10 DEF Crash, Forget
<1>11. CASE TickNewRate
  BY <1>11 DEF TickNewRate
<1>12. CASE TickStopMonitor
  BY <1>12 DEF TickStopMonitor, ownerVars, timerVars
<1>13. CASE TickJoined
  BY <1>13 DEF TickJoined, ownerVars, timerVars
<1>14. CASE TickPause
  <2>1. m_active_rate = 0 /\ m_monitor' = NoMonitor
    BY <1>14 DEF TickPause, Paused, Ownership
  <2>2. QED
    BY <1>14, <2>1 DEF TickPause, SetDelay, Refresh, Rearm, ownerVars
<1>15. CASE TickCreate
  BY <1>15 DEF TickCreate, Paused, ownerVars, timerVars
<1>16. CASE TickStart
  BY <1>16 DEF TickStart, SetDelay, Refresh, Rearm, ownerVars
<1>17. CASE TickSameRate
  BY <1>17 DEF TickSameRate, TimerFires, Refresh, Rearm, ownerVars
<1>18. CASE PushTime
  BY <1>18 DEF PushTime, ownerVars, timerVars
<1>19. CASE TakeSnapshot
  BY <1>19 DEF TakeSnapshot, Rearm, ownerVars
<1>20. CASE PushDynamic
  BY <1>20 DEF PushDynamic, Rearm, ownerVars
<1>21. ASSUME NEW m \in Monitors, Fetch(m) PROVE Pace'
  BY <1>21 DEF Fetch, ownerVars, timerVars
<1>22. ASSUME NEW m \in Monitors, Discard(m) PROVE Pace'
  BY <1>22 DEF Discard, ownerVars, timerVars
<1>23. ASSUME NEW m \in Monitors, LockSnapshot(m) PROVE Pace'
  BY <1>23 DEF LockSnapshot, ownerVars, timerVars
<1>24. ASSUME NEW m \in Monitors, StoreSnapshot(m) PROVE Pace'
  BY <1>24 DEF StoreSnapshot, ownerVars, timerVars
<1>25. ASSUME NEW m \in Monitors, Wake(m) PROVE Pace'
  BY <1>25 DEF Wake, ownerVars, timerVars
<1>26. CASE UNCHANGED vars
  BY <1>26 DEF vars, ownerVars, timerVars
<1>27. QED
  BY <1>1, <1>2, <1>3, <1>4, <1>5, <1>6, <1>7, <1>8, <1>9, <1>10, <1>11,
     <1>12, <1>13, <1>14, <1>15, <1>16, <1>17, <1>18, <1>19, <1>20, <1>21,
     <1>22, <1>23, <1>24, <1>25, <1>26
  DEF Next, OwnerStops, Tick, Poll, Deliver

\* The pace of the refreshes, in every behavior.
LEMMA PaceInvariant == Spec => [](TypeOK /\ Ownership /\ Pace)
<1>1. Init => Pace
  BY DEF Init, Pace
<1>2. TypeOK /\ Ownership /\ Pace /\ [Next]_vars => Pace'
  BY NextPace
<1>3. QED
  BY <1>1, <1>2, OwnershipInvariant, PTL DEF Spec

\* With a rate of 0 there is no worker between two ticks: nothing is polled
\* until another rate is written (README.md:38-41, Protocol.cpp:72-82).
THEOREM PausedIsQuiet == Spec => []QuietWhilePaused
<1>1. TypeOK /\ Ownership /\ Pace => QuietWhilePaused
  BY DEF TypeOK, Ownership, Pace, Applying, QuietWhilePaused, WorkerIsOwned
<1>2. QED
  BY <1>1, PaceInvariant, PTL

\* Between two ticks the timer is armed with the delay that goes with the
\* active rate, paused or not (Protocol.cpp:78-98).
THEOREM TimerIsInPace == Spec => []TimerFollowsRate
<1>1. TypeOK /\ Ownership /\ Pace => TimerFollowsRate
  BY DEF TypeOK, Rates, Pace, Applying, TimerFollowsRate, Interval, Paused
<1>2. QED
  BY <1>1, PaceInvariant, PTL

\* With a rate that is not 0 StartMonitor leaves a worker that runs.
LEMMA StartMonitorRuns ==
  ASSUME NEW r \in Rates, TypeOK, StartMonitor(r), r > 0
  PROVE  m_monitor' # NoMonitor /\ Alive(m_monitor)' /\ ~stopping'[m_monitor']
<1>1. PICK m \in Monitors : Create(m) /\ StartThread(m)
  BY DEF StartMonitor, Paused, Rates
<1>2. m_monitor' = m /\ worker'[m] = "fetch" /\ ~stopping'[m]
  BY <1>1 DEF Create, StartThread, TypeOK
<1>3. QED
  BY <1>2 DEF Alive

\* Every step of a connected device leaves a worker that runs.
LEMMA NextPolled ==
  TypeOK /\ Ownership /\ PolledWhileOn /\ [Next]_vars => PolledWhileOn'
<1> SUFFICES ASSUME TypeOK, Ownership, PolledWhileOn, [Next]_vars,
                    m_owner' = "up", ~Applying', m_active_rate' > 0
             PROVE  m_monitor' # NoMonitor /\ Alive(m_monitor)' /\ ~stopping'[m_monitor']
  BY DEF PolledWhileOn
<1> DEFINE Runs == m_monitor # NoMonitor /\ Alive(m_monitor) /\ ~stopping[m_monitor]
<1>1. ASSUME NEW r \in RateInputs, Connect(r) PROVE Runs'
  <2>1. Clamp(r) \in Rates
    BY ClampInRange
  <2>2. QED
    BY <1>1, <2>1, StartMonitorRuns DEF Connect
<1>2. CASE TickStart
  <2>1. m_owner = "up" /\ m_monitor' = m_monitor /\ m_monitor \in Monitors
    BY <1>2 DEF TickStart, TypeOK, ownerVars
  <2>2. ~stopping[m_monitor]
    BY <1>2, <2>1 DEF TickStart, Ownership
  <2>3. stopping' = stopping \/ stopping' = [stopping EXCEPT ![m_monitor] = FALSE]
    BY <1>2 DEF TickStart
  <2>4. ~stopping'[m_monitor]
    BY <2>1, <2>2, <2>3 DEF TypeOK
  <2>5. worker'[m_monitor] = "fetch"
    BY <1>2, <2>1 DEF TickStart, StartThread, TypeOK
  <2>6. QED
    BY <2>1, <2>4, <2>5 DEF Alive
<1>3. CASE TickPause
  BY <1>3 DEF TickPause, Paused, TypeOK, Rates
<1>4. CASE TickNewRate \/ TickStopMonitor \/ TickJoined \/ TickCreate
  BY <1>4 DEF TickNewRate, TickStopMonitor, TickJoined, TickCreate, Applying
<1>5. CASE Disconnect \/ OwnerStops \/ Crash
  BY <1>5
  DEF Disconnect, OwnerStops, TestMonitor, StopMonitor, JoinMonitor, StopTimer,
      ClearTree, Release, Crash, Forget
<1>6. ASSUME \/ \E r \in RateInputs : WriteRate(r)
             \/ TickSameRate \/ PushTime \/ TakeSnapshot \/ PushDynamic
             \/ UNCHANGED vars
      PROVE  Runs'
  <2>1. /\ m_monitor' = m_monitor /\ worker' = worker /\ stopping' = stopping
        /\ m_owner' = m_owner /\ m_active_rate' = m_active_rate
    BY <1>6
    DEF WriteRate, TickSameRate, PushTime, TakeSnapshot, PushDynamic, vars,
        ownerVars, workerVars
  <2>2. ~Applying
    BY <1>6
    DEF WriteRate, TickSameRate, TimerFires, PushTime, TakeSnapshot,
        PushDynamic, vars, Applying
  <2>3. QED
    BY <2>1, <2>2 DEF PolledWhileOn, Alive
<1>7. ASSUME NEW m \in Monitors, Poll(m) \/ Deliver(m) PROVE Runs'
  <2>1. /\ m_monitor' = m_monitor /\ stopping' = stopping /\ net' = net
        /\ m_owner' = m_owner /\ m_active_rate' = m_active_rate
    BY <1>7
    DEF Poll, Fetch, Discard, Deliver, LockSnapshot, StoreSnapshot, Wake, ownerVars
  <2>2. Runs
    BY <2>1 DEF PolledWhileOn, Applying
  <2>3. m = m_monitor
    BY <1>7
    DEF Poll, Fetch, Discard, Deliver, LockSnapshot, StoreSnapshot, Wake,
        Ownership, WorkerIsOwned, Alive
  <2>4. worker'[m] # "off"
    BY <1>7, <2>2, <2>3
    DEF Poll, Fetch, Discard, Deliver, LockSnapshot, StoreSnapshot, Wake, TypeOK
  <2>5. QED
    BY <2>1, <2>2, <2>3, <2>4 DEF Alive
<1>8. QED
  BY <1>1, <1>2, <1>3, <1>4, <1>5, <1>6, <1>7 DEF Next, Tick

\* A connected device with a rate that is not 0 has a worker that runs, in
\* whatever order rates were written and applied (Protocol.cpp:68-99).
THEOREM PolledUntilStopped == Spec => []PolledWhileOn
<1>1. Init => PolledWhileOn
  BY DEF Init, PolledWhileOn
<1>2. TypeOK /\ Ownership /\ PolledWhileOn /\ [Next]_vars => PolledWhileOn'
  BY NextPolled
<1>3. QED
  BY <1>1, <1>2, OwnershipInvariant, PTL DEF Spec

-----------------------------------------------------------------------------
(***************************************************************************)
(* What is published                                                       *)
(***************************************************************************)

\* Every step leaves a reading where tick() could take or push one.
LEMMA NextWholeness ==
  TypeOK /\ Ownership /\ Wholeness /\ [Next]_vars => Wholeness'
<1> SUFFICES ASSUME TypeOK, Ownership, Wholeness, [Next]_vars
             PROVE  Wholeness'
  OBVIOUS
<1> USE DEF Wholeness, WholeReadings, Ready, TypeOK
<1>1. ASSUME NEW r \in RateInputs, Connect(r) PROVE Wholeness'
  BY <1>1 DEF Connect, slotVars, historyVars, Ownership
<1>2. ASSUME NEW r \in RateInputs, WriteRate(r) PROVE Wholeness'
  BY <1>2 DEF WriteRate, slotVars, historyVars
<1>3. CASE Disconnect
  BY <1>3 DEF Disconnect, slotVars, historyVars
<1>4. CASE TestMonitor
  BY <1>4 DEF TestMonitor, slotVars, historyVars
<1>5. CASE StopMonitor
  BY <1>5 DEF StopMonitor, slotVars, historyVars
<1>6. CASE JoinMonitor
  BY <1>6 DEF JoinMonitor, slotVars, historyVars
<1>7. CASE StopTimer
  BY <1>7 DEF StopTimer, slotVars, historyVars
<1>8. CASE ClearTree
  BY <1>8 DEF ClearTree, ClearNodes, slotVars, historyVars
<1>9. CASE Release
  BY <1>9 DEF Release, Forget
<1>10. CASE Crash
  BY <1>10 DEF Crash, Forget
<1>11. CASE TickNewRate
  BY <1>11 DEF TickNewRate, slotVars, historyVars
<1>12. CASE TickStopMonitor
  BY <1>12 DEF TickStopMonitor, slotVars, historyVars
<1>13. CASE TickJoined
  BY <1>13 DEF TickJoined, slotVars, historyVars
<1>14. CASE TickPause
  BY <1>14 DEF TickPause, Refresh, Rearm, slotVars, historyVars
<1>15. CASE TickCreate
  BY <1>15 DEF TickCreate, slotVars, historyVars
<1>16. CASE TickStart
  BY <1>16 DEF TickStart, Refresh, Rearm, slotVars, historyVars
<1>17. CASE TickSameRate
  BY <1>17 DEF TickSameRate, Refresh, Rearm, slotVars, historyVars
<1>18. CASE PushTime
  BY <1>18 DEF PushTime, slotVars, historyVars
<1>19. CASE TakeSnapshot
  BY <1>19 DEF TakeSnapshot, LockSlot, ClearDirty, Rearm, historyVars
<1>20. CASE PushDynamic
  BY <1>20 DEF PushDynamic, Rearm, slotVars
<1>21. ASSUME NEW m \in Monitors, Fetch(m) PROVE Wholeness'
  BY <1>21 DEF Fetch, slotVars
<1>22. ASSUME NEW m \in Monitors, Discard(m) PROVE Wholeness'
  BY <1>22 DEF Discard, slotVars, historyVars
<1>23. ASSUME NEW m \in Monitors, LockSnapshot(m) PROVE Wholeness'
  BY <1>23 DEF LockSnapshot, historyVars
<1>24. ASSUME NEW m \in Monitors, StoreSnapshot(m) PROVE Wholeness'
  BY <1>24 DEF StoreSnapshot, historyVars
<1>25. ASSUME NEW m \in Monitors, Wake(m) PROVE Wholeness'
  BY <1>25 DEF Wake, slotVars, historyVars
<1>26. CASE UNCHANGED vars
  BY <1>26 DEF vars, slotVars, historyVars
<1>27. QED
  BY <1>1, <1>2, <1>3, <1>4, <1>5, <1>6, <1>7, <1>8, <1>9, <1>10, <1>11,
     <1>12, <1>13, <1>14, <1>15, <1>16, <1>17, <1>18, <1>19, <1>20, <1>21,
     <1>22, <1>23, <1>24, <1>25, <1>26
  DEF Next, OwnerStops, Tick, Poll, Deliver

\* What can be published, in every behavior.
LEMMA WholenessInvariant == Spec => [](TypeOK /\ Ownership /\ Pace /\ Wholeness)
<1>1. Init => Wholeness
  BY DEF Init, Wholeness, WholeReadings, Ready
<1>2. TypeOK /\ Ownership /\ Wholeness /\ [Next]_vars => Wholeness'
  BY NextWholeness
<1>3. QED
  BY <1>1, <1>2, PaceInvariant, PTL DEF Spec

\* Nothing but whole readings is pushed to the tree, although the snapshot is
\* copied and moved by two threads (Protocol.cpp:90-93, 114-123).
THEOREM PublishedIsWhole == Spec => []WholeReadings
<1>1. TypeOK /\ Ownership /\ Pace /\ Wholeness => WholeReadings
  BY DEF Wholeness
<1>2. QED
  BY <1>1, WholenessInvariant, PTL

-----------------------------------------------------------------------------
(***************************************************************************)
(* Readings in their order                                                 *)
(***************************************************************************)

\* Readings are numbered.
Numbered == MaxReadings # 0

\* Every step keeps the readings on their way in the order of their numbers.
LEMMA NextOrder ==
  ASSUME Numbered
  PROVE  TypeOK /\ Ownership /\ Wholeness /\ Order /\ [Next]_vars => Order'
<1> SUFFICES ASSUME TypeOK, Ownership, Wholeness, Order, [Next]_vars
             PROVE  Order'
  OBVIOUS
<1> USE DEF Wholeness, WholeReadings, Order, Ready, TypeOK
<1>1. ASSUME NEW r \in RateInputs, Connect(r) PROVE Order'
  <2>1. Clamp(r) \in Rates
    BY ClampInRange
  <2>2. \A m \in Monitors : worker'[m] \in {"off", "fetch"}
    BY <1>1, <2>1, NoneAlive, StartMonitorOwned DEF Connect, Ownership
  <2>3. QED
    BY <1>1, <2>2 DEF Connect, Ownership, slotVars, historyVars
<1>2. ASSUME NEW r \in RateInputs, WriteRate(r) PROVE Order'
  BY <1>2 DEF WriteRate, workerVars, slotVars, historyVars
<1>3. CASE Disconnect
  BY <1>3 DEF Disconnect, workerVars, slotVars, historyVars
<1>4. CASE TestMonitor
  BY <1>4 DEF TestMonitor, workerVars, slotVars, historyVars
<1>5. CASE StopMonitor
  BY <1>5 DEF StopMonitor, slotVars, historyVars
<1>6. CASE JoinMonitor
  BY <1>6 DEF JoinMonitor, workerVars, slotVars, historyVars
<1>7. CASE StopTimer
  BY <1>7 DEF StopTimer, workerVars, slotVars, historyVars
<1>8. CASE ClearTree
  BY <1>8 DEF ClearTree, ClearNodes, workerVars, slotVars, historyVars
<1>9. CASE Release
  <2>1. \A m \in Monitors : ~Alive(m)
    BY <1>9, NoneAlive DEF Release, Ownership
  <2>2. QED
    BY <1>9, <2>1 DEF Release, Forget, workerVars, Alive
<1>10. CASE Crash
  BY <1>10 DEF Crash, Forget
<1>11. CASE TickNewRate
  BY <1>11 DEF TickNewRate, TimerFires, HasMonitor, workerVars, slotVars, historyVars
<1>12. CASE TickStopMonitor
  BY <1>12 DEF TickStopMonitor, slotVars, historyVars
<1>13. CASE TickJoined
  BY <1>13 DEF TickJoined, workerVars, slotVars, historyVars
<1>14. CASE TickPause
  BY <1>14 DEF TickPause, Refresh, Rearm, workerVars, slotVars, historyVars
<1>15. CASE TickCreate
  <2>1. \A m \in Monitors : worker'[m] = "off"
    BY <1>15, NoneAlive DEF TickCreate, Ownership, Alive
  <2>2. QED
    BY <1>15, <2>1 DEF TickCreate, slotVars, historyVars
<1>16. CASE TickStart
  <2>1. \A m \in Monitors : ~Alive(m)
    BY <1>16, NoneAlive DEF TickStart, Ownership
  <2>2. \A m \in Monitors : worker'[m] \in {"off", "fetch"}
    BY <1>16, <2>1, StartThreadOwned DEF TickStart
  <2>3. QED
    BY <1>16, <2>2 DEF TickStart, Refresh, Rearm, slotVars, historyVars
<1>17. CASE TickSameRate
  BY <1>17 DEF TickSameRate, TimerFires, Refresh, Rearm, workerVars, slotVars, historyVars
<1>18. CASE PushTime
  BY <1>18 DEF PushTime, workerVars, slotVars, historyVars
<1>19. CASE TakeSnapshot
  BY <1>19 DEF TakeSnapshot, LockSlot, ClearDirty, Rearm, workerVars, historyVars
<1>20. CASE PushDynamic
  BY <1>20 DEF PushDynamic, Rearm, workerVars, slotVars
<1>21. ASSUME NEW m \in Monitors, Fetch(m) PROVE Order'
  <2>1. taken' = taken + 1
    BY <1>21, Numbered DEF Numbered, Fetch
  <2>2. \A n \in Monitors \ {m} : worker'[n] = "off"
    BY <1>21 DEF Fetch, Ownership, WorkerIsOwned, Alive
  <2>3. reading'[m] = taken + 1
    BY <1>21, <2>1 DEF Fetch
  <2>4. QED
    BY <1>21, <2>1, <2>2, <2>3 DEF Fetch, slotVars
<1>22. ASSUME NEW m \in Monitors, Discard(m) PROVE Order'
  BY <1>22 DEF Discard, slotVars, historyVars
<1>23. ASSUME NEW m \in Monitors, LockSnapshot(m) PROVE Order'
  BY <1>23 DEF LockSnapshot, historyVars
<1>24. ASSUME NEW m \in Monitors, StoreSnapshot(m) PROVE Order'
  <2>1. \A n \in Monitors \ {m} : worker[n] = "off"
    BY <1>24 DEF StoreSnapshot, Ownership, WorkerIsOwned, Alive
  <2>2. \A n \in Monitors : worker'[n] \in {"off", "sleep"}
    BY <1>24, <2>1 DEF StoreSnapshot
  <2>3. QED
    BY <1>24, <2>2 DEF StoreSnapshot, historyVars
<1>25. ASSUME NEW m \in Monitors, Wake(m) PROVE Order'
  BY <1>25 DEF Wake, slotVars, historyVars
<1>26. CASE UNCHANGED vars
  BY <1>26 DEF vars, workerVars, slotVars, historyVars
<1>27. QED
  BY <1>1, <1>2, <1>3, <1>4, <1>5, <1>6, <1>7, <1>8, <1>9, <1>10, <1>11,
     <1>12, <1>13, <1>14, <1>15, <1>16, <1>17, <1>18, <1>19, <1>20, <1>21,
     <1>22, <1>23, <1>24, <1>25, <1>26
  DEF Next, OwnerStops, Tick, Poll, Deliver

\* All the parts of the invariant, in every behavior.
THEOREM Invariant == ASSUME Numbered PROVE Spec => [](TypeOK /\ Inv)
<1>1. Init => Order
  BY DEF Init, Order, Ready
<1>2. TypeOK /\ Ownership /\ Wholeness /\ Order /\ [Next]_vars => Order'
  BY NextOrder
<1>3. QED
  BY <1>1, <1>2, WholenessInvariant, WaitsInvariant, PTL DEF Spec, Inv

-----------------------------------------------------------------------------
(***************************************************************************)
(* The implementation of LatestReading                                     *)
(***************************************************************************)

\* Every step is one of LatestReading, or leaves its variables alone.
LEMMA NextLatestReading ==
  ASSUME Numbered
  PROVE  TypeOK /\ Inv /\ [Next]_vars => [LR!Next]_LR!vars
<1> SUFFICES ASSUME TypeOK, Inv, [Next]_vars PROVE [LR!Next]_LR!vars
  OBVIOUS
<1> USE DEF Inv
<1>1. ASSUME NEW r \in RateInputs, Connect(r) PROVE LR!SetRefreshing
  BY <1>1 DEF Connect, historyVars, LR!SetRefreshing
<1>2. ASSUME NEW r \in RateInputs, WriteRate(r) PROVE UNCHANGED LR!vars
  BY <1>2 DEF WriteRate, historyVars, LR!vars
<1>3. ASSUME Disconnect PROVE UNCHANGED LR!vars
  BY <1>3 DEF Disconnect, historyVars, LR!vars
<1>4. ASSUME TestMonitor PROVE UNCHANGED LR!vars
  BY <1>4 DEF TestMonitor, historyVars, LR!vars
<1>5. ASSUME StopMonitor PROVE UNCHANGED LR!vars
  BY <1>5 DEF StopMonitor, historyVars, LR!vars
<1>6. ASSUME JoinMonitor PROVE UNCHANGED LR!vars
  BY <1>6 DEF JoinMonitor, historyVars, LR!vars
<1>7. ASSUME StopTimer PROVE UNCHANGED LR!vars
  BY <1>7 DEF StopTimer, historyVars, LR!vars
<1>8. ASSUME ClearTree PROVE UNCHANGED LR!vars
  BY <1>8 DEF ClearTree, ClearNodes, historyVars, LR!vars
<1>9. ASSUME Release PROVE LR!Release
  BY <1>9 DEF Release, Forget, LR!Release
<1>10. ASSUME Crash PROVE LR!Release
  BY <1>10 DEF Crash, Forget, LR!Release
<1>11. ASSUME TickNewRate PROVE LR!SetRefreshing
  BY <1>11 DEF TickNewRate, historyVars, LR!SetRefreshing
<1>12. ASSUME TickStopMonitor PROVE UNCHANGED LR!vars
  BY <1>12 DEF TickStopMonitor, historyVars, LR!vars
<1>13. ASSUME TickJoined PROVE UNCHANGED LR!vars
  BY <1>13 DEF TickJoined, historyVars, LR!vars
<1>14. ASSUME TickPause PROVE UNCHANGED LR!vars
  BY <1>14 DEF TickPause, historyVars, LR!vars
<1>15. ASSUME TickCreate PROVE UNCHANGED LR!vars
  BY <1>15 DEF TickCreate, historyVars, LR!vars
<1>16. ASSUME TickStart PROVE UNCHANGED LR!vars
  BY <1>16 DEF TickStart, historyVars, LR!vars
<1>17. ASSUME TickSameRate PROVE UNCHANGED LR!vars
  BY <1>17 DEF TickSameRate, historyVars, LR!vars
<1>18. ASSUME PushTime PROVE UNCHANGED LR!vars
  BY <1>18 DEF PushTime, historyVars, LR!vars
<1>19. ASSUME TakeSnapshot PROVE UNCHANGED LR!vars
  BY <1>19 DEF TakeSnapshot, historyVars, LR!vars
<1>20. ASSUME PushDynamic PROVE LR!Publish
  <2>1. m_active_rate > 0 /\ snap \in (published + 1) .. taken
    BY <1>20 DEF PushDynamic, TypeOK, Pace, Wholeness, WholeReadings, Order
  <2>2. QED
    BY <1>20, <2>1 DEF PushDynamic, LR!Publish
<1>21. ASSUME NEW m \in Monitors, Fetch(m) PROVE LR!Sample
  BY <1>21 DEF Numbered, Fetch, LR!Sample
<1>22. ASSUME NEW m \in Monitors, Discard(m) PROVE UNCHANGED LR!vars
  BY <1>22 DEF Discard, historyVars, LR!vars
<1>23. ASSUME NEW m \in Monitors, LockSnapshot(m) PROVE UNCHANGED LR!vars
  BY <1>23 DEF LockSnapshot, historyVars, LR!vars
<1>24. ASSUME NEW m \in Monitors, StoreSnapshot(m) PROVE UNCHANGED LR!vars
  BY <1>24 DEF StoreSnapshot, historyVars, LR!vars
<1>25. ASSUME NEW m \in Monitors, Wake(m) PROVE UNCHANGED LR!vars
  BY <1>25 DEF Wake, historyVars, LR!vars
<1>26. ASSUME UNCHANGED vars PROVE UNCHANGED LR!vars
  BY <1>26 DEF vars, historyVars, LR!vars
<1>27. QED
  BY <1>1, <1>2, <1>3, <1>4, <1>5, <1>6, <1>7, <1>8, <1>9, <1>10, <1>11,
     <1>12, <1>13, <1>14, <1>15, <1>16, <1>17, <1>18, <1>19, <1>20, <1>21,
     <1>22, <1>23, <1>24, <1>25, <1>26
  DEF Next, OwnerStops, Tick, Poll, Deliver, LR!Next

\* The refresh machinery implements LatestReading: readings are published one
\* at a time, in order, at most once, and while refreshing is on.
THEOREM ImplementsLatestReading == ASSUME Numbered PROVE Spec => LatestReadingSpec
<1>1. Init => LR!Init
  BY DEF Init, LR!Init
<1>2. TypeOK /\ Inv /\ [Next]_vars => [LR!Next]_LR!vars
  BY NextLatestReading
<1>3. QED
  BY <1>1, <1>2, Invariant, PTL DEF Spec, LatestReadingSpec, LR!Spec
=============================================================================
