------------------------------ MODULE Protocol ------------------------------
(***************************************************************************)
(* The refresh machinery of sysinfo_protocol (SysInfo/Protocol.cpp): how   *)
(* the thread that owns the device, the network context, the worker thread *)
(* of the monitor and whoever writes /rate share m_monitor, m_snapshot,    *)
(* m_dirty and m_requested_rate.                                           *)
(*                                                                         *)
(* Four kinds of threads take steps:                                       *)
(*   - the owner connects the device, disconnects it and destroys it       *)
(*     (set_device, stop, ~sysinfo_protocol); m_owner is where it is;      *)
(*   - the network context runs tick() when the timer fires; net is where  *)
(*     in tick() it is;                                                    *)
(*   - the worker of a monitor fetches a reading, hands it over and sleeps;*)
(*   - any thread may write /rate while the tree exists.                   *)
(*                                                                         *)
(* Readings are numbered in the order they are completed; what is in them  *)
(* is the subject of the module Sampler.                                   *)
(***************************************************************************)
EXTENDS Integers

CONSTANTS
  Monitors,        \* identities for the Monitor objects that are alive
  NoMonitor,       \* the null m_monitor, and the free m_mutex
  Hollow,          \* a snapshot that holds no reading: initial or moved from
  Torn,            \* a snapshot in the middle of being assigned
  MaxRate,         \* SpecificSettings::max_rate
  PausedInterval,  \* paused_interval: the delay of the timer while paused
  RateInputs,      \* the integers settings and writes to /rate bring
  MaxReadings      \* bound on the readings of a connection; 0: unbounded and
                   \* not numbered (every reading is 0)

ASSUME MonitorsAssumption ==
  /\ Monitors # {}
  /\ NoMonitor \notin Monitors

ASSUME SnapshotAssumption ==
  /\ Hollow \notin Nat
  /\ Torn \notin Nat
  /\ Hollow # Torn

ASSUME RateAssumption ==
  /\ MaxRate \in Nat \ {0}
  /\ PausedInterval \in Nat \ {0}
  /\ RateInputs \subseteq Int

ASSUME BoundAssumption == MaxReadings \in Nat

VARIABLES
  m_owner,           \* control point of the thread that owns the device
  tree,              \* do the nodes of the device exist?
  net,               \* control point of tick() on the network context
  m_timer,           \* the delay the timer is armed with, Off if it is not
  m_delay,           \* the delay the timer will next be armed with
  m_requested_rate,
  m_active_rate,
  m_monitor,
  met,               \* has stop() met apply_rate since the connection?
  worker,            \* worker[m]: control point of the thread of monitor m
  stopping,          \* stopping[m]: m->stop() was called
  reading,           \* reading[m]: the reading the worker of m holds
  m_mutex,           \* the worker that holds the mutex, or NoMonitor
  m_snapshot,
  m_dirty,
  snap,              \* tick()'s local copy of the snapshot
  taken,             \* number of the last reading completed and kept
  published          \* the reading the tree shows, 0 if none yet

ownerVars   == <<m_owner, tree>>
timerVars   == <<m_timer, m_delay>>
workerVars  == <<worker, stopping, reading>>
slotVars    == <<m_mutex, m_snapshot, m_dirty>>
historyVars == <<taken, published>>
monitorVars == <<m_monitor, met>>
vars == <<ownerVars, net, timerVars, m_requested_rate, m_active_rate,
          monitorVars, workerVars, slotVars, snap, historyVars>>

Off == 0
Rates == 0 .. MaxRate
Snapshots == Nat \cup {Hollow, Torn}

OwnerStates  == {"absent", "up", "stop", "call", "join", "timer", "clear"}
NetStates    == {"idle", "call", "join", "create", "start",
                 "clock", "lock", "push"}
WorkerStates == {"off", "fetch", "deliver", "write", "sleep"}

Alive(m) == worker[m] # "off"

\* Mutation of Clamp: only the upper bound.
ClampFromAbove(r) == IF r > MaxRate THEN MaxRate ELSE r

\* std::clamp(r, 0, max_rate)
Clamp(r) == IF r < 0 THEN 0 ELSE IF r > MaxRate THEN MaxRate ELSE r

\* Mutation of Paused: the shortest interval is taken for none.
PausedAtOne(rate) == rate <= 1

\* Does apply_rate return without a monitor?
Paused(rate) == rate <= 0

\* Mutation of Interval: no polling for a new rate while paused.
IntervalIsRate(rate) == rate

\* The delay apply_rate gives to the timer.
Interval(rate) == IF Paused(rate) THEN PausedInterval ELSE rate

TypeOK ==
  /\ m_owner \in OwnerStates
  /\ tree \in BOOLEAN
  /\ net \in NetStates
  /\ m_timer \in Nat
  /\ m_delay \in Nat
  /\ m_requested_rate \in Rates
  /\ m_active_rate \in Rates
  /\ m_monitor \in Monitors \cup {NoMonitor}
  /\ met \in BOOLEAN
  /\ worker \in [Monitors -> WorkerStates]
  /\ stopping \in [Monitors -> BOOLEAN]
  /\ reading \in [Monitors -> Nat]
  /\ m_mutex \in Monitors \cup {NoMonitor}
  /\ m_snapshot \in Snapshots
  /\ m_dirty \in BOOLEAN
  /\ snap \in Snapshots
  /\ taken \in Nat
  /\ published \in Snapshots

\* No device: the state before the first connection.
Init ==
  /\ m_owner = "absent"
  /\ tree = FALSE
  /\ net = "idle"
  /\ m_timer = Off
  /\ m_delay = Off
  /\ m_requested_rate = 0
  /\ m_active_rate = 0
  /\ m_monitor = NoMonitor
  /\ met = FALSE
  /\ worker = [m \in Monitors |-> "off"]
  /\ stopping = [m \in Monitors |-> FALSE]
  /\ reading = [m \in Monitors |-> 0]
  /\ m_mutex = NoMonitor
  /\ m_snapshot = Hollow
  /\ m_dirty = FALSE
  /\ snap = Hollow
  /\ taken = 0
  /\ published = 0

-----------------------------------------------------------------------------
(***************************************************************************)
(* m_monitor, which stop() and apply_rate share without a lock.  Each of   *)
(* them tests it, calls stop() on it, waits in that for its thread, and    *)
(* resets it; apply_rate then publishes a new monitor and starts it.       *)
(***************************************************************************)

\* Is stop() between its test of m_monitor and the reset?
Stopping == m_owner \in {"call", "join"}

\* Is tick() between its test of m_monitor and the last use of it?
Applying == net \in {"call", "join", "create", "start"}

\* The owner and the network context are both inside m_monitor->stop(): the
\* same thread is joined twice and the same object deleted twice.
Overlap == m_owner = "join" /\ net = "join"

\* Mutation of HasMonitor: apply_rate(0) returns before it stops the monitor.
HasMonitorUnlessPausing == m_monitor # NoMonitor /\ m_requested_rate > 0

\* Mutation of HasMonitor: the active rate is taken for the monitor it had.
HasMonitorByRate == m_active_rate > 0

\* if(m_monitor), in apply_rate
HasMonitor == m_monitor # NoMonitor

\* Mutation of SignalStop: the thread is joined, never told to end.
SignalNothing(m) == UNCHANGED stopping

\* m_monitor->stop() up to the join.
SignalStop(m) == stopping' = [stopping EXCEPT ![m] = TRUE]

\* Mutation of ThreadEnded: the thread is detached, not joined.
ThreadDetached == ~Overlap

\* The join inside m_monitor->stop() returns.
ThreadEnded == ~Overlap /\ ~Alive(m_monitor)

\* Mutation of SetDelay: the delay is left alone when refreshing is off.
SetDelayOfRate(rate) ==
  m_delay' = IF rate <= 0 THEN m_delay ELSE Interval(rate)

\* m_timer.set_delay, on both ways out of apply_rate
SetDelay(rate) == m_delay' = Interval(rate)

\* m_monitor = std::make_unique: the new monitor, its thread not started yet.
Create(m) ==
  /\ ~Alive(m)
  /\ m_monitor' = m
  /\ stopping' = [stopping EXCEPT ![m] = FALSE]
  /\ reading' = [reading EXCEPT ![m] = 0]

\* m_monitor->start(): its thread begins with a reading.
StartThread(m) == worker' = [worker EXCEPT ![m] = "fetch"]

\* apply_rate(rate) while there is no monitor and nobody else in the protocol.
StartMonitor(rate) ==
  /\ SetDelay(rate)
  /\ IF Paused(rate)
       THEN UNCHANGED <<m_monitor, workerVars>>
       ELSE \E m \in Monitors : Create(m) /\ StartThread(m)

-----------------------------------------------------------------------------
(***************************************************************************)
(* The owner of the device.                                                *)
(***************************************************************************)

\* set_device: the hardware is scanned, the tree laid out, the callback of
\* /rate attached, the first monitor started and the timer armed.  Nobody
\* else knows the device yet, so the steps are not interleaved.
Connect(rate) ==
  /\ m_owner = "absent"
  /\ m_owner' = "up"
  /\ tree' = TRUE
  /\ m_requested_rate' = Clamp(rate)
  /\ m_active_rate' = Clamp(rate)
  /\ StartMonitor(Clamp(rate))
  /\ m_timer' = m_delay'
  /\ UNCHANGED <<net, met, slotVars, snap, historyVars>>

\* The device is destroyed: its destructor first calls stop().
Disconnect ==
  /\ m_owner = "up"
  /\ m_owner' = "stop"
  /\ UNCHANGED <<tree, net, timerVars, m_requested_rate, m_active_rate,
                 monitorVars, workerVars, slotVars, snap, historyVars>>

\* stop(), if(m_monitor)
TestMonitor ==
  /\ m_owner = "stop"
  /\ IF m_monitor = NoMonitor
       THEN m_owner' = "timer" /\ UNCHANGED met
       ELSE m_owner' = "call" /\ met' = (met \/ Applying)
  /\ UNCHANGED <<tree, net, timerVars, m_requested_rate, m_active_rate,
                 m_monitor, workerVars, slotVars, snap, historyVars>>

\* stop(), m_monitor->stop(): the thread of what m_monitor is by now is told
\* to stop.
StopMonitor ==
  /\ m_owner = "call"
  /\ m_monitor # NoMonitor
  /\ SignalStop(m_monitor)
  /\ m_owner' = "join"
  /\ UNCHANGED <<tree, net, timerVars, m_requested_rate, m_active_rate,
                 monitorVars, worker, reading, slotVars, snap, historyVars>>

\* stop(): the thread has ended, m_monitor is reset.
JoinMonitor ==
  /\ m_owner = "join"
  /\ ThreadEnded
  /\ m_monitor' = NoMonitor
  /\ m_owner' = "timer"
  /\ UNCHANGED <<tree, net, timerVars, m_requested_rate, m_active_rate, met,
                 workerVars, slotVars, snap, historyVars>>

\* Mutation of DisarmTimer: stop() forgets the timer.
DisarmNothing == UNCHANGED m_timer

\* m_timer.stop(): it does not fire any more.
DisarmTimer == m_timer' = Off

\* The last statement of stop(): the timer is stopped, which waits for a
\* tick() that is running.  Called by the device, stop() returns to it.
StopTimer ==
  /\ m_owner = "timer"
  /\ tree
  /\ net = "idle"
  /\ DisarmTimer
  /\ m_owner' = "clear"
  /\ UNCHANGED <<tree, net, m_delay, m_requested_rate, m_active_rate,
                 monitorVars, workerVars, slotVars, snap, historyVars>>

\* The members of the protocol and the nodes of the device are gone.
Forget ==
  /\ m_owner' = "absent"
  /\ tree' = FALSE
  /\ net' = "idle"
  /\ m_delay' = Off
  /\ m_requested_rate' = 0
  /\ m_active_rate' = 0
  /\ m_monitor' = NoMonitor
  /\ met' = FALSE
  /\ m_snapshot' = Hollow
  /\ m_dirty' = FALSE
  /\ snap' = Hollow
  /\ taken' = 0
  /\ published' = 0

\* Called by the destructor, stop() returns and the members are destroyed.
Release ==
  /\ m_owner = "timer"
  /\ ~tree
  /\ net = "idle"
  /\ DisarmTimer
  /\ Forget
  /\ UNCHANGED <<workerVars, m_mutex>>

\* The device clears its nodes, and with them the callback of /rate.
ClearNodes ==
  /\ m_owner = "clear"
  /\ tree' = FALSE
  /\ UNCHANGED <<net, timerVars, m_requested_rate, m_active_rate, monitorVars,
                 workerVars, slotVars, snap, historyVars>>

\* Mutation of ClearTree: the destructor leaves the monitor alone.
ClearTreeOnly == ClearNodes /\ m_owner' = "timer"

\* Then it releases the protocol, whose destructor calls stop() again.
ClearTree == ClearNodes /\ m_owner' = "stop"

\* stop() or start() is about to be called on a null m_monitor.
NullUse ==
  /\ m_monitor = NoMonitor
  /\ m_owner = "call" \/ net \in {"call", "start"}

\* Nothing is defined after two threads in m_monitor->stop(), one in its
\* stop() while the other is about to start() it, or a use of a null one.
Undefined ==
  \/ Overlap
  \/ m_owner = "join" /\ net = "start"
  \/ NullUse

\* The outcome that comes to an end is that of the process, and with it of
\* its threads.
Crash ==
  /\ Undefined
  /\ Forget
  /\ m_timer' = Off
  /\ worker' = [m \in Monitors |-> "off"]
  /\ m_mutex' = NoMonitor
  /\ UNCHANGED <<stopping, reading>>

-----------------------------------------------------------------------------
(***************************************************************************)
(* tick(), on the network context.                                         *)
(***************************************************************************)

\* tick() returns and the timer is armed again.
Rearm ==
  /\ net' = "idle"
  /\ m_timer' = m_delay'

\* Mutation of Refresh: the test for a rate of 0 is left out.
RefreshAlways(rate) == net' = "clock" /\ m_timer' = Off

\* Mutation of Refresh: the test is off by one.
RefreshAboveOne(rate) ==
  IF rate <= 1 THEN Rearm ELSE net' = "clock" /\ m_timer' = Off

\* The test for a rate of 0 in tick(): it returns, or goes on to the clock.
Refresh(rate) ==
  IF rate <= 0 THEN Rearm ELSE net' = "clock" /\ m_timer' = Off

TimerFires == net = "idle" /\ m_timer # Off

\* A new rate: apply_rate up to its test of m_monitor.
TickNewRate ==
  /\ TimerFires
  /\ m_requested_rate # m_active_rate
  /\ m_active_rate' = m_requested_rate
  /\ m_timer' = Off
  /\ net' = IF HasMonitor THEN "call" ELSE "create"
  /\ met' = (met \/ Stopping)
  /\ UNCHANGED <<ownerVars, m_delay, m_requested_rate, m_monitor, workerVars,
                 slotVars, snap, historyVars>>

\* apply_rate, m_monitor->stop(): its thread is told to stop.
TickStopMonitor ==
  /\ net = "call"
  /\ m_monitor # NoMonitor
  /\ SignalStop(m_monitor)
  /\ net' = "join"
  /\ UNCHANGED <<ownerVars, timerVars, m_requested_rate, m_active_rate,
                 monitorVars, worker, reading, slotVars, snap, historyVars>>

\* apply_rate: that thread has ended, m_monitor is reset.
TickJoined ==
  /\ net = "join"
  /\ ThreadEnded
  /\ m_monitor' = NoMonitor
  /\ net' = "create"
  /\ UNCHANGED <<ownerVars, timerVars, m_requested_rate, m_active_rate, met,
                 workerVars, slotVars, snap, historyVars>>

\* The rest of apply_rate if refreshing is turned off ...
TickPause ==
  /\ net = "create"
  /\ Paused(m_active_rate)
  /\ SetDelay(m_active_rate)
  /\ Refresh(m_active_rate)
  /\ UNCHANGED <<ownerVars, m_requested_rate, m_active_rate, monitorVars,
                 workerVars, slotVars, snap, historyVars>>

\* ... and if it goes on: the new monitor is in m_monitor for all to see ...
TickCreate ==
  /\ net = "create"
  /\ ~Paused(m_active_rate)
  /\ \E m \in Monitors : Create(m)
  /\ net' = "start"
  /\ UNCHANGED <<ownerVars, timerVars, m_requested_rate, m_active_rate, met,
                 worker, slotVars, snap, historyVars>>

\* ... before m_monitor->start() runs its thread.  If it is being stopped
\* already, either may come first.
TickStart ==
  /\ net = "start"
  /\ m_monitor # NoMonitor
  /\ StartThread(m_monitor)
  /\ stopping' \in {stopping, [stopping EXCEPT ![m_monitor] = FALSE]}
  /\ SetDelay(m_active_rate)
  /\ Refresh(m_active_rate)
  /\ UNCHANGED <<ownerVars, m_requested_rate, m_active_rate, monitorVars,
                 reading, slotVars, snap, historyVars>>

\* No new rate.
TickSameRate ==
  /\ TimerFires
  /\ m_requested_rate = m_active_rate
  /\ UNCHANGED <<ownerVars, m_delay, m_requested_rate, m_active_rate,
                 monitorVars, workerVars, slotVars, snap, historyVars>>
  /\ Refresh(m_active_rate)

\* m_tree.push_time()
PushTime ==
  /\ net = "clock"
  /\ net' = "lock"
  /\ UNCHANGED <<ownerVars, timerVars, m_requested_rate, m_active_rate,
                 monitorVars, workerVars, slotVars, snap, historyVars>>

\* Mutation of LockSlot: m_mutex is not taken.
LockNothing == TRUE

\* Mutation of LockSlot: tick() waits until there is a reading.
LockWhenDirty == m_mutex = NoMonitor /\ m_dirty

\* The lock_guard of tick()
LockSlot == m_mutex = NoMonitor

\* Mutation of ClearDirty: the flag stays set.
KeepDirty == UNCHANGED m_dirty

\* m_dirty = false
ClearDirty == m_dirty' = FALSE

\* The critical section of tick(), which no other thread can observe half
\* done: without a new snapshot tick() returns, otherwise it is moved out.
TakeSnapshot ==
  /\ net = "lock"
  /\ LockSlot
  /\ UNCHANGED m_delay
  /\ IF m_dirty
       THEN /\ snap' = m_snapshot
            /\ m_snapshot' = Hollow
            /\ ClearDirty
            /\ net' = "push"
            /\ UNCHANGED m_timer
       ELSE /\ Rearm
            /\ UNCHANGED <<snap, m_snapshot, m_dirty>>
  /\ UNCHANGED <<ownerVars, m_requested_rate, m_active_rate, monitorVars,
                 workerVars, m_mutex, historyVars>>

\* m_tree.push_dynamic(m_hw, snap)
PushDynamic ==
  /\ net = "push"
  /\ published' = snap
  /\ snap' = Hollow
  /\ UNCHANGED m_delay
  /\ Rearm
  /\ UNCHANGED <<ownerVars, m_requested_rate, m_active_rate, monitorVars,
                 workerVars, slotVars, taken>>

-----------------------------------------------------------------------------
(***************************************************************************)
(* The thread of a monitor: the loop of hwinfo's Monitor around the two    *)
(* functions apply_rate gives it.                                          *)
(***************************************************************************)

\* m_sampler.fetch returns.  It may take any time, or for ever.
Fetch(m) ==
  /\ worker[m] = "fetch"
  /\ MaxReadings > 0 => taken < MaxReadings
  /\ taken' = IF MaxReadings > 0 THEN taken + 1 ELSE 0
  /\ reading' = [reading EXCEPT ![m] = taken']
  /\ worker' = [worker EXCEPT ![m] = "deliver"]
  /\ UNCHANGED <<ownerVars, net, timerVars, m_requested_rate, m_active_rate,
                 monitorVars, stopping, slotVars, snap, published>>

\* m_sampler.fetch returns to a monitor that is being stopped, which may
\* drop the reading and end its thread.
Discard(m) ==
  /\ worker[m] = "fetch"
  /\ stopping[m]
  /\ worker' = [worker EXCEPT ![m] = "off"]
  /\ UNCHANGED <<ownerVars, net, timerVars, m_requested_rate, m_active_rate,
                 monitorVars, stopping, reading, slotVars, snap, historyVars>>

\* The callback takes the mutex and starts to assign m_snapshot ...
LockSnapshot(m) ==
  /\ worker[m] = "deliver"
  /\ m_mutex = NoMonitor
  /\ m_mutex' = m
  /\ m_snapshot' = Torn
  /\ worker' = [worker EXCEPT ![m] = "write"]
  /\ UNCHANGED <<ownerVars, net, timerVars, m_requested_rate, m_active_rate,
                 monitorVars, stopping, reading, m_dirty, snap, historyVars>>

\* ... and ends, the snapshot whole and dirty, with the mutex released.
StoreSnapshot(m) ==
  /\ worker[m] = "write"
  /\ m_snapshot' = reading[m]
  /\ m_dirty' = TRUE
  /\ m_mutex' = NoMonitor
  /\ worker' = [worker EXCEPT ![m] = "sleep"]
  /\ UNCHANGED <<ownerVars, net, timerVars, m_requested_rate, m_active_rate,
                 monitorVars, stopping, reading, snap, historyVars>>

\* The interval has passed, or the monitor was told to stop.
Wake(m) ==
  /\ worker[m] = "sleep"
  /\ worker' = [worker EXCEPT ![m] = IF stopping[m] THEN "off" ELSE "fetch"]
  /\ UNCHANGED <<ownerVars, net, timerVars, m_requested_rate, m_active_rate,
                 monitorVars, stopping, reading, slotVars, snap, historyVars>>

-----------------------------------------------------------------------------
\* The callback of /rate, from whichever thread writes the address.
WriteRate(v) ==
  /\ tree
  /\ m_owner # "absent"
  /\ m_requested_rate' = Clamp(v)
  /\ UNCHANGED <<ownerVars, net, timerVars, m_active_rate, monitorVars,
                 workerVars, slotVars, snap, historyVars>>

-----------------------------------------------------------------------------
OwnerStops == \/ TestMonitor \/ StopMonitor \/ JoinMonitor
              \/ StopTimer \/ ClearTree \/ Release

Tick == \/ TickNewRate \/ TickStopMonitor \/ TickJoined
        \/ TickPause \/ TickCreate \/ TickStart
        \/ TickSameRate
        \/ PushTime \/ TakeSnapshot \/ PushDynamic

Poll(m) == Fetch(m) \/ Discard(m)

Deliver(m) == LockSnapshot(m) \/ StoreSnapshot(m) \/ Wake(m)

Next ==
  \/ \E r \in RateInputs : Connect(r) \/ WriteRate(r)
  \/ Disconnect
  \/ OwnerStops
  \/ Crash
  \/ Tick
  \/ \E m \in Monitors : Poll(m) \/ Deliver(m)

Spec == Init /\ [][Next]_vars

-----------------------------------------------------------------------------
(***************************************************************************)
(* Fairness.  The owner goes on with a disconnection it began, the network *)
(* context with a tick it began and with an armed timer, a worker with its *)
(* loop.  A tick gets the mutex in the end, which a worker holds only      *)
(* while it copies one snapshot per interval; the cancellation of the      *)
(* timer gets its turn between two ticks, the context being a queue.       *)
(* Nothing makes anyone connect, disconnect or write /rate.                *)
(***************************************************************************)
ThreadFairness ==
  /\ WF_vars(OwnerStops)
  /\ SF_vars(StopTimer \/ Release)
  /\ WF_vars(Tick)
  /\ SF_vars(TakeSnapshot)
  /\ \A m \in Monitors : WF_vars(Deliver(m))

\* A reading may stall for ever: fetch is not fair.
FairSpec == Spec /\ ThreadFairness

\* Every reading ends.  The properties that depend on it say so.
ReadingsEnd == \A m \in Monitors : WF_vars(Poll(m))

-----------------------------------------------------------------------------
(***************************************************************************)
(* Safety                                                                  *)
(***************************************************************************)

\* The only worker thread is that of m_monitor, so that at most one thread
\* ever runs m_sampler.fetch and the snapshot callback (Protocol.hpp:51).
WorkerIsOwned == \A m \in Monitors : Alive(m) => m_monitor = m

\* push_dynamic is never given a snapshot that is half assigned, moved from
\* or not yet filled, whatever the order of the worker's copy, the move out
\* of m_snapshot and the restarts of the worker (Protocol.cpp:90-93, 114-123).
WholeReadings ==
  /\ published \in Nat
  /\ net = "push" => snap \in Nat

\* While tick() is not running and the rate it last applied is 0, no worker
\* thread exists: nothing is polled (README.md:40-41).
QuietWhilePaused ==
  m_owner = "up" /\ net = "idle" /\ m_active_rate = 0
    => \A m \in Monitors : ~Alive(m)

\* As long as the device is connected and the active rate is not 0 there is a
\* worker that nobody told to stop, unless a tick is replacing it: no order of
\* pauses, resumptions and changes of the rate leaves the readings ceased
\* (Protocol.cpp:72-96).
PolledWhileOn ==
  m_owner = "up" /\ ~Applying /\ m_active_rate > 0
    => m_monitor # NoMonitor /\ Alive(m_monitor) /\ ~stopping[m_monitor]

\* When the protocol has been destroyed neither its timer nor one of its
\* threads is left to touch it, in spite of ticks during its stop().
NothingAfterRelease ==
  m_owner = "absent" =>
    /\ m_timer = Off
    /\ net = "idle"
    /\ \A m \in Monitors : ~Alive(m)

\* tick() pushes to the nodes only while they exist: "The device stops the
\* protocol before it tears the tree down" (Protocol.hpp:37).
TreeOutlivesPushes == net \in {"clock", "lock", "push"} => tree

\* Between two ticks the timer is armed with the delay of the active rate:
\* the rate itself, or the polling interval if refreshing is off.
TimerFollowsRate ==
  net = "idle" /\ m_owner \in {"up", "stop", "call", "join", "timer"} /\ tree
    => m_timer = IF m_active_rate > 0 THEN m_active_rate ELSE PausedInterval

\* m_monitor has no lock: unless stop() and apply_rate are between their test
\* and their last use of it at the same time, nobody finds null what was not
\* when tested, and no thread is joined twice.  Nothing that happens between
\* two ticks or two calls of stop() can bring that about (Protocol.cpp:36-40,
\* 72-96).
MonitorUsedByOne == Undefined => met

\* Does somebody wait in m_monitor->stop() for the worker?
Joining == m_owner = "join" \/ net = "join"

\* Is that worker one that was told to stop, for sure?  If stop() meets
\* apply_rate it may be inside the stop() of a monitor that is not started.
JoinsStopped ==
  /\ net = "join" => stopping[m_monitor]
  /\ m_owner = "join" => stopping[m_monitor] \/ met

\* No wait is for a thread that waits itself: a worker that is joined was told
\* to stop (unless a tick starts it inside stop()) and gets the mutex whenever
\* it hands a reading over, and the mutex is held by nobody but a worker that
\* is copying a snapshot.  So the join in stop(), that in a tick and the wait
\* of m_timer.stop() for a tick do not end up waiting for each other
\* (Protocol.cpp:36-41, 72-76, 91, 116).
WaitsCanEnd ==
  /\ JoinsStopped
  /\ \A m \in Monitors : worker[m] = "deliver" => m_mutex = NoMonitor
  /\ m_mutex # NoMonitor => worker[m_mutex] = "write"

\* Whoever joins a worker waits for the reading it is in at most: it does not
\* begin another one after a reading that it still hands over.  Left out is
\* stop() having met apply_rate: the tick may start the worker that stop() is
\* waiting for, between Protocol.cpp:88 and 96, and it may then go on reading.
\* The join in a tick is held to it in any case (Protocol.cpp:38, 74).
JoinWaitsForOneReading ==
  [][(net = "join" /\ net' = "join") \/ (Joining /\ Joining' /\ ~met') =>
       \A m \in Monitors : worker'[m] = "fetch" => worker[m] = "fetch"]_vars

\* Readings are published one at a time, in the order they were completed,
\* each at most once, and only while refreshing is on: the implementation of
\* the abstract specification.
LR == INSTANCE LatestReading WITH refreshing <- m_active_rate > 0
LatestReadingSpec == LR!Spec

-----------------------------------------------------------------------------
(***************************************************************************)
(* Why they hold: an invariant every step preserves, in five parts.        *)
(***************************************************************************)

\* A worker that runs is that of m_monitor, and nobody replaces m_monitor while
\* a thread waits for it: m_monitor is null where a new one is about to be
\* created, and not alive before it is started.  Unless they meet, stop() and
\* apply_rate each find the monitor they tested.  From the last m_timer.stop()
\* on there are no more ticks to replace it.
Ownership ==
  /\ WorkerIsOwned
  /\ Joining => m_monitor # NoMonitor
  /\ net = "create" => m_monitor = NoMonitor
  /\ net = "start" /\ m_monitor # NoMonitor => ~Alive(m_monitor)
  /\ Stopping /\ Applying => met
  /\ Stopping \/ net \in {"call", "start"} => m_monitor # NoMonitor \/ met
  /\ m_owner = "up" /\ net = "start" => ~stopping[m_monitor]
  /\ m_owner \in {"absent", "up"} => ~met
  /\ m_owner \in {"up", "clear"} => tree
  /\ m_owner = "clear" \/ ~tree => m_timer = Off /\ net = "idle"
  /\ m_owner = "timer" /\ ~tree => m_monitor = NoMonitor
  /\ m_owner = "absent" => ~tree /\ m_monitor = NoMonitor

\* The delay, the monitor and the ticks follow m_active_rate.
Pace ==
  /\ tree /\ ~Applying => m_delay = Interval(m_active_rate)
  /\ tree /\ net = "idle" /\ m_owner # "clear" => m_timer = m_delay
  /\ ~Applying /\ m_active_rate = 0 => m_monitor = NoMonitor
  /\ net = "start" => m_active_rate > 0
  /\ net \in {"clock", "lock", "push"} => m_active_rate > 0

\* Is m_snapshot a reading that tick() could take now?
Ready == m_dirty /\ m_mutex = NoMonitor

\* What can be taken, is about to be pushed, or was pushed is a reading.
Wholeness ==
  /\ Ready => m_snapshot \in Nat
  /\ WholeReadings

\* The readings on their way, from the tree back to the worker, are one more
\* recent than the other (if they are numbered).
Order ==
  /\ published <= taken
  /\ net = "push" => published < snap /\ snap <= taken
  /\ Ready => /\ published < m_snapshot /\ m_snapshot <= taken
              /\ net = "push" => snap < m_snapshot
  /\ \A m \in Monitors :
       worker[m] \in {"deliver", "write"} =>
         /\ published < reading[m] /\ reading[m] <= taken
         /\ net = "push" => snap < reading[m]
         /\ Ready => m_snapshot < reading[m]

\* Who is joined was told to stop before (see JoinsStopped), and the mutex is
\* that of the worker that is writing.
Waits ==
  /\ JoinsStopped
  /\ \A m \in Monitors : m_mutex = m <=> worker[m] = "write"

Inv == Ownership /\ Pace /\ Wholeness /\ Order /\ Waits

-----------------------------------------------------------------------------
(***************************************************************************)
(* Liveness                                                                *)
(***************************************************************************)

\* The last rate written to /rate takes effect, in the end for good, whether
\* it starts, restarts, resumes or stops the worker (README.md:38-41).
RateTakesEffect ==
  ReadingsEnd =>
    \A r \in Rates :
      <>[](m_owner = "up" /\ m_requested_rate = r)
        => <>[](m_active_rate = r /\ (m_monitor # NoMonitor <=> r > 0))

\* A reading that was handed over is taken up by a tick, unless the device
\* is disconnected or refreshing is turned off.
ReadingIsTaken ==
  ReadingsEnd =>
    (m_dirty ~> ~m_dirty \/ m_owner # "up" \/ m_requested_rate = 0)

\* A disconnection ends: the join in stop(), the wait for the timer and the
\* second stop() of the destructor do not wait for each other.  Left out is
\* stop() having met apply_rate, after which nothing is sure any more.
DisconnectCompletes ==
  ReadingsEnd => (m_owner = "stop" ~> m_owner = "absent" \/ met)

\* With a rate that is not 0 and not being changed, the clock under /time is
\* pushed again and again even if a reading never ends (Protocol.cpp:110-111).
ClockSurvivesStall ==
  <>[](/\ m_owner = "up"
       /\ net # "join"
       /\ m_active_rate > 0
       /\ m_requested_rate = m_active_rate)
    => []<>(net = "clock")

-----------------------------------------------------------------------------
(***************************************************************************)
(* What comments and the README say and the code does not do               *)
(***************************************************************************)

\* "no thread but the network context ever starts or joins the worker"
\* (Protocol.hpp:60-62).  stop() joins it on the thread of the owner, where
\* it can meet the join of a tick that applies a new rate.
OneThreadJoins == ~Overlap

\* "a slow device never holds up the network context.  The clock [...] keeps
\* ticking either way" (README.md:43-47).  A new rate makes a tick wait for
\* the reading that stalls.
ClockKeepsTicking ==
  <>[](m_owner = "up" /\ m_requested_rate > 0) => []<>(net = "clock")
=============================================================================
