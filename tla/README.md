# A verification of score-addon-sysinfo in TLA+

score-addon-sysinfo publishes the machine it runs on as a device of ossia score: an
address tree whose live values are read on a worker thread and pushed from the network
context. This directory models the parts of it that are hard to test, checks them with
TLC on small instances, and proves the main ones with TLAPS for every instance.

Paths are relative to the root of the repository; `Protocol.cpp`, `Tree.cpp`,
`Platform.cpp` and so on are under `SysInfo/`.

## The system

| Component | State | Operations | Modelled in |
|---|---|---|---|
| refresh machinery, `sysinfo_protocol` (Protocol.cpp) | `m_timer`, `m_monitor`, `m_requested_rate`, `m_active_rate`, `m_mutex`, `m_snapshot`, `m_dirty` | `set_device`, `stop`, the destructor, `tick`, `apply_rate`, the callback of `/rate`, the two functions given to the monitor | `Protocol` |
| device (Device.cpp) | the owned device | `reconnect`, `disconnect` | `Protocol` (threads), `GpuSources` (other devices), `Device` (settings) |
| sampler (Tree.cpp) | `m_prev_rx`, `m_prev_tx`, `m_prev_time` | `fetch` | `Sampler` (throughput), `Mounts` (capacities), `GpuSources` (GPUs) |
| description of the machine (Tree.cpp) | `hardware`, read once | `hardware::scan` | `Mounts` (choice of the paths), `GpuSources` (GPUs) |
| address tree (Tree.cpp) | the parameters and their values | `setup`, `push_static`, `push_time`, `push_dynamic` | `Tree`, `Mounts` (sums of the disks), `GpuSources` (rows of the GPUs) |
| conversions (Tree.cpp, Platform.cpp) | none | `count`, `usage_of`, `frequency`, `open_files` | `Conversions`, used by `Device` |
| platform layer (Platform.cpp) | `g_gpu_sources` under `g_gpu_mutex`, the NVML binding | `mount_table`, `unescape_mount_path`, `mount_stats`, `network_traffic`, `read_uint`, `open_files`, `init_gpu_readings`, `gpu_descriptions`, `gpu_readings`; `loadavg`, `uptime` | `MountPath`, `Mounts`, `Sampler`, `Device`, `GpuSources`; the last two are not modelled |
| settings, widget, serialisation, factory | a rate and a flag, and what was saved of them | `setSettings`, `getSettings`, the readers and writers, `defaultSettings` | `Device` |

How they interact. Connecting scans the hardware, lays out the tree, attaches a callback
to `/rate`, starts a monitor (whose thread fetches a snapshot, hands it over under
`m_mutex` and sleeps for the interval) and arms a timer. Each time the timer fires,
`tick()` runs on the network context: it compares the requested rate with the active one
and replaces the monitor if they differ, pushes the clock, and takes and pushes the
snapshot if a new one was handed over. The list of GPUs to read is global: every scan of
every device replaces it, and every worker reads through a copy of it. Any thread may
write `/rate`; the callback only stores the clamped value. To disconnect, the thread
that owns the device calls `stop()`, the nodes are cleared, and the protocol is
destroyed, which calls `stop()` again.

What makes it hard:

- the owner and the network context share `m_monitor` without a lock: each tests it, stops
  it and resets it, and a tick makes a new one visible before it starts it; the worker and
  the network context share `m_snapshot` and `m_dirty` with a lock;
- joining the worker is a wait of unbounded length, from two threads;
- `stop()` joins the worker *before* it stops the timer, so that a tick can start a new
  worker in between; only the second `stop()`, in the destructor, ends it;
- a reading may be under way whenever the rate changes or the device goes;
- a counter may wrap, be reset, vanish or be unreadable between two readings;
- the machine is described once and measured for as long as the device lives;
- all devices share one list of GPUs, which a scan replaces while workers read, and GPUs
  come and go in between;
- unsigned 64-bit integers meet 32-bit ones, and differences that could wrap around.

What makes each component correct:

- refresh machinery: one worker at most; none while paused or after the destruction; a
  monitor that was tested is there when it is used, unless `stop()` meets `apply_rate`;
  nothing but whole readings is published, in order, at most once, while refreshing is
  on; every rate takes effect in the end; a disconnection ends; the clock does not wait
  for readings;
- throughput: it accounts for the bytes of its interval and for no others;
- capacities: each filesystem is counted once, for its own disk;
- tree: what is shown is one reading; every address is written by somebody and by one
  kind of push only;
- GPU sources: what is shown under the number of a GPU is of that GPU, and the scan of one
  device takes nothing away from another;
- settings and conversions: a rate means the same in the editor, the file and the
  protocol; counts saturate, ratios are shares, the clocks of the cores are in Hz, paths survive.

## Modules

### Protocol

The threads as control points. Every access to `m_monitor` that another thread could come
before or after is an action of its own: its test, `m_monitor->stop()`, the return of the
join with the reset, the creation and `m_monitor->start()`. What is one action although
it consists of several accesses is listed below.

| Variable | Code |
|---|---|
| `m_owner` | where the owner is: `absent`, `up` (connected), in `stop()` at the test of `m_monitor` (`stop`), the call of its `stop()` (`call`), the join in that and the reset (`join`) or `m_timer.stop()` (`timer`), or between `stop()` and the destructor (`clear`). The first and second `stop()` share their steps; `tree` tells them apart |
| `net` | where the network context is in `tick()`: `idle`; in `apply_rate` after its test of `m_monitor`, about to call its `stop()` (`call`), in the join (`join`), before the new monitor (`create`), before its `start()` (`start`); about to push the clock (`clock`), to lock (`lock`), to push the snapshot (`push`) |
| `met` | history, which no guard reads: were `stop()` and `apply_rate` between their test and their last use of `m_monitor` at the same time, since the connection? |
| `worker`, `stopping`, `reading` | per monitor object: where its thread is, whether it was told to stop, the reading it holds |
| `m_timer`, `m_delay` | the delay armed (`Off` if none) and the delay of the next arming |
| `tree` | do the nodes exist? |
| `snap`, `taken`, `published` | the local of `tick()`, how many readings were completed, which of them the tree shows |

| Action | Code |
|---|---|
| `Connect` | `set_device` |
| `Disconnect`, `TestMonitor`, `StopMonitor`, `JoinMonitor`, `StopTimer`, `ClearTree`, `Release` | the destruction of the device: `stop()`, the nodes, `~sysinfo_protocol` with its `stop()` |
| `TickNewRate`, `TickStopMonitor`, `TickJoined`, then `TickPause` or `TickCreate` and `TickStart` | `tick()` with a new rate: `apply_rate`, step by step, and the test for a rate of 0 |
| `TickSameRate` | `tick()` without one |
| `PushTime`, `TakeSnapshot`, `PushDynamic` | the rest of `tick()` |
| `Fetch`, `Discard`, `LockSnapshot`, `StoreSnapshot`, `Wake` | the thread of a monitor. The copy into `m_snapshot` takes two steps, with `Torn` between them |
| `WriteRate` | the callback of `/rate` |
| `Crash` | the end of the process, possible where the code is `Undefined`: both threads are inside `m_monitor->stop()` (`Overlap`, see `two_joins`), one is inside it when the other is about to call `start()`, or one is about to use an `m_monitor` that the other made null (`NullUse`) |

What is undefined, and what the model does with it. After `Overlap` and `NullUse` the
thread that is concerned takes no other step than `Crash`: nothing could be said of it.
When `stop()` is inside a monitor that a tick starts (Protocol.cpp:88, 96), either call
may take effect last: `TickStart` leaves the monitor told to stop, or running on, and
the owner waits for it. All of this needs `stop()` and `apply_rate` to meet, which `met`
records; `MonitorUsedByOne` shows that nothing else leads there. It takes a write to
`/rate` shortly before the disconnection, which may as well resume a paused device:
no join is needed.

One action, although several accesses to shared state: `Connect` (nobody else knows the
protocol yet); `JoinMonitor` and `TickJoined`, the return of the join and the reset: a
thread that comes between the two finds what it would have found before both, a monitor
that is being stopped; `TakeSnapshot`, a critical section.

Taken as given of code outside the repository, and marked so in the map: hwinfo's
`Monitor` runs its fetch function and its callback on one thread that `stop()` joins, and
may or may not deliver a reading that ends after `stop()` was called (`Discard` and
`LockSnapshot` are both possible); `ossia::timer` fires one tick at a time, arms itself
again when the tick returns, and its `stop()` waits for a tick that is running; the
destructor of `generic_device` calls `stop()`, clears the nodes and then releases the
protocol, the order that Protocol.hpp:37 and Protocol.cpp:55-56 describe; the network
context runs on a thread of its own.

Abstracted: what is in a reading (a number stands for it), the `window` given to the
sampler, the time between two ticks (a timer that is armed may fire).

### LatestReading

What the machinery promises, without threads: readings are completed one after another,
any reading newer than the published one may be published while refreshing is on, and a
release forgets everything. `LatestReadingSpec` of `Protocol` instantiates it with
`refreshing <- m_active_rate > 0`.

### Sampler

`sampler::fetch` and `network_traffic` against a system whose counters advance modulo
`Wrap`, whose interfaces go down and come up from 0, and where a listing or a counter may
fail to be read. A throughput is kept as the bytes it accounts for; `dt` only matters
through its sign. `since`, `moved`, `wasRead`, `steady`, `paired` and `exact` are history
that only the properties read. `tx` is treated exactly as `rx`, which stands for both.

### Mounts

`mount_table`, the choice of paths in `hardware::scan`, `mount_stats` and the sums of
`push_dynamic`, on Linux, against a mount table that grows and shrinks. A size is
abstracted to the filesystem it is the size of, and a sum to how often each filesystem
was counted. `MCMounts` gives the partitions (hwinfo reports one of them twice, and one of
two disks) and the directories: one is named by a space, the other by the four characters
`\040` that stand for a space in `/proc/self/mounts`. `CapacityIsOwn` says what is counted
then: a filesystem that is both reported and mounted, once, overall and for the disk that it is
reported of first, and any other one not at all.

Paths are sequences of character codes, because the table holds them escaped. `MountPath`
has the escaping of the kernel (external) and `unescape_mount_path`, as a recursive
function from the position in the string, with the three digits of an escape narrowed to a
byte (`OctalChar`).

### Tree

The addresses that `setup` creates for a machine and the sets of them that
`push_static`, `push_time` and `push_dynamic` write, transcribed group by group. A value
is where it comes from: the scan, or the tick that pushed a reading or the clock. The
group of the addresses at the root is `"/"`.

### GpuSources

Several devices, each of them `down`, in its scan (`probing`, `probed`), `up` or with its
worker in a reading (`reading`), share `g_gpu_sources`.

| Action | Code |
|---|---|
| `Reconnect` | `reconnect()`: `disconnect()`, and `hardware::scan` up to the enumeration of the GPUs, in any order |
| `Probe` | one iteration of `init_gpu_readings` |
| `PublishSources` | its end, the assignment under `g_gpu_mutex` |
| `Describe` | `gpu_descriptions`, which reads the list again, and the rest of the connection |
| `Down` | `disconnect()`, or a scan that throws |
| `CopySources`, `ReadSource` | `gpu_readings`: the copy under the mutex, one iteration |
| `PushGpus` | the match by id in `sampler::fetch`, and `push_dynamic` |
| `Plug`, `Unplug` | the system: GPUs come and go, numbers that are free are given again |

A value is where it comes from: which GPU, and whether sysfs, NVML or hwinfo reported it.
`memory_total`, `memory_used` and `clock` stand for the metrics; load and temperature go
like the clock. `nvml` is the set of calls of the library that work: none if it could not
be loaded. `held` and `calm` are history: which GPUs had a number, and whether anything
was plugged in or out since the scan of a device (or one that overlapped with it) began.

### Conversions and Device

`Conversions` has the arithmetic at any width of the integers (`IntMax` for `int`, `Word`
for `std::uint64_t`), a ratio being a fraction: `count` with its clamp and its narrowing,
`usage_of` with its unsigned difference, `frequency` with its threshold, and the parts of
`open_files` and `push_dynamic` that subtract. `frequency` is applied to the base and the
maximum clock of a core, and so `CoreClocksAreInHz` speaks of these two only.

`Device` follows what crosses the boundary of a device: settings that are edited
(`Edit`; `Confirm` opens the editor and changes nothing), saved and loaded in the two formats
(`Save`, `Load`), their rate that a connection clamps (`Reconnect`, `WriteRate`), and the
numbers and paths that are converted on their way to the addresses (`PushFiles`,
`PushProcess`, `PushMemory`, and what `Reconnect` pushes of the scan). A document may hold
any rate, the default settings among them.

## Runs

| Run | Question | Bounds, and why they are enough |
|---|---|---|
| `refresh_threads` | Who owns the worker, who uses `m_monitor`, who waits for whom and for how long, what is published and when, what is left after a release, in every interleaving; the invariant of the proofs; that `LatestReading` is implemented | Two monitor objects: a third is never alive, and two show an old and a new worker. Inputs of `/rate` below, in and above the range, clamped to 0, 1 and 2: paused, and two rates to change between. Four readings: one published, one taken, one handed over, one under way |
| `refresh_liveness` | A rate takes effect, a reading handed over is taken, a disconnection ends unless `stop()` met `apply_rate`, if every reading ends; the clock goes on although one does not, as long as no tick has to join the worker | The same with readings that are not numbered, and so without a bound |
| `sampler` | The throughput after two good readings is exact, or too low after a reset | Two interfaces, counters modulo 3, two bytes between fetches, three instants: the time of the previous fetch may be unset, equal or earlier; a counter may wrap |
| `mounts` | Capacities count each filesystem that is reported and mounted once, as long as no mount changes | Two disks, three partitions of which one is reported twice and one of both disks, three paths, a mount table of up to three lines: enough for a bind mount, an overmount, and two devices on each other's paths |
| `tree` | What is pushed where | None or two components of each kind, two ticks |
| `gpu` | Rows are of their GPU; a scan of one device harms no other | Two devices, one of which may scan, fail or disconnect at any point of a scan or a reading of the other; two numbers; a GPU that sysfs knows and one that only NVML does; two changes: one unplugged and the other plugged in under its number. With an Intel GPU as well, of which sysfs knows the clock only, the space is four times as large; that instance holds too |
| `device` | Numbers, paths and settings are what they were on the other side | `int` up to 3 and `std::uint64_t` up to 7: values below, at and above the clamp, narrowings that would wrap, differences that would be negative. Clocks below, at and above the threshold in both units. All paths of up to five characters out of a space, a backslash, `0` and `4`: among them a whole escape sequence, one that ends a path and one that is cut short. Rates below, in and above the range |

Five runs show what comments or the README say and the code does not do. Each ends in a
counterexample:

| Run | Says | Does |
|---|---|---|
| `stalled_join` | README.md:45-47, Protocol.cpp:110-111: a slow reading never holds up the network context, the clock keeps ticking | A tick that applies a new rate joins the worker, on the network context: it waits for the reading. `ClockSurvivesStall`, in `refresh_liveness`, shows that this is the only way for the clock to stop |
| `two_joins` | Protocol.hpp:60-62: no thread but the network context joins the worker | `stop()` does, on the thread of the owner, and may do so while a tick does. The other orders in which they meet are `Undefined` as well; `MonitorUsedByOne` shows that without meeting there is none |
| `network_spike` | Tree.cpp:685: throughput in bytes per second | After a fetch that missed an interface or could not read its counter, the next one counts older bytes |
| `mounts_twice` | Tree.hpp:98-99: a bind mount is not counted twice | It is, if it is mounted after the scan, or over the path kept of another device |
| `tree_elsewhere` | README.md:189-191: the addresses of what hwinfo cannot enumerate exist regardless | Nodes are created for the components found only, as README.md:55-56 says |

Deadlock is checked in every run but those of `Tree`, which stop at `MaxTicks`. The two
devices of `gpu` are alike, and its properties are invariants: `SYMMETRY` is sound there.

### Fairness

`FairSpec` assumes weak fairness of each thread that has something to do: an owner that
began a disconnection goes on with it, the network context runs a timer that is armed
and a tick that began, a worker delivers the reading it has and wakes up after its
interval. Strong fairness is assumed twice. `TakeSnapshot`: the tick gets `m_mutex` in
the end, which a worker holds for one copy per interval. `StopTimer` and `Release`: the
cancellation of the timer gets its turn between two ticks, the network context being a
queue. Nobody has to connect, disconnect or write `/rate`. It says nothing of `Fetch`
and `Discard`: a reading may last for ever, which is what an unresponsive network mount
does. That every reading ends (`ReadingsEnd`) is a premise that the properties that
depend on it state: a rate takes effect, and a disconnection ends, only if the readings
do, since both join the worker. `Crash` has no fairness: what is undefined need not end.

## Proofs

Every invariant and every action property of the passing runs is proved, for every value of
the constants that satisfies the assumptions its module names.

### Protocol

`Protocol_proofs` proves, for any set of monitors, any `MaxRate`, `PausedInterval`, inputs
and bound on the readings, under the assumptions that `Protocol` names:

| Theorem | States |
|---|---|
| `TypeCorrect` | `TypeOK` |
| `OneWorker`, `ReleaseIsClean`, `PushesHaveATree` | `WorkerIsOwned`, `NothingAfterRelease`, `TreeOutlivesPushes` |
| `OneUserOfTheMonitor` | `MonitorUsedByOne` |
| `PausedIsQuiet`, `PolledUntilStopped`, `TimerIsInPace` | `QuietWhilePaused`, `PolledWhileOn`, `TimerFollowsRate` |
| `WaitsAreNoCircle`, `JoinsWaitForOneReading` | `WaitsCanEnd`, `JoinWaitsForOneReading` |
| `PublishedIsWhole` | `WholeReadings` |
| `Invariant` | all the parts below at once, if readings are numbered |
| `ImplementsLatestReading` | `Spec => LatestReadingSpec`, if readings are numbered |

None of the safety properties is inductive by itself; `PolledWhileOn` becomes so with
`Ownership`: no other worker than that of `m_monitor` could be the one that ends. The others
follow from an invariant in five parts, which the run `refresh_threads` also checks:

- `Ownership`: the only worker alive is that of `m_monitor`; whoever waits for a worker
  has one to wait for; a new monitor is created where there is none, and is not alive
  until it is started; if `stop()` and `apply_rate` are both between test and last use
  of `m_monitor` then `met` is set, and if it is not set each finds what it tested; a device that is up has its nodes; once the timer was stopped for
  the last time nothing ticks, so that the monitor the destructor removed stays removed.
  `WorkerIsOwned` alone is lost in the step where `stop()` returns while a tick still may
  replace the monitor;
- `Pace`: outside `apply_rate` the delay, the monitor and the position of a tick agree
  with `m_active_rate`, and the timer, if the network context is idle, with the delay;
- `Waits`: whoever is joined was told to stop, unless `stop()` joins what a tick starts
  (and `met` is set), and the mutex is that of the worker that is writing. With
  `Ownership` a worker that hands over a reading is the only one, so that it finds the
  mutex free, and one that was told to stop begins no other reading. What is left of a
  tick's join is one reading, and so it is of a disconnection without such a meeting;
  `DisconnectCompletes` assumes it to end. The case left out is real: the worker that is
  started under the hands of `stop()` may go on reading, and be waited for;
- `Wholeness`: if `m_dirty` is set and `m_mutex` is free, `m_snapshot` is a reading; what
  the tick took is one. That the tick takes the lock is what this part uses;
- `Order`: published, taken, handed over and under way, the numbers of the readings
  increase. It needs `Ownership`: there is one worker, and so one reading under way.

Each part is preserved by every action, one step of the proof per action, and `PTL`
combines the parts. `MaxReadings # 0` (`Numbered`) is an assumption of the two last
theorems, because the other value makes all readings 0 to give the liveness runs a
finite state space.

### The other components

| Module | Theorems | Invariant, and why it is needed |
|---|---|---|
| `Sampler_proofs` | `SamplerTypeCorrect`, `NeverInflated`, `ExactWhenSteady` | `Growth`: since a fetch that read it a counter grew by the bytes received, unless it started over, and by no more in any case. The properties speak of the last fetch, this of the time since |
| `Mounts_proofs` | `MountsTypeCorrect`, `CapacityIsTheirs` | `Chosen`: as long as no mount changed, the paths kept are, per partition mounted at the scan, one path that it is mounted on. `Measured`: a fetch not pushed yet found these filesystems. The first line of a device and the first report of a partition are least elements of sets of naturals (`LeastExists`). That what comes back from the mount table is the directory that was mounted is `UnescapeIsInverse` |
| `MountPath_proofs` | `UnescapeIsInverse`: `unescape_mount_path(escape(path)) = path` for every sequence of characters | No state, but an induction, below |
| `Tree_proofs` | `TreeTypeCorrect`, `OneReading`, `Published`, `DescribedOnce` | `Attributed`: every value is of a push that writes its address, and what each push writes is written after it. The sets of addresses are shown to be disjoint (`DescriptionIsApart`) and to cover the tree (`SetupIsCovered`) for any number of components |
| `GpuSources_proofs` | `GpuTypeCorrect`, `RowsOfTheirGpu`, `RescanSafe` | `Traced`: whatever any list, reading or row says of a number comes from a GPU that had it. `Calm`: the lists made since the last GPU came or went name all GPUs with the right sources, and so does the shared one, because the scans that could still replace it are as recent (`CalmScans`) |
| `Device_proofs` | `DeviceTypeCorrect`, `CountsSaturate`, `RatiosTellShares`, `CoreClocksShowHz`, `PathsShowAsTheyAre`, `SavedIsLoaded`, `EditorIsNeutral` | The file is what was saved, in either format, and what is shown satisfies the three properties of the numbers, which follow from the arithmetic by themselves, and that of the paths, which is `UnescapeIsInverse` |

### Paths of any length

`unescape_mount_path` and the escaping are recursive functions, and the induction theorems
of the library cannot be applied here. `MountPath_proofs` argues by a least counterexample
instead, which needs nothing but `LeastExists`: a set of naturals that is not empty has a
least element, by the well-foundedness of finite sets.

- That the two recursive functions exist, which is what allows to unfold them, is shown
  the same way (`FlattenExists`, `UnescapeExists`): if they were not defined up to some
  length, there would be a least one, and one step defines them there.
- `EscapePrefixes`: the escaping of a path is that of its first characters followed by
  that of the next one, so that every character of the path has a place in the result.
- `CharacterComesOut`: at that place, one step of `unescape_mount_path` gives the
  character and goes on at the place of the next one. For the four special characters
  this is the arithmetic of their octal digits; any other one is not a backslash, and so
  begins no escape, whatever follows it.
- `UnescapeIsInverse`: take the shortest rest of the path that does not come out. It is
  not empty, its first character does come out, and a shorter rest follows: it does too.

### Only model-checked

Liveness (`RateTakesEffect`, `ReadingIsTaken`, `DisconnectCompletes`,
`ClockSurvivesStall`) is out of the reach of the prover, with the fairness and the
`ENABLED` it takes. So is deadlock. `WaitsAreNoCircle`, `JoinsWaitForOneReading` and `PolledUntilStopped`
are the part of them that is about states and steps. The counterexamples of the five runs that
expect one are TLC's.

## Not modelled

- `loadavg`, `uptime`, `qt_info::scan`: stateless reads of the system. Of `open_files` the
  arithmetic is modelled, the reads are not.
- The plug-in, and what the factory does besides the default settings: they construct the
  objects above for the host application.
- Clocks that are pushed as hwinfo reports them: `/cpu/thread/frequency` (Tree.cpp:278,
  955), those of GPUs (979) and of memory modules (842). README.md:109 and Tree.cpp:475
  document the first in Hz, and `frequency()` is not applied to it; whether hwinfo forwards
  kHz there, as it does for the clocks of a core, is not visible in this repository.
- Conversions: the rounding of floats, the narrowing of the UNIX time, `quantity`, which
  changes nothing but the type, and the values of `push_time`.
- Types, domains and descriptions of the addresses; the value of `/rate`, which depends on
  what the library makes of a value out of its domain.
- Exceptions on the worker and from `m_monitor->start()` inside a tick: they end in library
  code that this repository does not contain. A scan that throws is `Down` in `GpuSources`.
- GPUs: a call of NVML that fails now and then, a sysfs node of a present card that cannot
  be read, and a GPU that goes away in the middle of the reading of its own metrics.
  `RescanIsSafe` says nothing of the time after a GPU came or went, until the device is
  connected again: the list is then that of an earlier machine, by design. The models of
  NVIDIA described in `gpu_descriptions` are one value per GPU.
- macOS and Windows variants of the platform layer. `Sampler` holds for them (a listing
  that fails is empty there too); `Mounts` is Linux only, because elsewhere the table is
  empty by design and hwinfo reports paths; `GpuSources` is Linux only, because elsewhere
  no source is ever found.

## Plan

The modules above cover the state this code keeps. What is left:

1. A number given to another GPU while a device is connected: nothing says yet what the
   device should show then.
2. `/rate` after a connection with a rate out of range, once it is written down what it
   should show.

The throughput after a pause needs no module of its own: `Sampler` allows any time and any
events between two fetches, and `WorkerIsOwned` shows that no two workers fetch at once.
