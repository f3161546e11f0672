------------------------------- MODULE Device -------------------------------
(***************************************************************************)
(* What crosses the boundary of a device: settings that are edited, saved  *)
(* and loaded on their way to the rate that is applied                     *)
(* (SysInfo/ProtocolSettingsWidget.cpp, SpecificSettingsSerialization.cpp, *)
(* Device.cpp, Protocol.cpp), and numbers that are converted on their way  *)
(* from the system to the addresses (Conversions, MountPath).              *)
(***************************************************************************)
EXTENDS Conversions, MountPath

CONSTANTS
  MaxRate,      \* SpecificSettings::max_rate
  DefaultRate,  \* SpecificSettings::rate
  Rates,        \* the integers that documents and writes to /rate bring
  Clocks,       \* clock rates of cores, in Hz, from 10 MHz to 10 GHz
  Characters,   \* what the names of the directories consist of
  MaxLength     \* bound on their length

ASSUME RatesAssumption ==
  /\ MaxRate \in Nat
  /\ DefaultRate \in 0 .. MaxRate
  /\ Rates \subseteq Int
  /\ Clocks \subseteq MinClock .. MinClock * Kilo - 1

ASSUME CharactersAssumption == Characters \subseteq Nat /\ MaxLength \in Nat

VARIABLES
  settings,          \* m_settings, the part specific to this protocol
  file,              \* what was written last: a stream or a JSON object
  saved,             \* the settings at that time
  connected,         \* is there an m_dev?
  m_requested_rate,
  pushed             \* the value being pushed: to which address, what the
                     \* system said, and what is shown

vars == <<settings, file, saved, connected, m_requested_rate, pushed>>

Flags == {0, 1}
Settings == [rate : Int, perThreadCpu : Flags]

\* Mutation of Clamp: only the upper bound.
ClampFromAbove(rate) == Least(rate, MaxRate)

\* std::clamp(rate, 0, max_rate)
Clamp(rate) == IF rate < 0 THEN 0 ELSE Least(rate, MaxRate)

Nothing == [to |-> "nothing"]

TypeOK ==
  /\ settings \in Settings
  /\ saved \in Settings
  /\ file.format \in {"stream", "json"}
  /\ connected \in BOOLEAN
  /\ m_requested_rate \in 0 .. MaxRate
  /\ pushed.to \in {"nothing", "mountpoints", "files", "process", "memory", "clock"}
  /\ pushed # Nothing => connected

-----------------------------------------------------------------------------
(***************************************************************************)
(* The settings                                                            *)
(***************************************************************************)

\* Mutation of DataStreamWriter: the fields are read in another order.
DataStreamWriterSwapped(stream) == [rate |-> stream[2], perThreadCpu |-> stream[1]]

DataStreamReader(n) == <<n.rate, n.perThreadCpu>>
DataStreamWriter(stream) == [rate |-> stream[1], perThreadCpu |-> stream[2]]

JSONReader(n) == [Rate |-> n.rate, PerThreadCpu |-> n.perThreadCpu]
JSONWriter(obj) == [rate |-> obj.Rate, perThreadCpu |-> obj.PerThreadCpu]

\* What is in the file, in the two formats.
Written(n, format) ==
  [format |-> format,
   data |-> IF format = "stream" THEN DataStreamReader(n) ELSE JSONReader(n)]

Read == IF file.format = "stream" THEN DataStreamWriter(file.data)
                                  ELSE JSONWriter(file.data)

\* Mutation of SpinMin: the box cannot show a paused device.
SpinMinOne == 1

\* The lower bound of m_rate->setRange(); the upper one is MaxRate.
SpinMin == 0

\* A QSpinBox that is given a value out of its range takes the nearest.
SpinBox(rate) == IF rate < SpinMin THEN SpinMin ELSE Least(rate, MaxRate)

\* A document may hold any rate.
Init ==
  /\ settings \in [rate : Rates \cup {DefaultRate}, perThreadCpu : Flags]
  /\ saved = settings
  /\ \E format \in {"stream", "json"} : file = Written(settings, format)
  /\ connected = FALSE
  /\ m_requested_rate = 0
  /\ pushed = Nothing

\* setSettings() and getSettings(), with nothing changed in between.
Confirm ==
  /\ ~connected
  /\ settings' = [settings EXCEPT !.rate = SpinBox(@)]
  /\ UNCHANGED <<file, saved, connected, m_requested_rate, pushed>>

\* The same, with new values.
Edit ==
  /\ ~connected
  /\ settings' \in [rate : SpinMin .. MaxRate, perThreadCpu : Flags]
  /\ UNCHANGED <<file, saved, connected, m_requested_rate, pushed>>

Save ==
  /\ \E format \in {"stream", "json"} : file' = Written(settings, format)
  /\ saved' = settings
  /\ UNCHANGED <<settings, connected, m_requested_rate, pushed>>

Load ==
  /\ ~connected
  /\ settings' = Read
  /\ UNCHANGED <<file, saved, connected, m_requested_rate, pushed>>

-----------------------------------------------------------------------------
(***************************************************************************)
(* The connection                                                          *)
(***************************************************************************)

Paths == UNION {[1 .. n -> Characters] : n \in 1 .. MaxLength}

\* What hardware::scan finds of paths and of the base and maximum clock of a
\* core, once.  hwinfo reports these in Hz, or in kHz as if they were Hz.  They
\* are the only clocks that frequency() is applied to.
Described ==
  {[to |-> "mountpoints", raw |-> path,
    shown |-> unescape_mount_path(escape(path))] : path \in Paths}
  \cup
  {[to |-> "clock", raw |-> <<clock, unit>>,
    shown |-> frequency(clock \div unit)] : clock \in Clocks, unit \in {1, Kilo}}

\* reconnect(), which begins with disconnect(): set_device() clamps the rate
\* and pushes the description.
Reconnect ==
  /\ ~connected
  /\ connected' = TRUE
  /\ m_requested_rate' = Clamp(settings.rate)
  /\ pushed' \in Described
  /\ UNCHANGED <<settings, file, saved>>

\* disconnect(), or a reconnect() whose scan throws, which is swallowed.
Disconnect ==
  /\ connected
  /\ pushed = Nothing
  /\ connected' = FALSE
  /\ UNCHANGED <<settings, file, saved, m_requested_rate, pushed>>

\* The callback of /rate.
WriteRate ==
  /\ connected
  /\ m_requested_rate' \in {Clamp(rate) : rate \in Rates}
  /\ UNCHANGED <<settings, file, saved, connected, pushed>>

\* A live value is pushed, while the device is not paused.
Push(value) ==
  /\ connected
  /\ pushed = Nothing
  /\ m_requested_rate > 0
  /\ pushed' = value
  /\ UNCHANGED <<settings, file, saved, connected, m_requested_rate>>

\* push_value() returns.
EndPush ==
  /\ pushed # Nothing
  /\ pushed' = Nothing
  /\ UNCHANGED <<settings, file, saved, connected, m_requested_rate>>

\* /files: what /proc/sys/fs/file-nr says, or zeros.
PushFiles ==
  \E allocated, unused, max \in Uint64 :
    Push([to |-> "files", raw |-> <<allocated, unused, max>>,
          shown |-> <<count(system_open(allocated, unused)), count(max)>>])

\* /process/files: the listing counts one descriptor more than are held, or
\* fails; the maximum is 0 where there is no limit.
PushProcess ==
  \E held \in Uint64 \ {Word - 1}, max \in Uint64, listed \in BOOLEAN :
    LET open == process_open(IF listed THEN held + 1 ELSE 0)
    IN  Push([to |-> "process", raw |-> <<IF listed THEN held ELSE 0, max>>,
              shown |-> <<count(open), count(max), process_files_usage(max, open)>>])

\* /memory: the total is that of the scan, what is available changes.
PushMemory ==
  \E total, available \in Uint64 :
    Push([to |-> "memory", raw |-> <<total, available>>,
          shown |-> <<memory_used(total, available), usage_of(total, available)>>])

Next ==
  \/ Confirm \/ Edit \/ Save \/ Load
  \/ Reconnect \/ Disconnect \/ WriteRate
  \/ PushFiles \/ PushProcess \/ PushMemory \/ EndPush

Spec == Init /\ [][Next]_vars

-----------------------------------------------------------------------------
\* What a connection would make of the settings.
Effect(n) == [rate |-> Clamp(n.rate), perThreadCpu |-> n.perThreadCpu]

\* Opening the editor of a device and confirming it changes nothing about
\* what the next connection does, whatever rate its document holds: the range
\* of the box (ProtocolSettingsWidget.cpp:28) and the clamp of set_device
\* (Protocol.cpp:51) agree, and a paused device stays paused.
ConfirmChangesNothing == [][Confirm => Effect(settings') = Effect(settings)]_vars

\* What is loaded is what was saved, in both formats
\* (SpecificSettingsSerialization.cpp).
LoadReturnsTheSaved == [][Load => settings' = saved]_vars

\* A count that does not fit in an int, as the unlimited fs.file-max does not,
\* shows as the largest one, and one that could not be taken as 0
\* (Tree.cpp:166-167, Platform.cpp:213-223): none wraps around, and no
\* difference between two counts does.
CountsDoNotWrap ==
  /\ pushed.to = "files" =>
       LET used == pushed.raw[1] - Least(pushed.raw[1], pushed.raw[2])
       IN  pushed.shown = <<Least(used, IntMax), Least(pushed.raw[3], IntMax)>>
  /\ pushed.to = "process" =>
       \A k \in {1, 2} : pushed.shown[k] = Least(pushed.raw[k], IntMax)

\* Is a ratio that of a part to the whole, or of the whole to itself if the
\* part is larger?  The ratio to nothing is 0.
IsShare(ratio, part, whole) ==
  IF whole = 0 THEN ratio.part = 0
               ELSE ratio.part * whole = Least(part, whole) * ratio.whole

\* Ratios are in [0; 1] and tell the share in use, even if the whole, read at
\* the connection or limited later, is less than its part (Tree.cpp:173-179,
\* 945-949, 959-963); and the memory used and available add up to the total.
RatiosAreShares ==
  /\ pushed.to = "process" => IsShare(pushed.shown[3], pushed.raw[1], pushed.raw[2])
  /\ pushed.to = "memory" =>
       LET total == pushed.raw[1]
           available == Least(pushed.raw[2], total)
       IN  /\ pushed.shown[1] + available = total
           /\ IsShare(pushed.shown[2], pushed.shown[1], total)

\* The base and the maximum clock of a core (/cpu/N/frequency), from 10 MHz to
\* 10 GHz, show in Hz, to a kHz, whether hwinfo reports them in Hz or in kHz
\* (Tree.cpp:132-141, 803-804).  The other clocks are not converted.
CoreClocksAreInHz ==
  pushed.to = "clock" =>
    pushed.shown \in {pushed.raw[1], Kilo * (pushed.raw[1] \div Kilo)}

\* The paths of directories come out of /proc/self/mounts as they are, even if
\* they look like an escape (Platform.cpp:104-124).
PathsSurviveEscaping ==
  pushed.to = "mountpoints" => pushed.shown = pushed.raw
=============================================================================
